-------------------------------- MODULE Setup --------------------------------
(***************************************************************************)
(* The installer (setup/installer.py) and what it changes on a computer:   *)
(* the two Node runtimes (node_bundle.py), the PostgreSQL cluster          *)
(* (postgres.py), the server profile, the client connection, the command,  *)
(* the login task (setup/startup.py) and the record of the mode.           *)
(*                                                                         *)
(* One installer runs at a time.  Every step may fail, with the clean-up   *)
(* the code has for it, and the process may be killed between any two; the *)
(* user runs it again.  Meanwhile start, stop and startup are used.  What  *)
(* a start does inside is Services; here it is one step.  The packages of  *)
(* a release are its bundle, as in every release.                          *)
(***************************************************************************)
EXTENDS Naturals

CONSTANTS
  Version,    \* releases that are installed
  Asked,      \* bound: the modes the user asks for
  None,
  MaxFaults,  \* bound: failures, kills, damages and commands
  Faults      \* the kinds that may happen

Role == {"server", "client"}
ServerMode == {"full", "server-only"}
Mode == ServerMode \cup {"client-only", "connect"}  \* connect: with --server

Profile == [url : {None, "own", "other"}, listen : {"local", "all"}, shared : BOOLEAN]

ASSUME SetupAssumption == /\ None \notin Version /\ None \notin BOOLEAN /\ None \notin Mode
                          /\ None \notin Profile /\ None \notin {"own", "other"}
                          /\ "broken" \notin Version
                          /\ MaxFaults \in Nat /\ Asked \subseteq Mode
                          /\ Faults \subseteq {"fail", "kill", "damage", "user"}

VARIABLES
  at,        \* the place of the installer; "off" if none runs
  role,      \* the Node runtime it installs, now or next
  run,       \* its options and what it has read, of the last installer too
  outcome,   \* of the last installer
  node,      \* node_modules, .previous-node_modules and .installed-lock of each role
  damaged,   \* runtimes damaged since they were installed
  db,        \* cluster.json, data, the prepared database; and whether it runs
  profile,   \* the server profile
  config,    \* the destination of the client
  api,       \* the release the API runs
  stopped,   \* service-state.json
  launcher,  \* the release behind the hindsightkit command
  login,     \* startup.json and the login task
  record,    \* installation.json
  history,   \* what the user asked for, see below
  faults

server == <<db, profile, api>>
client == <<config, launcher, login, record>>
vars == <<at, role, run, outcome, node, damaged, server, client, stopped, history, faults>>

Copy == Version \cup {None, "broken"}               \* of node_modules

NodePlace == {"check", "recover", "unpack", "clear", "aside", "place", "tidy", "stamp"}
DatabasePlace == {"database", "initialize", "initdb", "dbstart", "prepare", "url"}
Place == NodePlace \cup DatabasePlace \cup
         {"off", "profile", "copilot", "sharing", "local", "connect", "register", "integrate", "start",
          "launcher", "login", "task", "record", "unwind"}

\* run.stopped: the installation was stopped when the installer began.  existing, config and
\* pref: what the installer found of the profile, the connection and the preference.
Run == [mode : Mode \cup {None}, version : Version \cup {None}, stopped : BOOLEAN, existing : BOOLEAN,
        config : {None, "local", "other"}, pref : BOOLEAN \cup {None}]

\* history.undisturbed: no start since the installer began.  optedOut: the user switched login
\* startup off, and not on again.  held: an installer that found the installation stopped has
\* failed and cleaned up, and nobody has started or installed anything since.
TypeOK ==
  /\ at \in Place /\ role \in Role /\ run \in Run
  /\ outcome \in {"none", "done", "failed", "killed"}
  /\ node \in [Role -> [target : Copy, previous : Copy, stamp : Version \cup {None}]]
  /\ damaged \subseteq Role
  /\ db \in [settings : BOOLEAN, data : BOOLEAN, ready : BOOLEAN, up : BOOLEAN]
  /\ profile \in Profile \cup {None}
  /\ config \in {None, "local", "other"}
  /\ api \in Version \cup {None} /\ launcher \in Version \cup {None}
  /\ stopped \in BOOLEAN
  /\ login \in [pref : BOOLEAN \cup {None}, task : {"none", "on", "off"}]
  /\ record \in {None, "full", "server-only", "client-only"}
  /\ history \in [undisturbed : BOOLEAN, optedOut : BOOLEAN, held : BOOLEAN]
  /\ faults \in 0..MaxFaults
  \* The server is set up through its profile.
  /\ at \in DatabasePlace \cup {"copilot", "sharing", "local"} => profile # None
  /\ api # None => profile # None

Idle == [mode |-> None, version |-> None, stopped |-> FALSE, existing |-> FALSE,
         config |-> None, pref |-> None]

\* A new computer, or a profile of the user that names a PostgreSQL of his own.
Init ==
  /\ at = "off" /\ role = "client" /\ outcome = "none"
  /\ run = Idle
  /\ node = [r \in Role |-> [target |-> None, previous |-> None, stamp |-> None]]
  /\ damaged = {}
  /\ db = [settings |-> FALSE, data |-> FALSE, ready |-> FALSE, up |-> FALSE]
  /\ profile \in {None, [url |-> "other", listen |-> "all", shared |-> FALSE]}
  /\ config = None /\ api = None /\ launcher = None /\ stopped = FALSE
  /\ login = [pref |-> None, task |-> "none"]
  /\ record = None
  /\ history = [undisturbed |-> TRUE, optedOut |-> FALSE, held |-> FALSE]
  /\ faults = 0

Fault(kind) == /\ kind \in Faults
               /\ faults < MaxFaults
               /\ faults' = faults + 1

\* The variables of an installer that is over.
Over == /\ run' = [Idle EXCEPT !.mode = run.mode, !.version = run.version]
        /\ role' = "client"

\* A step of the installer that succeeds.
Step(place) == at = place /\ UNCHANGED <<outcome, history, faults>>

\* One that raises.
Raise == /\ at' = "unwind"
         /\ Fault("fail")
         /\ UNCHANGED <<outcome, history>>

-----------------------------------------------------------------------------
(* Begin and end *)

\* main() and startup(): what was stopped before is read first.
Begin(mode, version) ==
  /\ at = "off"
  /\ LET serves == mode \in ServerMode IN
       /\ at' = IF serves THEN "profile" ELSE "check"
       /\ role' = IF serves THEN "server" ELSE "client"
  /\ run' = [run EXCEPT !.mode = mode, !.version = version, !.stopped = stopped]
  /\ outcome' = "none"
  /\ history' = [history EXCEPT !.undisturbed = TRUE, !.held = FALSE]
  /\ UNCHANGED <<node, damaged, server, client, stopped, faults>>

\* What failed or was killed is run again.
Again == outcome \in {"failed", "killed"} /\ Begin(run.mode, run.version)

\* Steps that fail before they change anything.
Fails ==
  /\ at \in {"profile", "copilot", "check", "recover", "unpack", "aside", "stamp", "database", "initialize",
             "initdb", "dbstart", "prepare", "url", "integrate", "start", "launcher", "login", "record"}
  /\ Raise
  /\ UNCHANGED <<role, run, node, damaged, server, client, stopped>>

\* Defect: only the switch is put back.
UnwindSwitchOnly ==
  /\ at = "unwind"
  /\ at' = "off" /\ outcome' = "failed"
  /\ stopped' = (stopped \/ run.stopped)
  /\ history' = [history EXCEPT !.held = run.stopped]
  /\ Over
  /\ UNCHANGED <<node, damaged, server, client, faults>>

\* startup(): an installation that was stopped is stopped again.  stop() goes through all
\* services before it reports what it could not stop.
Unwind ==
  /\ at = "unwind"
  /\ at' = "off" /\ outcome' = "failed"
  /\ IF ~run.stopped
     THEN UNCHANGED <<stopped, api, db, history, faults>>
     ELSE /\ stopped' = TRUE
          /\ \/ /\ api' = None
                /\ db' = IF profile # None /\ profile.url = "own" THEN [db EXCEPT !.up = FALSE] ELSE db
                /\ history' = [history EXCEPT !.held = TRUE]
                /\ UNCHANGED faults
             \/ Fault("fail") /\ UNCHANGED <<api, db, history>>
  /\ Over
  /\ UNCHANGED <<node, damaged, profile, client>>

Kill ==
  /\ at # "off"
  /\ Fault("kill")
  /\ at' = "off" /\ outcome' = "killed"
  /\ Over
  /\ UNCHANGED <<node, damaged, server, client, stopped, history>>

-----------------------------------------------------------------------------
(* setup_server: the profile *)

ConfigureProfile ==
  /\ Step("profile")
  /\ profile' = IF profile = None THEN [url |-> None, listen |-> "local", shared |-> FALSE] ELSE profile
  /\ run' = [run EXCEPT !.existing = profile # None]
  /\ at' = "copilot"
  /\ UNCHANGED <<role, node, damaged, db, api, client, stopped>>

\* ensure_copilot: installed and signed in, or the installer ends here.
CheckCopilot ==
  /\ Step("copilot")
  /\ at' = "sharing"
  /\ UNCHANGED <<role, run, node, damaged, server, client, stopped>>

Shared == [profile EXCEPT !.shared = TRUE, !.listen = IF run.existing THEN @ ELSE "all"]

\* Defect: an old API keeps running.
SharingKeepsApi ==
  /\ Step("sharing")
  /\ profile' = Shared
  /\ at' = "check" /\ role' = "server"
  /\ UNCHANGED <<run, node, damaged, db, api, client, stopped>>

\* The services are stopped, the profile is written.
ConfigureSharing ==
  /\ UNCHANGED <<run, node, damaged, db, client, stopped>>
  /\ \/ /\ Step("sharing")
        /\ api' = None /\ profile' = Shared
        /\ at' = "check" /\ role' = "server"
     \/ /\ at = "sharing" /\ Raise
        /\ \/ UNCHANGED <<api, profile>>
           \/ api' = None /\ profile' \in {profile, Shared}
        /\ UNCHANGED role

-----------------------------------------------------------------------------
(* install_node_role and _install_bundle *)

Here == node[role]
Node(r) == node' = [node EXCEPT ![role] = r]

\* can_connect_local_client: another server the user has selected stays selected.
CanConnectLocal == config # "other"

\* setup() asks for the client after the server, or not at all.
AfterNode ==
  IF role = "server" THEN "database"
  ELSE IF run.mode = "connect" \/ (run.mode = "full" /\ CanConnectLocal) THEN "connect"
  ELSE "integrate"

NodeStep(place) == Step(place) /\ UNCHANGED <<role, run, server, client, stopped>>

\* verify_bundle_files and verify_installed: every file is that of the release.
Intact == Here.target = run.version

\* What the stamp says is verified; or the stamp goes.
Check ==
  /\ NodeStep("check")
  /\ IF Here.stamp = run.version /\ Intact
     THEN at' = AfterNode /\ UNCHANGED node
     ELSE at' = "recover" /\ Node([Here EXCEPT !.stamp = None])
  /\ UNCHANGED damaged

\* Defect: what an interrupted replacement moved aside stays there.
RecoverNothing ==
  /\ NodeStep("recover")
  /\ at' = "unpack"
  /\ UNCHANGED <<node, damaged>>

Recover ==
  /\ NodeStep("recover")
  /\ Node(IF Here.target = None THEN [Here EXCEPT !.target = Here.previous, !.previous = None] ELSE Here)
  /\ at' = "unpack"
  /\ UNCHANGED damaged

\* The bundle is unpacked beside the target and verified there.
Unpack == NodeStep("unpack") /\ at' = "clear" /\ UNCHANGED <<node, damaged>>

\* A tree that is being deleted is broken by then.
Clear ==
  /\ UNCHANGED <<role, run, damaged, server, client, stopped>>
  /\ \/ Step("clear") /\ at' = "aside" /\ Node([Here EXCEPT !.previous = None])
     \/ /\ at = "clear" /\ Here.previous # None /\ Raise
        /\ Node([Here EXCEPT !.previous = "broken"])

Aside ==
  /\ NodeStep("aside")
  /\ Node(IF Here.target = None THEN Here
          ELSE [Here EXCEPT !.target = None, !.previous = Here.target])
  /\ at' = "place"
  /\ UNCHANGED damaged

\* Into place; or the previous tree goes back, unless that fails as well.
PlaceNew ==
  /\ UNCHANGED <<role, run, server, client, stopped>>
  /\ \/ /\ Step("place") /\ at' = "tidy"
        /\ Node([Here EXCEPT !.target = run.version])
        /\ damaged' = damaged \ {role}
     \/ /\ at = "place" /\ Raise
        /\ \/ Node([Here EXCEPT !.target = Here.previous, !.previous = None])
           \/ UNCHANGED node
        /\ UNCHANGED damaged

\* Old files that are in use may stay.
Tidy ==
  /\ NodeStep("tidy")
  /\ \/ Node([Here EXCEPT !.previous = None])
     \/ Here.previous # None /\ Node([Here EXCEPT !.previous = "broken"])
  /\ at' = "stamp"
  /\ UNCHANGED damaged

Stamp ==
  /\ NodeStep("stamp")
  /\ Node([Here EXCEPT !.stamp = run.version])
  /\ at' = AfterNode
  /\ UNCHANGED damaged

\* A scanner, a disk or the user takes files away.
Damage(r) ==
  /\ node[r].target \in Version
  /\ Fault("damage")
  /\ node' = [node EXCEPT ![r].target = "broken"]
  /\ damaged' = damaged \cup {r}
  /\ UNCHANGED <<at, role, run, outcome, server, client, stopped, history>>

-----------------------------------------------------------------------------
(* setup_database and start_local *)

DbStep(place) == Step(place) /\ UNCHANGED <<role, run, node, damaged, client, stopped>>

\* A PostgreSQL of the user is checked and left alone.
Database ==
  /\ DbStep("database")
  /\ IF profile.url = "other" THEN at' = "local" /\ api' = None
     ELSE at' = "initialize" /\ UNCHANGED api
  /\ UNCHANGED <<db, profile>>

\* Defect: the settings are saved after initdb.
InitializeLate ==
  /\ UNCHANGED <<role, run, node, damaged, client, stopped, profile, api>>
  /\ \/ Step("initialize") /\ (db.data => db.settings)
        /\ at' = "initdb" /\ db' = [db EXCEPT !.settings = TRUE, !.data = TRUE]
     \/ Step("initialize") /\ db.data /\ ~db.settings /\ at' = "unwind" /\ UNCHANGED db
     \/ at = "initialize" /\ Raise /\ db' = [db EXCEPT !.data = TRUE]

\* initialize(): data without its settings is refused.
Initialize ==
  /\ DbStep("initialize")
  /\ IF db.data /\ ~db.settings THEN at' = "unwind" /\ UNCHANGED db
     ELSE /\ at' = IF db.data THEN "dbstart" ELSE "initdb"
          /\ db' = [db EXCEPT !.settings = TRUE]
  /\ UNCHANGED <<profile, api>>

\* initdb in a directory of its own, renamed into place when it is complete.
Initdb ==
  /\ DbStep("initdb")
  /\ db' = [db EXCEPT !.data = TRUE]
  /\ at' = "dbstart"
  /\ UNCHANGED <<profile, api>>

DbStart ==
  /\ DbStep("dbstart")
  /\ db' = [db EXCEPT !.up = TRUE]
  /\ at' = "prepare"
  /\ UNCHANGED <<profile, api>>

\* Roles, database and extensions, each only if missing; then validate().
Prepare ==
  /\ DbStep("prepare")
  /\ IF db.up THEN at' = "url" /\ db' = [db EXCEPT !.ready = TRUE] ELSE at' = "unwind" /\ UNCHANGED db
  /\ UNCHANGED <<profile, api>>

WriteUrl ==
  /\ DbStep("url")
  /\ IF profile.url = "own" THEN UNCHANGED <<profile, api>>
     ELSE profile' = [profile EXCEPT !.url = "own"] /\ api' = None
  /\ at' = "local"
  /\ UNCHANGED db

\* What start_local brings up: an API that runs is left as it is.
DbUp == [db EXCEPT !.up = @ \/ profile.url = "own"]
ApiUp(version) == IF api = None THEN version ELSE api

StartLocal ==
  /\ UNCHANGED <<run, node, damaged, profile, client, stopped>>
  /\ \/ /\ Step("local")
        /\ db' = DbUp /\ api' = ApiUp(run.version)
        /\ at' = IF run.mode = "full" THEN "check" ELSE "start"
        /\ role' = "client"
     \/ /\ at = "local" /\ Raise
        /\ db' \in {db, DbUp} /\ api' \in {api, ApiUp(run.version)}
        /\ UNCHANGED role

-----------------------------------------------------------------------------
(* setup_client, setup_client_only, the command, the login task, the record *)

ClientStep(place) == Step(place) /\ UNCHANGED <<role, run, node, damaged, server>>

\* install_client_integrations writes the connection.
Connect ==
  /\ Step("connect")
  /\ config' = IF run.mode = "full" THEN "local" ELSE "other"
  /\ run' = [run EXCEPT !.config = config]
  /\ at' = "register"
  /\ UNCHANGED <<role, node, damaged, server, launcher, login, record, stopped>>

AfterClient == IF run.mode = "full" THEN "start" ELSE "launcher"

\* The device is registered, connected() is recorded; or the old connection goes back.
Register ==
  /\ UNCHANGED <<role, run, node, damaged, server, launcher, login, record>>
  /\ \/ Step("register") /\ at' = AfterClient /\ stopped' = FALSE /\ UNCHANGED config
     \/ at = "register" /\ Raise /\ config' = run.config /\ UNCHANGED stopped

Integrate == ClientStep("integrate") /\ at' = AfterClient /\ UNCHANGED <<client, stopped>>

LifecycleStart == ClientStep("start") /\ at' = "launcher" /\ stopped' = FALSE /\ UNCHANGED client

InstallCommand ==
  /\ ClientStep("launcher")
  /\ launcher' = run.version
  /\ at' = "login"
  /\ UNCHANGED <<config, login, record, stopped>>

\* Defect: what the user decided is not asked for.
SavePreferenceAnew ==
  /\ Step("login")
  /\ login' = [login EXCEPT !.pref = TRUE]
  /\ run' = [run EXCEPT !.pref = login.pref]
  /\ at' = "task"
  /\ UNCHANGED <<role, node, damaged, server, config, launcher, record, stopped>>

\* startup.install: an opt-out is kept, and so is a task the user has disabled.
SavePreference ==
  /\ Step("login")
  /\ login' = IF login.pref = FALSE THEN [login EXCEPT !.task = "none"]
              ELSE [login EXCEPT !.pref = login.task # "off"]
  /\ run' = [run EXCEPT !.pref = login.pref]
  /\ at' = IF login.pref = FALSE THEN "record" ELSE "task"
  /\ UNCHANGED <<role, node, damaged, server, config, launcher, record, stopped>>

InstallTask ==
  /\ UNCHANGED <<role, run, node, damaged, server, config, launcher, record, stopped>>
  /\ \/ /\ Step("task") /\ at' = "record"
        /\ login' = [login EXCEPT !.task = IF @ = "none" THEN "on" ELSE @]
     \/ at = "task" /\ Raise /\ login' = [login EXCEPT !.pref = run.pref]

RecordMode ==
  /\ at = "record"
  /\ record' = IF run.mode = "connect" THEN "client-only" ELSE run.mode
  /\ at' = "off" /\ outcome' = "done"
  /\ Over
  /\ UNCHANGED <<node, damaged, server, config, launcher, login, stopped, history, faults>>

-----------------------------------------------------------------------------
(* The user, meanwhile *)

Command == /\ launcher # None
           /\ Fault("user")
           /\ UNCHANGED <<at, role, run, outcome, node, damaged>>

UserStart ==
  /\ Command
  /\ IF profile # None THEN profile.url # None /\ db' = DbUp /\ api' = ApiUp(launcher)
     ELSE config # None /\ UNCHANGED <<db, api>>
  /\ stopped' = FALSE
  /\ history' = [history EXCEPT !.undisturbed = @ /\ at = "off", !.held = FALSE]
  /\ UNCHANGED <<profile, client>>

UserStop ==
  /\ Command
  /\ stopped' = TRUE /\ api' = None
  /\ db' = IF profile # None /\ profile.url = "own" THEN [db EXCEPT !.up = FALSE] ELSE db
  /\ UNCHANGED <<profile, client, history>>

\* startup off removes the task, then saves the preference.  One that meets the installer
\* between its own two steps may lose.
UserStartup ==
  /\ Command
  /\ \/ /\ login' = [pref |-> FALSE, task |-> "none"]
        /\ history' = [history EXCEPT !.optedOut = at # "task"]
     \/ /\ login' = [pref |-> TRUE, task |-> "on"]
        /\ history' = [history EXCEPT !.optedOut = FALSE]
     \/ /\ login.task = "on"  \* in the Task Scheduler of Windows
        /\ login' = [login EXCEPT !.task = "off"]
        /\ history' = [history EXCEPT !.optedOut = TRUE]
  /\ UNCHANGED <<server, config, launcher, record, stopped>>

NodeRuntime == Check \/ Recover \/ Unpack \/ Clear \/ Aside \/ PlaceNew \/ Tidy \/ Stamp

PostgreSQL == Database \/ Initialize \/ Initdb \/ DbStart \/ Prepare \/ WriteUrl \/ StartLocal

Client == Connect \/ Register \/ Integrate \/ LifecycleStart

Finish == InstallCommand \/ SavePreference \/ InstallTask \/ RecordMode

Install == ConfigureProfile \/ CheckCopilot \/ ConfigureSharing \/ NodeRuntime \/ PostgreSQL \/ Client \/ Finish \/ Unwind

User == UserStart \/ UserStop \/ UserStartup

Next == \/ \E mode \in Asked, version \in Version : Begin(mode, version)
        \/ Install \/ Fails \/ Kill \/ User
        \/ \E r \in Role : Damage(r)

Spec == Init /\ [][Next]_vars

\* The installer goes on, and what did not finish is run again.
FairSpec == Spec /\ WF_vars(Install) /\ WF_vars(Again)

-----------------------------------------------------------------------------
(* Properties *)

\* The role has been installed: the mode on record needs it.
Serves(r) == record = "full" \/ record = (IF r = "server" THEN "server-only" ELSE "client-only")

\* Replacing a runtime never costs the one that works: whatever fails or is killed between
\* the renames, an installed role has a complete tree, in place or moved aside, and a stamp
\* only vouches for the tree that is in place.
RuntimeKept ==
  \A r \in Role \ damaged :
    /\ Serves(r) => node[r].target \in Version \/ node[r].previous \in Version
    /\ node[r].stamp # None => node[r].target = node[r].stamp

\* The data directory never exists without the settings that open it, the profile never names
\* a database that is not prepared, and a mode with a server is only on record once both are so.
ServerComplete ==
  /\ db.data => db.settings
  /\ profile # None /\ profile.url = "own" => db.data /\ db.ready
  /\ record \in ServerMode => profile # None /\ profile.url # None /\ profile.shared

\* "Keep an explicitly stopped installation stopped if startup fails": also if the failure
\* comes after the installer has started the services and reset the switch.
StaysStopped == history.held => stopped /\ api = None

\* "keep a user's opt-out on upgrades": after startup off, or after the task was disabled, no
\* installer, failing and rolling back or not, brings the login task back.
OptOutKept == history.optedOut => login.task # "on"

\* "An existing daemon can still import code from a previous release": an installed server
\* runs the release that was installed, unless somebody started it meanwhile.
ApiIsCurrent ==
  outcome = "done" /\ run.mode \in ServerMode /\ history.undisturbed => api \in {None, run.version}

\* "Default server setup listens on all IPv4 interfaces" (docs/shared-memory.md): nobody
\* has unshared this server.
ListensOnAll == record \in ServerMode => profile.listen = "all"

\* Whatever failed or was killed can be run again until it is done.
Completes == at # "off" ~> outcome = "done"
=============================================================================
