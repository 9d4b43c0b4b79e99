------------------------------ MODULE SetupProofs ------------------------------
(***************************************************************************)
(* The installer, for any number of releases, failures, kills, damages and *)
(* commands of the user.  Each part of the invariant says what the         *)
(* installer has reached at a place, and so what the next attempt finds    *)
(* whichever step was the last.                                            *)
(***************************************************************************)
EXTENDS Setup, TLAPS

\* The part of TypeOK the arguments below need.
RunType == role \in Role /\ run \in Run
NodeType == node \in [Role -> [target : Copy, previous : Copy, stamp : Version \cup {None}]]
ProfileType == profile \in Profile \cup {None}
DbType == db \in [settings : BOOLEAN, data : BOOLEAN, ready : BOOLEAN, up : BOOLEAN]
LoginType == login \in [pref : BOOLEAN \cup {None}, task : {"none", "on", "off"}]
HistoryType == history \in [undisturbed : BOOLEAN, optedOut : BOOLEAN, held : BOOLEAN]

SwitchType == stopped \in BOOLEAN /\ config \in {None, "local", "other"}

Types == RunType /\ SwitchType /\ NodeType /\ ProfileType /\ DbType /\ LoginType /\ HistoryType

ServerPlace == DatabasePlace \cup {"profile", "copilot", "sharing", "local"}
ClientPlace == {"connect", "register", "integrate", "start", "launcher", "login", "task", "record"}

\* The server of a server mode has been set up by this installer.
Serving == run.mode \in ServerMode /\ role = "client" /\ at \notin {"off", "unwind"}

\* The mode, the release and the role belong to the place.
Progress ==
  /\ at # "off" => run.mode \in Mode /\ run.version \in Version
  /\ role = "server" => run.mode \in ServerMode
  /\ at \in ServerPlace => role = "server"
  /\ at \in ClientPlace => role = "client"

\* What failed on a stopped installation left it stopped.
Held == history.held => at = "off" /\ stopped /\ api = None

\* The preference of the user, or the task he disabled, outlives the installer.
OptOut ==
  history.optedOut => \/ login.task = "off"
                      \/ login.task = "none" /\ login.pref = FALSE /\ at # "task"

Placed(r) == r \in damaged \/ node[r].target \in Version

\* The runtimes: the renames of the role that is installed, and the roles that are done.
Runtimes ==
  /\ \A r \in Role \ damaged :
       /\ Serves(r) => \/ node[r].target \in Version
                       \/ node[r].target = None /\ node[r].previous \in Version
       /\ node[r].stamp # None => node[r].target = node[r].stamp
  /\ at \in NodePlace \ {"check"} => node[role].stamp = None
  /\ at \in {"unpack", "clear", "aside"} /\ Serves(role) /\ role \notin damaged => node[role].target \in Version
  /\ at = "place" => node[role].target = None
  /\ at \in {"tidy", "stamp"} => role \in damaged \/ node[role].target = run.version
  /\ at \in DatabasePlace \cup {"local"} \/ Serving => Placed("server")
  /\ at \in ClientPlace /\ run.mode # "server-only" => Placed("client")

Shares == profile # None /\ profile.shared

\* The cluster and the profile, step by step.
Cluster ==
  /\ db.data => db.settings
  /\ profile # None /\ profile.url = "own" => db.data /\ db.ready
  /\ at = "initdb" => db.settings
  /\ at \in {"dbstart", "prepare", "url"} => db.data
  /\ at = "url" => db.ready
  /\ at \in {"copilot", "sharing"} => profile # None
  /\ at \in NodePlace /\ role = "server" => Shares
  /\ at \in DatabasePlace \cup {"local"} => Shares
  /\ at = "local" => profile.url # None
  /\ Serving \/ record \in ServerMode => Shares /\ profile.url # None

\* An API that was running has been stopped, or has been started by this release.
Current ==
  /\ at \in {"login", "task", "record"} => launcher = run.version
  /\ outcome = "done" => at = "off" /\ launcher = run.version
  /\ run.mode \in ServerMode /\ history.undisturbed /\ at \notin {"profile", "copilot", "sharing", "off", "unwind"}
       => api \in {None, run.version}
  /\ ApiIsCurrent

Inv == Types /\ Progress /\ Held /\ OptOut /\ Runtimes /\ Cluster /\ Current

LEMMA InitInv == Init => Inv
<1> SUFFICES ASSUME Init PROVE Inv
  OBVIOUS
<1> USE SetupAssumption DEF Init
<1>1. Types
  <2>1. RunType
    BY DEF RunType, Role, Run, Idle
  <2>2. SwitchType
    BY DEF SwitchType
  <2>3. NodeType
    BY DEF NodeType, Copy
  <2>4. ProfileType
    <3>1. [url |-> "other", listen |-> "all", shared |-> FALSE] \in Profile
      BY DEF Profile
    <3> QED BY <3>1 DEF ProfileType
  <2>5. DbType
    BY DEF DbType
  <2>6. LoginType
    BY DEF LoginType
  <2>7. HistoryType
    BY DEF HistoryType
  <2> QED BY <2>1, <2>2, <2>3, <2>4, <2>5, <2>6, <2>7 DEF Types
<1>2. Progress /\ Held /\ OptOut
  BY DEF Progress, Held, OptOut, ServerPlace, ClientPlace, DatabasePlace
<1>3. Runtimes
  <2>1. record = None /\ at = "off" /\ \A r \in Role : node[r].stamp = None
    OBVIOUS
  <2>2. \A r \in Role : ~Serves(r)
    BY <2>1 DEF Serves, Mode, ServerMode
  <2> QED BY <2>1, <2>2 DEF Runtimes, Serving, NodePlace, DatabasePlace, ClientPlace
<1>4. Cluster
  <2>1. at = "off" /\ record \notin ServerMode /\ ~db.data
    BY DEF ServerMode, Mode
  <2>2. profile # None => profile.url # "own"
    OBVIOUS
  <2> QED BY <2>1, <2>2 DEF Cluster, Serving, NodePlace, DatabasePlace
<1>5. Current
  BY DEF Current, ApiIsCurrent
<1> QED BY <1>1, <1>2, <1>3, <1>4, <1>5 DEF Inv

LEMMA RunTypeStep ==
  ASSUME Inv, [Next]_vars
  PROVE  RunType'
<1> USE SetupAssumption DEF Inv, Types
<1>1. ASSUME NEW mode \in Mode, NEW version \in Version, Begin(mode, version) PROVE RunType'
  BY <1>1 DEF Begin, ServerMode, Mode, Role, RunType, Run, server, client, SwitchType
<1>2. CASE Unwind
  BY <1>2 DEF Unwind, Over, Idle, RunType, Role, Run, server, client
<1>3. CASE Kill
  BY <1>3 DEF Kill, Over, Idle, RunType, Role, Run, server, client
<1>4. CASE ConfigureProfile
  BY <1>4 DEF ConfigureProfile, Step, RunType, Role, Run, server, client
<1>5. CASE ConfigureSharing
  BY <1>5 DEF ConfigureSharing, Raise, Shared, Step, RunType, Role, Run, server, client
<1>6. CASE StartLocal
  BY <1>6 DEF StartLocal, Raise, Step, DbUp, ApiUp, RunType, Role, Run, server, client
<1>7. CASE Connect
  BY <1>7 DEF Connect, Step, RunType, Role, Run, server, client, SwitchType
<1>8. CASE SavePreference
  BY <1>8 DEF SavePreference, Step, RunType, Role, Run, server, client, LoginType
<1>9. CASE RecordMode
  BY <1>9 DEF RecordMode, Over, Idle, RunType, Role, Run, server, client
<1>10. ASSUME NEW r \in Role, Damage(r) PROVE RunType'
  BY <1>10 DEF Damage, RunType, Role, Run, server, client
<1>11. CASE Fails \/ CheckCopilot \/ Check \/ Recover \/ Unpack \/ Clear \/ Aside \/ PlaceNew \/ Tidy \/
            Stamp \/ Database \/ Initialize \/ Initdb \/ DbStart \/ Prepare \/ WriteUrl \/ Register \/
            Integrate \/ LifecycleStart \/ InstallCommand \/ InstallTask \/ UserStart \/ UserStop \/
            UserStartup
  BY <1>11 DEF Fails, CheckCopilot, Check, Recover, Unpack, Clear, Aside, PlaceNew, Tidy, Stamp,
       Database, Initialize, Initdb, DbStart, Prepare, WriteUrl, Register, Integrate, LifecycleStart,
       InstallCommand, InstallTask, UserStart, UserStop, UserStartup, Raise, Step, NodeStep, DbStep,
       ClientStep, Command, RunType, Role, Run, server, client
<1>12. CASE UNCHANGED vars
  BY <1>12 DEF vars, RunType, Role, Run, server, client
<1> QED
  BY <1>1, <1>2, <1>3, <1>4, <1>5, <1>6, <1>7, <1>8, <1>9, <1>10, <1>11, <1>12
     DEF Next, Install, NodeRuntime, PostgreSQL, Client, Finish, User

LEMMA NodeTypeStep ==
  ASSUME Inv, [Next]_vars
  PROVE  NodeType'
<1> USE SetupAssumption DEF Inv, Types
<1>1. ASSUME NEW mode \in Mode, NEW version \in Version, Begin(mode, version) PROVE NodeType'
  BY <1>1 DEF Begin, ServerMode, Mode, Role, NodeType, Copy, server, client
<1>2. CASE Check
  BY <1>2 DEF Check, NodeStep, Step, Here, Node, AfterNode, CanConnectLocal, Intact, NodeType, Copy,
       server, client
<1>3. CASE Recover
  BY <1>3 DEF Recover, NodeStep, Step, Here, Node, NodeType, Copy, server, client, RunType
<1>4. CASE Clear
  BY <1>4 DEF Clear, Raise, Step, Here, Node, NodeType, Copy, server, client
<1>5. CASE Aside
  BY <1>5 DEF Aside, NodeStep, Step, Here, Node, NodeType, Copy, server, client
<1>6. CASE PlaceNew
  <2>1. run.version \in Version /\ role \in Role
    BY <1>6 DEF PlaceNew, Step, Progress, RunType
  <2>2. \/ node' = [node EXCEPT ![role] = [Here EXCEPT !.target = run.version]]
        \/ node' = [node EXCEPT ![role] = [Here EXCEPT !.target = Here.previous, !.previous = None]]
        \/ node' = node
    BY <1>6 DEF PlaceNew, Node
  <2>3. Here \in [target : Copy, previous : Copy, stamp : Version \cup {None}] /\ None \in Copy /\ run.version \in Copy
    BY <2>1 DEF NodeType, Here, Copy
  <2>4. /\ [Here EXCEPT !.target = run.version] \in [target : Copy, previous : Copy, stamp : Version \cup {None}]
        /\ [Here EXCEPT !.target = Here.previous, !.previous = None]
             \in [target : Copy, previous : Copy, stamp : Version \cup {None}]
    BY <2>3
  <2> QED BY <2>1, <2>2, <2>4 DEF NodeType
<1>7. CASE Tidy
  BY <1>7 DEF Tidy, NodeStep, Step, Here, Node, NodeType, Copy, server, client
<1>8. CASE Stamp
  BY <1>8 DEF Stamp, NodeStep, Step, Here, Node, AfterNode, CanConnectLocal, NodeType, Copy, server,
       client, Progress, NodePlace
<1>9. ASSUME NEW r \in Role, Damage(r) PROVE NodeType'
  BY <1>9 DEF Damage, NodeType, Copy, server, client
<1>10. CASE Fails \/ Unwind \/ Kill \/ ConfigureProfile \/ CheckCopilot \/ ConfigureSharing \/ Unpack \/
            Database \/ Initialize \/ Initdb \/ DbStart \/ Prepare \/ WriteUrl \/ StartLocal \/ Connect
            \/ Register \/ Integrate \/ LifecycleStart \/ InstallCommand \/ SavePreference \/
            InstallTask \/ RecordMode \/ UserStart \/ UserStop \/ UserStartup
  BY <1>10 DEF Fails, Unwind, Kill, ConfigureProfile, CheckCopilot, ConfigureSharing, Unpack, Database,
       Initialize, Initdb, DbStart, Prepare, WriteUrl, StartLocal, Connect, Register, Integrate,
       LifecycleStart, InstallCommand, SavePreference, InstallTask, RecordMode, UserStart, UserStop,
       UserStartup, Raise, Step, NodeStep, DbStep, ClientStep, Command, NodeType, Copy, server, client
<1>11. CASE UNCHANGED vars
  BY <1>11 DEF vars, NodeType, Copy, server, client
<1> QED
  BY <1>1, <1>2, <1>3, <1>4, <1>5, <1>6, <1>7, <1>8, <1>9, <1>10, <1>11
     DEF Next, Install, NodeRuntime, PostgreSQL, Client, Finish, User

LEMMA SwitchTypeStep ==
  ASSUME Inv, [Next]_vars
  PROVE  SwitchType'
<1> USE SetupAssumption DEF Inv, Types
<1>1. ASSUME NEW mode \in Mode, NEW version \in Version, Begin(mode, version) PROVE SwitchType'
  BY <1>1 DEF Begin, ServerMode, Mode, Role, SwitchType, RunType, Run, server, client
<1>2. CASE Unwind
  BY <1>2 DEF Unwind, Over, Idle, SwitchType, RunType, Run, server, client
<1>3. CASE Connect
  BY <1>3 DEF Connect, Step, SwitchType, RunType, Run, server, client
<1>4. CASE Register
  BY <1>4 DEF Register, Raise, Step, AfterClient, SwitchType, RunType, Run, server, client
<1>5. CASE LifecycleStart
  BY <1>5 DEF LifecycleStart, ClientStep, Step, SwitchType, RunType, Run, server, client
<1>6. CASE UserStart
  BY <1>6 DEF UserStart, Command, DbUp, ApiUp, SwitchType, RunType, Run, server, client
<1>7. CASE UserStop
  BY <1>7 DEF UserStop, Command, SwitchType, RunType, Run, server, client
<1>8. ASSUME NEW r \in Role, Damage(r) PROVE SwitchType'
  BY <1>8 DEF Damage, SwitchType, RunType, Run, server, client
<1>9. CASE Fails \/ Kill \/ ConfigureProfile \/ CheckCopilot \/ ConfigureSharing \/ Check \/ Recover \/
            Unpack \/ Clear \/ Aside \/ PlaceNew \/ Tidy \/ Stamp \/ Database \/ Initialize \/ Initdb \/
            DbStart \/ Prepare \/ WriteUrl \/ StartLocal \/ Integrate \/ InstallCommand \/
            SavePreference \/ InstallTask \/ RecordMode \/ UserStartup
  BY <1>9 DEF Fails, Kill, ConfigureProfile, CheckCopilot, ConfigureSharing, Check, Recover, Unpack,
       Clear, Aside, PlaceNew, Tidy, Stamp, Database, Initialize, Initdb, DbStart, Prepare, WriteUrl,
       StartLocal, Integrate, InstallCommand, SavePreference, InstallTask, RecordMode, UserStartup,
       Raise, Step, NodeStep, DbStep, ClientStep, Command, SwitchType, RunType, Run, server, client
<1>10. CASE UNCHANGED vars
  BY <1>10 DEF vars, SwitchType, RunType, Run, server, client
<1> QED
  BY <1>1, <1>2, <1>3, <1>4, <1>5, <1>6, <1>7, <1>8, <1>9, <1>10
     DEF Next, Install, NodeRuntime, PostgreSQL, Client, Finish, User

LEMMA ProfileTypeStep ==
  ASSUME Inv, [Next]_vars
  PROVE  ProfileType'
<1> USE SetupAssumption DEF Inv, Types
<1>1. ASSUME NEW mode \in Mode, NEW version \in Version, Begin(mode, version) PROVE ProfileType'
  BY <1>1 DEF Begin, ServerMode, Mode, Role, ProfileType, Profile, server, client
<1>2. CASE ConfigureProfile
  BY <1>2 DEF ConfigureProfile, Step, ProfileType, Profile, server, client
<1>3. CASE ConfigureSharing
  BY <1>3 DEF ConfigureSharing, Raise, Shared, Step, ProfileType, Profile, server, client, Cluster
<1>4. CASE WriteUrl
  BY <1>4 DEF WriteUrl, DbStep, Step, ProfileType, Profile, server, client, Cluster, Shares,
       DatabasePlace
<1>5. ASSUME NEW r \in Role, Damage(r) PROVE ProfileType'
  BY <1>5 DEF Damage, ProfileType, Profile, server, client
<1>6. CASE Fails \/ Unwind \/ Kill \/ CheckCopilot \/ Check \/ Recover \/ Unpack \/ Clear \/ Aside \/
            PlaceNew \/ Tidy \/ Stamp \/ Database \/ Initialize \/ Initdb \/ DbStart \/ Prepare \/
            StartLocal \/ Connect \/ Register \/ Integrate \/ LifecycleStart \/ InstallCommand \/
            SavePreference \/ InstallTask \/ RecordMode \/ UserStart \/ UserStop \/ UserStartup
  BY <1>6 DEF Fails, Unwind, Kill, CheckCopilot, Check, Recover, Unpack, Clear, Aside, PlaceNew, Tidy,
       Stamp, Database, Initialize, Initdb, DbStart, Prepare, StartLocal, Connect, Register, Integrate,
       LifecycleStart, InstallCommand, SavePreference, InstallTask, RecordMode, UserStart, UserStop,
       UserStartup, Raise, Step, NodeStep, DbStep, ClientStep, Command, ProfileType, Profile, server,
       client
<1>7. CASE UNCHANGED vars
  BY <1>7 DEF vars, ProfileType, Profile, server, client
<1> QED
  BY <1>1, <1>2, <1>3, <1>4, <1>5, <1>6, <1>7
     DEF Next, Install, NodeRuntime, PostgreSQL, Client, Finish, User

LEMMA DbTypeStep ==
  ASSUME Inv, [Next]_vars
  PROVE  DbType'
<1> USE SetupAssumption DEF Inv, Types
<1>1. ASSUME NEW mode \in Mode, NEW version \in Version, Begin(mode, version) PROVE DbType'
  BY <1>1 DEF Begin, ServerMode, Mode, Role, DbType, server, client
<1>2. CASE Unwind
  BY <1>2 DEF Unwind, Over, Idle, DbType, server, client
<1>3. CASE Initialize
  BY <1>3 DEF Initialize, DbStep, Step, DbType, server, client
<1>4. CASE Initdb
  BY <1>4 DEF Initdb, DbStep, Step, DbType, server, client
<1>5. CASE DbStart
  BY <1>5 DEF DbStart, DbStep, Step, DbType, server, client
<1>6. CASE Prepare
  BY <1>6 DEF Prepare, DbStep, Step, DbType, server, client
<1>7. CASE StartLocal
  BY <1>7 DEF StartLocal, Raise, Step, DbUp, ApiUp, DbType, server, client
<1>8. CASE UserStart
  BY <1>8 DEF UserStart, Command, DbUp, ApiUp, DbType, server, client
<1>9. CASE UserStop
  BY <1>9 DEF UserStop, Command, DbType, server, client
<1>10. ASSUME NEW r \in Role, Damage(r) PROVE DbType'
  BY <1>10 DEF Damage, DbType, server, client
<1>11. CASE Fails \/ Kill \/ ConfigureProfile \/ CheckCopilot \/ ConfigureSharing \/ Check \/ Recover \/
            Unpack \/ Clear \/ Aside \/ PlaceNew \/ Tidy \/ Stamp \/ Database \/ WriteUrl \/ Connect \/
            Register \/ Integrate \/ LifecycleStart \/ InstallCommand \/ SavePreference \/ InstallTask
            \/ RecordMode \/ UserStartup
  BY <1>11 DEF Fails, Kill, ConfigureProfile, CheckCopilot, ConfigureSharing, Check, Recover, Unpack,
       Clear, Aside, PlaceNew, Tidy, Stamp, Database, WriteUrl, Connect, Register, Integrate,
       LifecycleStart, InstallCommand, SavePreference, InstallTask, RecordMode, UserStartup, Raise,
       Step, NodeStep, DbStep, ClientStep, Command, DbType, server, client
<1>12. CASE UNCHANGED vars
  BY <1>12 DEF vars, DbType, server, client
<1> QED
  BY <1>1, <1>2, <1>3, <1>4, <1>5, <1>6, <1>7, <1>8, <1>9, <1>10, <1>11, <1>12
     DEF Next, Install, NodeRuntime, PostgreSQL, Client, Finish, User

LEMMA LoginTypeStep ==
  ASSUME Inv, [Next]_vars
  PROVE  LoginType'
<1> USE SetupAssumption DEF Inv, Types
<1>1. ASSUME NEW mode \in Mode, NEW version \in Version, Begin(mode, version) PROVE LoginType'
  BY <1>1 DEF Begin, ServerMode, Mode, Role, LoginType, RunType, Run, server, client
<1>2. CASE SavePreference
  BY <1>2 DEF SavePreference, Step, LoginType, RunType, Run, server, client
<1>3. CASE InstallTask
  BY <1>3 DEF InstallTask, Raise, Step, LoginType, RunType, Run, server, client
<1>4. CASE UserStartup
  <2>1. \/ login' = [pref |-> FALSE, task |-> "none"]
        \/ login' = [pref |-> TRUE, task |-> "on"]
        \/ login' = [login EXCEPT !.task = "off"]
    BY <1>4 DEF UserStartup
  <2>2. /\ [pref |-> FALSE, task |-> "none"] \in [pref : BOOLEAN \cup {None}, task : {"none", "on", "off"}]
        /\ [pref |-> TRUE, task |-> "on"] \in [pref : BOOLEAN \cup {None}, task : {"none", "on", "off"}]
        /\ [login EXCEPT !.task = "off"] \in [pref : BOOLEAN \cup {None}, task : {"none", "on", "off"}]
    BY DEF LoginType
  <2> QED BY <2>1, <2>2 DEF LoginType
<1>5. ASSUME NEW r \in Role, Damage(r) PROVE LoginType'
  BY <1>5 DEF Damage, LoginType, RunType, Run, server, client
<1>6. CASE Fails \/ Unwind \/ Kill \/ ConfigureProfile \/ CheckCopilot \/ ConfigureSharing \/ Check \/
            Recover \/ Unpack \/ Clear \/ Aside \/ PlaceNew \/ Tidy \/ Stamp \/ Database \/ Initialize
            \/ Initdb \/ DbStart \/ Prepare \/ WriteUrl \/ StartLocal \/ Connect \/ Register \/
            Integrate \/ LifecycleStart \/ InstallCommand \/ RecordMode \/ UserStart \/ UserStop
  BY <1>6 DEF Fails, Unwind, Kill, ConfigureProfile, CheckCopilot, ConfigureSharing, Check, Recover,
       Unpack, Clear, Aside, PlaceNew, Tidy, Stamp, Database, Initialize, Initdb, DbStart, Prepare,
       WriteUrl, StartLocal, Connect, Register, Integrate, LifecycleStart, InstallCommand, RecordMode,
       UserStart, UserStop, Raise, Step, NodeStep, DbStep, ClientStep, Command, LoginType, RunType, Run,
       server, client
<1>7. CASE UNCHANGED vars
  BY <1>7 DEF vars, LoginType, RunType, Run, server, client
<1> QED
  BY <1>1, <1>2, <1>3, <1>4, <1>5, <1>6, <1>7
     DEF Next, Install, NodeRuntime, PostgreSQL, Client, Finish, User

LEMMA HistoryTypeStep ==
  ASSUME Inv, [Next]_vars
  PROVE  HistoryType'
<1> USE SetupAssumption DEF Inv, Types
<1>1. ASSUME NEW mode \in Mode, NEW version \in Version, Begin(mode, version) PROVE HistoryType'
  BY <1>1 DEF Begin, ServerMode, Mode, Role, HistoryType, RunType, Run, server, client
<1>2. CASE Unwind
  BY <1>2 DEF Unwind, Over, Idle, HistoryType, RunType, Run, server, client
<1>3. CASE UserStart
  BY <1>3 DEF UserStart, Command, DbUp, ApiUp, HistoryType, RunType, Run, server, client
<1>4. CASE UserStartup
  BY <1>4 DEF UserStartup, Command, HistoryType, RunType, Run, server, client
<1>5. ASSUME NEW r \in Role, Damage(r) PROVE HistoryType'
  BY <1>5 DEF Damage, HistoryType, RunType, Run, server, client
<1>6. CASE Fails \/ Kill \/ ConfigureProfile \/ CheckCopilot \/ ConfigureSharing \/ Check \/ Recover \/
            Unpack \/ Clear \/ Aside \/ PlaceNew \/ Tidy \/ Stamp \/ Database \/ Initialize \/ Initdb \/
            DbStart \/ Prepare \/ WriteUrl \/ StartLocal \/ Connect \/ Register \/ Integrate \/
            LifecycleStart \/ InstallCommand \/ SavePreference \/ InstallTask \/ RecordMode \/ UserStop
  BY <1>6 DEF Fails, Kill, ConfigureProfile, CheckCopilot, ConfigureSharing, Check, Recover, Unpack,
       Clear, Aside, PlaceNew, Tidy, Stamp, Database, Initialize, Initdb, DbStart, Prepare, WriteUrl,
       StartLocal, Connect, Register, Integrate, LifecycleStart, InstallCommand, SavePreference,
       InstallTask, RecordMode, UserStop, Raise, Step, NodeStep, DbStep, ClientStep, Command,
       HistoryType, RunType, Run, server, client
<1>7. CASE UNCHANGED vars
  BY <1>7 DEF vars, HistoryType, RunType, Run, server, client
<1> QED
  BY <1>1, <1>2, <1>3, <1>4, <1>5, <1>6, <1>7
     DEF Next, Install, NodeRuntime, PostgreSQL, Client, Finish, User

LEMMA ProgressStep ==
  ASSUME Inv, [Next]_vars
  PROVE  Progress'
<1> USE SetupAssumption DEF Inv, Types
<1>1. ASSUME NEW mode \in Mode, NEW version \in Version, Begin(mode, version) PROVE Progress'
  BY <1>1 DEF Begin, ServerMode, Mode, Role, Progress, ServerPlace, ClientPlace, DatabasePlace,
       NodePlace, RunType, Run, server, client
<1>2. CASE Fails
  BY <1>2 DEF Fails, Raise, Progress, ServerPlace, ClientPlace, DatabasePlace, NodePlace, RunType, Run,
       server, client
<1>3. CASE Unwind
  BY <1>3 DEF Unwind, Over, Idle, Progress, ServerPlace, ClientPlace, DatabasePlace, NodePlace, RunType,
       Run, server, client
<1>4. CASE Kill
  BY <1>4 DEF Kill, Over, Idle, Progress, ServerPlace, ClientPlace, DatabasePlace, NodePlace, RunType,
       Run, server, client
<1>5. CASE ConfigureProfile
  BY <1>5 DEF ConfigureProfile, Step, Progress, ServerPlace, ClientPlace, DatabasePlace, NodePlace,
       RunType, Run, server, client
<1>6. CASE CheckCopilot
  BY <1>6 DEF CheckCopilot, Step, Progress, ServerPlace, ClientPlace, DatabasePlace, NodePlace, RunType,
       Run, server, client
<1>7. CASE ConfigureSharing
  BY <1>7 DEF ConfigureSharing, Raise, Shared, Step, Progress, ServerPlace, ClientPlace, DatabasePlace,
       NodePlace, RunType, Run, server, client
<1>8. CASE Check
  <2>1. /\ at \in {"check", "stamp"} /\ UNCHANGED <<role, run>>
        /\ at' \in {AfterNode, "recover"}
    BY <1>8 DEF Check, NodeStep, Step
  <2>2. AfterNode = "database" \/ (role = "client" /\ AfterNode \in {"connect", "integrate"})
    BY DEF AfterNode, RunType, Role
  <2>3. role = "client" => at' \in {"connect", "integrate", "recover"}
    BY <2>1, <2>2 DEF AfterNode
  <2> QED BY <2>1, <2>2, <2>3 DEF Progress, ServerPlace, ClientPlace, DatabasePlace, RunType, Role
<1>9. CASE Recover
  BY <1>9 DEF Recover, NodeStep, Step, Here, Node, Progress, ServerPlace, ClientPlace, DatabasePlace,
       NodePlace, RunType, Run, server, client
<1>10. CASE Unpack
  BY <1>10 DEF Unpack, NodeStep, Step, Here, Node, Progress, ServerPlace, ClientPlace, DatabasePlace,
       NodePlace, RunType, Run, server, client
<1>11. CASE Clear
  BY <1>11 DEF Clear, Raise, Step, Here, Node, Progress, ServerPlace, ClientPlace, DatabasePlace,
       NodePlace, RunType, Run, server, client
<1>12. CASE Aside
  BY <1>12 DEF Aside, NodeStep, Step, Here, Node, Progress, ServerPlace, ClientPlace, DatabasePlace,
       NodePlace, RunType, Run, server, client
<1>13. CASE PlaceNew
  BY <1>13 DEF PlaceNew, Raise, Step, Here, Node, Progress, ServerPlace, ClientPlace, DatabasePlace,
       NodePlace, RunType, Run, server, client
<1>14. CASE Tidy
  BY <1>14 DEF Tidy, NodeStep, Step, Here, Node, Progress, ServerPlace, ClientPlace, DatabasePlace,
       NodePlace, RunType, Run, server, client
<1>15. CASE Stamp
  <2>1. /\ at \in {"check", "stamp"} /\ UNCHANGED <<role, run>>
        /\ at' \in {AfterNode, "recover"}
    BY <1>15 DEF Stamp, NodeStep, Step
  <2>2. AfterNode = "database" \/ (role = "client" /\ AfterNode \in {"connect", "integrate"})
    BY DEF AfterNode, RunType, Role
  <2>3. role = "client" => at' \in {"connect", "integrate", "recover"}
    BY <2>1, <2>2 DEF AfterNode
  <2> QED BY <2>1, <2>2, <2>3 DEF Progress, ServerPlace, ClientPlace, DatabasePlace, RunType, Role
<1>16. CASE Database
  BY <1>16 DEF Database, DbStep, Step, Progress, ServerPlace, ClientPlace, DatabasePlace, NodePlace,
       RunType, Run, server, client
<1>17. CASE Initialize
  BY <1>17 DEF Initialize, DbStep, Step, Progress, ServerPlace, ClientPlace, DatabasePlace, NodePlace,
       RunType, Run, server, client
<1>18. CASE Initdb
  BY <1>18 DEF Initdb, DbStep, Step, Progress, ServerPlace, ClientPlace, DatabasePlace, NodePlace,
       RunType, Run, server, client
<1>19. CASE DbStart
  BY <1>19 DEF DbStart, DbStep, Step, Progress, ServerPlace, ClientPlace, DatabasePlace, NodePlace,
       RunType, Run, server, client
<1>20. CASE Prepare
  BY <1>20 DEF Prepare, DbStep, Step, Progress, ServerPlace, ClientPlace, DatabasePlace, NodePlace,
       RunType, Run, server, client
<1>21. CASE WriteUrl
  BY <1>21 DEF WriteUrl, DbStep, Step, Progress, ServerPlace, ClientPlace, DatabasePlace, NodePlace,
       RunType, Run, server, client
<1>22. CASE StartLocal
  BY <1>22 DEF StartLocal, Raise, Step, DbUp, ApiUp, Progress, ServerPlace, ClientPlace, DatabasePlace,
       NodePlace, RunType, Run, server, client
<1>23. CASE Connect
  BY <1>23 DEF Connect, Step, Progress, ServerPlace, ClientPlace, DatabasePlace, NodePlace, RunType,
       Run, server, client
<1>24. CASE Register
  BY <1>24 DEF Register, Raise, Step, AfterClient, Progress, ServerPlace, ClientPlace, DatabasePlace,
       NodePlace, RunType, Run, server, client
<1>25. CASE Integrate
  BY <1>25 DEF Integrate, ClientStep, Step, AfterClient, Progress, ServerPlace, ClientPlace,
       DatabasePlace, NodePlace, RunType, Run, server, client
<1>26. CASE LifecycleStart
  BY <1>26 DEF LifecycleStart, ClientStep, Step, Progress, ServerPlace, ClientPlace, DatabasePlace,
       NodePlace, RunType, Run, server, client
<1>27. CASE InstallCommand
  BY <1>27 DEF InstallCommand, ClientStep, Step, Progress, ServerPlace, ClientPlace, DatabasePlace,
       NodePlace, RunType, Run, server, client
<1>28. CASE SavePreference
  BY <1>28 DEF SavePreference, Step, Progress, ServerPlace, ClientPlace, DatabasePlace, NodePlace,
       RunType, Run, server, client
<1>29. CASE InstallTask
  BY <1>29 DEF InstallTask, Raise, Step, Progress, ServerPlace, ClientPlace, DatabasePlace, NodePlace,
       RunType, Run, server, client
<1>30. CASE RecordMode
  BY <1>30 DEF RecordMode, Over, Idle, Progress, ServerPlace, ClientPlace, DatabasePlace, NodePlace,
       RunType, Run, server, client
<1>31. CASE UserStart
  BY <1>31 DEF UserStart, Command, DbUp, ApiUp, Progress, ServerPlace, ClientPlace, DatabasePlace,
       NodePlace, RunType, Run, server, client
<1>32. CASE UserStop
  BY <1>32 DEF UserStop, Command, Progress, ServerPlace, ClientPlace, DatabasePlace, NodePlace, RunType,
       Run, server, client
<1>33. CASE UserStartup
  BY <1>33 DEF UserStartup, Command, Progress, ServerPlace, ClientPlace, DatabasePlace, NodePlace,
       RunType, Run, server, client
<1>34. ASSUME NEW r \in Role, Damage(r) PROVE Progress'
  BY <1>34 DEF Damage, Progress, ServerPlace, ClientPlace, DatabasePlace, NodePlace, RunType, Run,
       server, client
<1>35. CASE UNCHANGED vars
  BY <1>35 DEF vars, Progress, ServerPlace, ClientPlace, DatabasePlace, NodePlace, RunType, Run, server,
       client
<1> QED
  BY <1>1, <1>2, <1>3, <1>4, <1>5, <1>6, <1>7, <1>8, <1>9, <1>10, <1>11, <1>12, <1>13, <1>14, <1>15,
     <1>16, <1>17, <1>18, <1>19, <1>20, <1>21, <1>22, <1>23, <1>24, <1>25, <1>26, <1>27, <1>28,
     <1>29, <1>30, <1>31, <1>32, <1>33, <1>34, <1>35
     DEF Next, Install, NodeRuntime, PostgreSQL, Client, Finish, User

LEMMA HeldStep ==
  ASSUME Inv, [Next]_vars
  PROVE  Held'
<1> USE SetupAssumption DEF Inv, Types
<1>1. ASSUME NEW mode \in Mode, NEW version \in Version, Begin(mode, version) PROVE Held'
  BY <1>1 DEF Begin, ServerMode, Mode, Role, Held, HistoryType, server, client
<1>2. CASE Fails
  BY <1>2 DEF Fails, Raise, Held, HistoryType, server, client
<1>3. CASE Unwind
  BY <1>3 DEF Unwind, Over, Idle, Held, HistoryType, server, client
<1>4. CASE Kill
  BY <1>4 DEF Kill, Over, Idle, Held, HistoryType, server, client
<1>5. CASE ConfigureProfile
  BY <1>5 DEF ConfigureProfile, Step, Held, HistoryType, server, client
<1>6. CASE CheckCopilot
  BY <1>6 DEF CheckCopilot, Step, Held, HistoryType, server, client
<1>7. CASE ConfigureSharing
  BY <1>7 DEF ConfigureSharing, Raise, Shared, Step, Held, HistoryType, server, client
<1>8. CASE Check
  BY <1>8 DEF Check, NodeStep, Step, Here, Node, AfterNode, CanConnectLocal, Intact, Held, HistoryType,
       server, client
<1>9. CASE Recover
  BY <1>9 DEF Recover, NodeStep, Step, Here, Node, Held, HistoryType, server, client
<1>10. CASE Unpack
  BY <1>10 DEF Unpack, NodeStep, Step, Here, Node, Held, HistoryType, server, client
<1>11. CASE Clear
  BY <1>11 DEF Clear, Raise, Step, Here, Node, Held, HistoryType, server, client
<1>12. CASE Aside
  BY <1>12 DEF Aside, NodeStep, Step, Here, Node, Held, HistoryType, server, client
<1>13. CASE PlaceNew
  BY <1>13 DEF PlaceNew, Raise, Step, Here, Node, Held, HistoryType, server, client
<1>14. CASE Tidy
  BY <1>14 DEF Tidy, NodeStep, Step, Here, Node, Held, HistoryType, server, client
<1>15. CASE Stamp
  BY <1>15 DEF Stamp, NodeStep, Step, Here, Node, AfterNode, CanConnectLocal, Held, HistoryType, server,
       client
<1>16. CASE Database
  BY <1>16 DEF Database, DbStep, Step, Held, HistoryType, server, client
<1>17. CASE Initialize
  BY <1>17 DEF Initialize, DbStep, Step, Held, HistoryType, server, client
<1>18. CASE Initdb
  BY <1>18 DEF Initdb, DbStep, Step, Held, HistoryType, server, client
<1>19. CASE DbStart
  BY <1>19 DEF DbStart, DbStep, Step, Held, HistoryType, server, client
<1>20. CASE Prepare
  BY <1>20 DEF Prepare, DbStep, Step, Held, HistoryType, server, client
<1>21. CASE WriteUrl
  BY <1>21 DEF WriteUrl, DbStep, Step, Held, HistoryType, server, client
<1>22. CASE StartLocal
  BY <1>22 DEF StartLocal, Raise, Step, DbUp, ApiUp, Held, HistoryType, server, client
<1>23. CASE Connect
  BY <1>23 DEF Connect, Step, Held, HistoryType, server, client
<1>24. CASE Register
  BY <1>24 DEF Register, Raise, Step, AfterClient, Held, HistoryType, server, client
<1>25. CASE Integrate
  BY <1>25 DEF Integrate, ClientStep, Step, AfterClient, Held, HistoryType, server, client
<1>26. CASE LifecycleStart
  BY <1>26 DEF LifecycleStart, ClientStep, Step, Held, HistoryType, server, client
<1>27. CASE InstallCommand
  BY <1>27 DEF InstallCommand, ClientStep, Step, Held, HistoryType, server, client
<1>28. CASE SavePreference
  BY <1>28 DEF SavePreference, Step, Held, HistoryType, server, client
<1>29. CASE InstallTask
  BY <1>29 DEF InstallTask, Raise, Step, Held, HistoryType, server, client
<1>30. CASE RecordMode
  BY <1>30 DEF RecordMode, Over, Idle, Held, HistoryType, server, client
<1>31. CASE UserStart
  BY <1>31 DEF UserStart, Command, DbUp, ApiUp, Held, HistoryType, server, client
<1>32. CASE UserStop
  BY <1>32 DEF UserStop, Command, Held, HistoryType, server, client
<1>33. CASE UserStartup
  BY <1>33 DEF UserStartup, Command, Held, HistoryType, server, client
<1>34. ASSUME NEW r \in Role, Damage(r) PROVE Held'
  BY <1>34 DEF Damage, Held, HistoryType, server, client
<1>35. CASE UNCHANGED vars
  BY <1>35 DEF vars, Held, HistoryType, server, client
<1> QED
  BY <1>1, <1>2, <1>3, <1>4, <1>5, <1>6, <1>7, <1>8, <1>9, <1>10, <1>11, <1>12, <1>13, <1>14, <1>15,
     <1>16, <1>17, <1>18, <1>19, <1>20, <1>21, <1>22, <1>23, <1>24, <1>25, <1>26, <1>27, <1>28,
     <1>29, <1>30, <1>31, <1>32, <1>33, <1>34, <1>35
     DEF Next, Install, NodeRuntime, PostgreSQL, Client, Finish, User

LEMMA OptOutStep ==
  ASSUME Inv, [Next]_vars
  PROVE  OptOut'
<1> USE SetupAssumption DEF Inv, Types
<1>1. ASSUME NEW mode \in Mode, NEW version \in Version, Begin(mode, version) PROVE OptOut'
  BY <1>1 DEF Begin, ServerMode, Mode, Role, OptOut, HistoryType, LoginType, server, client
<1>2. CASE Fails
  BY <1>2 DEF Fails, Raise, OptOut, HistoryType, LoginType, server, client
<1>3. CASE Unwind
  BY <1>3 DEF Unwind, Over, Idle, OptOut, HistoryType, LoginType, server, client
<1>4. CASE Kill
  BY <1>4 DEF Kill, Over, Idle, OptOut, HistoryType, LoginType, server, client
<1>5. CASE ConfigureProfile
  BY <1>5 DEF ConfigureProfile, Step, OptOut, HistoryType, LoginType, server, client
<1>6. CASE CheckCopilot
  BY <1>6 DEF CheckCopilot, Step, OptOut, HistoryType, LoginType, server, client
<1>7. CASE ConfigureSharing
  BY <1>7 DEF ConfigureSharing, Raise, Shared, Step, OptOut, HistoryType, LoginType, server, client
<1>8. CASE Check
  BY <1>8 DEF Check, NodeStep, Step, Here, Node, AfterNode, CanConnectLocal, Intact, OptOut,
       HistoryType, LoginType, server, client
<1>9. CASE Recover
  BY <1>9 DEF Recover, NodeStep, Step, Here, Node, OptOut, HistoryType, LoginType, server, client
<1>10. CASE Unpack
  BY <1>10 DEF Unpack, NodeStep, Step, Here, Node, OptOut, HistoryType, LoginType, server, client
<1>11. CASE Clear
  BY <1>11 DEF Clear, Raise, Step, Here, Node, OptOut, HistoryType, LoginType, server, client
<1>12. CASE Aside
  BY <1>12 DEF Aside, NodeStep, Step, Here, Node, OptOut, HistoryType, LoginType, server, client
<1>13. CASE PlaceNew
  BY <1>13 DEF PlaceNew, Raise, Step, Here, Node, OptOut, HistoryType, LoginType, server, client
<1>14. CASE Tidy
  BY <1>14 DEF Tidy, NodeStep, Step, Here, Node, OptOut, HistoryType, LoginType, server, client
<1>15. CASE Stamp
  BY <1>15 DEF Stamp, NodeStep, Step, Here, Node, AfterNode, CanConnectLocal, OptOut, HistoryType,
       LoginType, server, client
<1>16. CASE Database
  BY <1>16 DEF Database, DbStep, Step, OptOut, HistoryType, LoginType, server, client
<1>17. CASE Initialize
  BY <1>17 DEF Initialize, DbStep, Step, OptOut, HistoryType, LoginType, server, client
<1>18. CASE Initdb
  BY <1>18 DEF Initdb, DbStep, Step, OptOut, HistoryType, LoginType, server, client
<1>19. CASE DbStart
  BY <1>19 DEF DbStart, DbStep, Step, OptOut, HistoryType, LoginType, server, client
<1>20. CASE Prepare
  BY <1>20 DEF Prepare, DbStep, Step, OptOut, HistoryType, LoginType, server, client
<1>21. CASE WriteUrl
  BY <1>21 DEF WriteUrl, DbStep, Step, OptOut, HistoryType, LoginType, server, client
<1>22. CASE StartLocal
  BY <1>22 DEF StartLocal, Raise, Step, DbUp, ApiUp, OptOut, HistoryType, LoginType, server, client
<1>23. CASE Connect
  BY <1>23 DEF Connect, Step, OptOut, HistoryType, LoginType, server, client
<1>24. CASE Register
  BY <1>24 DEF Register, Raise, Step, AfterClient, OptOut, HistoryType, LoginType, server, client
<1>25. CASE Integrate
  BY <1>25 DEF Integrate, ClientStep, Step, AfterClient, OptOut, HistoryType, LoginType, server, client
<1>26. CASE LifecycleStart
  BY <1>26 DEF LifecycleStart, ClientStep, Step, OptOut, HistoryType, LoginType, server, client
<1>27. CASE InstallCommand
  BY <1>27 DEF InstallCommand, ClientStep, Step, OptOut, HistoryType, LoginType, server, client
<1>28. CASE SavePreference
  BY <1>28 DEF SavePreference, Step, OptOut, HistoryType, LoginType, server, client
<1>29. CASE InstallTask
  BY <1>29 DEF InstallTask, Raise, Step, OptOut, HistoryType, LoginType, server, client
<1>30. CASE RecordMode
  BY <1>30 DEF RecordMode, Over, Idle, OptOut, HistoryType, LoginType, server, client
<1>31. CASE UserStart
  BY <1>31 DEF UserStart, Command, DbUp, ApiUp, OptOut, HistoryType, LoginType, server, client
<1>32. CASE UserStop
  BY <1>32 DEF UserStop, Command, OptOut, HistoryType, LoginType, server, client
<1>33. CASE UserStartup
  <2>1. CASE login' = [pref |-> FALSE, task |-> "none"] /\ history' = [history EXCEPT !.optedOut = at # "task"]
    BY <1>33, <2>1 DEF UserStartup, Command, OptOut, HistoryType
  <2>2. CASE history' = [history EXCEPT !.optedOut = FALSE]
    BY <2>2 DEF OptOut, HistoryType
  <2>3. CASE login' = [login EXCEPT !.task = "off"]
    BY <2>3 DEF OptOut, LoginType
  <2> QED BY <1>33, <2>1, <2>2, <2>3 DEF UserStartup
<1>34. ASSUME NEW r \in Role, Damage(r) PROVE OptOut'
  BY <1>34 DEF Damage, OptOut, HistoryType, LoginType, server, client
<1>35. CASE UNCHANGED vars
  BY <1>35 DEF vars, OptOut, HistoryType, LoginType, server, client
<1> QED
  BY <1>1, <1>2, <1>3, <1>4, <1>5, <1>6, <1>7, <1>8, <1>9, <1>10, <1>11, <1>12, <1>13, <1>14, <1>15,
     <1>16, <1>17, <1>18, <1>19, <1>20, <1>21, <1>22, <1>23, <1>24, <1>25, <1>26, <1>27, <1>28,
     <1>29, <1>30, <1>31, <1>32, <1>33, <1>34, <1>35
     DEF Next, Install, NodeRuntime, PostgreSQL, Client, Finish, User

\* Sharing and the URL change nothing else of a profile.
LEMMA SharedProfile ==
  ASSUME Types, profile # None
  PROVE  /\ Shared \in Profile /\ Shared.shared /\ Shared.url = profile.url
         /\ [profile EXCEPT !.url = "own"] \in Profile
<1> USE DEF Types, ProfileType
<1>1. profile \in Profile
  OBVIOUS
<1>2. profile.listen \in {"local", "all"}
  BY <1>1 DEF Profile
<1>3. (IF run.existing THEN profile.listen ELSE "all") \in {"local", "all"}
  BY <1>2
<1> QED BY <1>1, <1>3 DEF Shared, Profile

LEMMA ClusterStep ==
  ASSUME Inv, [Next]_vars
  PROVE  Cluster'
<1> USE SetupAssumption DEF Inv, Types
<1>1. ASSUME NEW mode \in Mode, NEW version \in Version, Begin(mode, version) PROVE Cluster'
  BY <1>1 DEF Begin, ServerMode, Mode, Role, Cluster, ProfileType, Profile, DbType, Progress, Serving,
       Shares, RunType, NodePlace, DatabasePlace, ServerPlace, ClientPlace, server, client
<1>2. CASE Fails
  BY <1>2 DEF Fails, Raise, Cluster, ProfileType, Profile, DbType, Progress, Serving, Shares, RunType,
       Role, NodePlace, DatabasePlace, ServerPlace, ClientPlace, ServerMode, server, client
<1>3. CASE Unwind
  BY <1>3 DEF Unwind, Over, Idle, Cluster, ProfileType, Profile, DbType, Progress, Serving, Shares,
       RunType, Role, NodePlace, DatabasePlace, ServerPlace, ClientPlace, ServerMode, server, client
<1>4. CASE Kill
  BY <1>4 DEF Kill, Over, Idle, Cluster, ProfileType, Profile, DbType, Progress, Serving, Shares,
       RunType, Role, NodePlace, DatabasePlace, ServerPlace, ClientPlace, ServerMode, server, client
<1>5. CASE ConfigureProfile
  <2>1. /\ at = "profile" /\ at' = "copilot" /\ UNCHANGED <<role, db, record>> /\ role = "server"
        /\ run' = [run EXCEPT !.existing = profile # None]
        /\ profile' = IF profile = None THEN [url |-> None, listen |-> "local", shared |-> FALSE] ELSE profile
    BY <1>5 DEF ConfigureProfile, Step, server, client, Progress, ServerPlace
  <2>2. [url |-> None, listen |-> "local", shared |-> FALSE] \in Profile
    BY DEF Profile
  <2>3. profile' # None /\ (profile # None => profile' = profile) /\ (profile = None => profile'.url # "own")
    BY <2>1, <2>2
  <2>4. ~Serving'
    BY <2>1 DEF Serving
  <2> QED BY <2>1, <2>3, <2>4 DEF Cluster, Shares, NodePlace, DatabasePlace
<1>6. CASE CheckCopilot
  BY <1>6 DEF CheckCopilot, Step, Cluster, ProfileType, Profile, DbType, Progress, Serving, Shares,
       RunType, Role, NodePlace, DatabasePlace, ServerPlace, ClientPlace, ServerMode, server, client
<1>7. CASE ConfigureSharing
  <2>1. /\ at = "sharing" /\ at' \in {"check", "unwind"} /\ profile # None /\ role = "server"
        /\ UNCHANGED <<run, role, db, record>>
        /\ profile' \in {profile, Shared} /\ (at' = "check" => profile' = Shared)
    BY <1>7 DEF ConfigureSharing, Step, Raise, client, Cluster, Progress, ServerPlace
  <2>2. profile' # None /\ profile'.url = profile.url /\ (profile' = Shared \/ profile' = profile) /\ Shared.shared
    BY <2>1, SharedProfile
  <2>3. ~Serving'
    BY <2>1 DEF Serving
  <2> QED BY <2>1, <2>2, <2>3 DEF Cluster, Shares, NodePlace, DatabasePlace
<1>8. CASE Check
  BY <1>8 DEF Check, NodeStep, Step, Here, Node, AfterNode, CanConnectLocal, Intact, Cluster,
       ProfileType, Profile, DbType, Progress, Serving, Shares, RunType, Role, NodePlace, DatabasePlace,
       ServerPlace, ClientPlace, ServerMode, server, client
<1>9. CASE Recover
  BY <1>9 DEF Recover, NodeStep, Step, Here, Node, Cluster, ProfileType, Profile, DbType, Progress,
       Serving, Shares, RunType, Role, NodePlace, DatabasePlace, ServerPlace, ClientPlace, ServerMode,
       server, client
<1>10. CASE Unpack
  BY <1>10 DEF Unpack, NodeStep, Step, Here, Node, Cluster, ProfileType, Profile, DbType, Progress,
       Serving, Shares, RunType, Role, NodePlace, DatabasePlace, ServerPlace, ClientPlace, ServerMode,
       server, client
<1>11. CASE Clear
  BY <1>11 DEF Clear, Raise, Step, Here, Node, Cluster, ProfileType, Profile, DbType, Progress, Serving,
       Shares, RunType, Role, NodePlace, DatabasePlace, ServerPlace, ClientPlace, ServerMode, server,
       client
<1>12. CASE Aside
  BY <1>12 DEF Aside, NodeStep, Step, Here, Node, Cluster, ProfileType, Profile, DbType, Progress,
       Serving, Shares, RunType, Role, NodePlace, DatabasePlace, ServerPlace, ClientPlace, ServerMode,
       server, client
<1>13. CASE PlaceNew
  BY <1>13 DEF PlaceNew, Raise, Step, Here, Node, Cluster, ProfileType, Profile, DbType, Progress,
       Serving, Shares, RunType, Role, NodePlace, DatabasePlace, ServerPlace, ClientPlace, ServerMode,
       server, client
<1>14. CASE Tidy
  BY <1>14 DEF Tidy, NodeStep, Step, Here, Node, Cluster, ProfileType, Profile, DbType, Progress,
       Serving, Shares, RunType, Role, NodePlace, DatabasePlace, ServerPlace, ClientPlace, ServerMode,
       server, client
<1>15. CASE Stamp
  BY <1>15 DEF Stamp, NodeStep, Step, Here, Node, AfterNode, CanConnectLocal, Cluster, ProfileType,
       Profile, DbType, Progress, Serving, Shares, RunType, Role, NodePlace, DatabasePlace, ServerPlace,
       ClientPlace, ServerMode, server, client
<1>16. CASE Database
  BY <1>16 DEF Database, DbStep, Step, Cluster, ProfileType, Profile, DbType, Progress, Serving, Shares,
       RunType, Role, NodePlace, DatabasePlace, ServerPlace, ClientPlace, ServerMode, server, client
<1>17. CASE Initialize
  BY <1>17 DEF Initialize, DbStep, Step, Cluster, ProfileType, Profile, DbType, Progress, Serving,
       Shares, RunType, Role, NodePlace, DatabasePlace, ServerPlace, ClientPlace, ServerMode, server,
       client
<1>18. CASE Initdb
  BY <1>18 DEF Initdb, DbStep, Step, Cluster, ProfileType, Profile, DbType, Progress, Serving, Shares,
       RunType, Role, NodePlace, DatabasePlace, ServerPlace, ClientPlace, ServerMode, server, client
<1>19. CASE DbStart
  BY <1>19 DEF DbStart, DbStep, Step, Cluster, ProfileType, Profile, DbType, Progress, Serving, Shares,
       RunType, Role, NodePlace, DatabasePlace, ServerPlace, ClientPlace, ServerMode, server, client
<1>20. CASE Prepare
  BY <1>20 DEF Prepare, DbStep, Step, Cluster, ProfileType, Profile, DbType, Progress, Serving, Shares,
       RunType, Role, NodePlace, DatabasePlace, ServerPlace, ClientPlace, ServerMode, server, client
<1>21. CASE WriteUrl
  BY <1>21 DEF WriteUrl, DbStep, Step, Cluster, ProfileType, Profile, DbType, Progress, Serving, Shares,
       RunType, Role, NodePlace, DatabasePlace, ServerPlace, ClientPlace, ServerMode, server, client
<1>22. CASE StartLocal
  BY <1>22 DEF StartLocal, Raise, Step, DbUp, ApiUp, Cluster, ProfileType, Profile, DbType, Progress,
       Serving, Shares, RunType, Role, NodePlace, DatabasePlace, ServerPlace, ClientPlace, ServerMode,
       server, client
<1>23. CASE Connect
  BY <1>23 DEF Connect, Step, Cluster, ProfileType, Profile, DbType, Progress, Serving, Shares, RunType,
       Role, NodePlace, DatabasePlace, ServerPlace, ClientPlace, ServerMode, server, client
<1>24. CASE Register
  BY <1>24 DEF Register, Raise, Step, AfterClient, Cluster, ProfileType, Profile, DbType, Progress,
       Serving, Shares, RunType, Role, NodePlace, DatabasePlace, ServerPlace, ClientPlace, ServerMode,
       server, client
<1>25. CASE Integrate
  BY <1>25 DEF Integrate, ClientStep, Step, AfterClient, Cluster, ProfileType, Profile, DbType,
       Progress, Serving, Shares, RunType, Role, NodePlace, DatabasePlace, ServerPlace, ClientPlace,
       ServerMode, server, client
<1>26. CASE LifecycleStart
  BY <1>26 DEF LifecycleStart, ClientStep, Step, Cluster, ProfileType, Profile, DbType, Progress,
       Serving, Shares, RunType, Role, NodePlace, DatabasePlace, ServerPlace, ClientPlace, ServerMode,
       server, client
<1>27. CASE InstallCommand
  BY <1>27 DEF InstallCommand, ClientStep, Step, Cluster, ProfileType, Profile, DbType, Progress,
       Serving, Shares, RunType, Role, NodePlace, DatabasePlace, ServerPlace, ClientPlace, ServerMode,
       server, client
<1>28. CASE SavePreference
  BY <1>28 DEF SavePreference, Step, Cluster, ProfileType, Profile, DbType, Progress, Serving, Shares,
       RunType, Role, NodePlace, DatabasePlace, ServerPlace, ClientPlace, ServerMode, server, client
<1>29. CASE InstallTask
  BY <1>29 DEF InstallTask, Raise, Step, Cluster, ProfileType, Profile, DbType, Progress, Serving,
       Shares, RunType, Role, NodePlace, DatabasePlace, ServerPlace, ClientPlace, ServerMode, server,
       client
<1>30. CASE RecordMode
  BY <1>30 DEF RecordMode, Over, Idle, Cluster, ProfileType, Profile, DbType, Progress, Serving, Shares,
       RunType, Role, NodePlace, DatabasePlace, ServerPlace, ClientPlace, ServerMode, server, client
<1>31. CASE UserStart
  BY <1>31 DEF UserStart, Command, DbUp, ApiUp, Cluster, ProfileType, Profile, DbType, Progress,
       Serving, Shares, RunType, Role, NodePlace, DatabasePlace, ServerPlace, ClientPlace, ServerMode,
       server, client
<1>32. CASE UserStop
  BY <1>32 DEF UserStop, Command, Cluster, ProfileType, Profile, DbType, Progress, Serving, Shares,
       RunType, Role, NodePlace, DatabasePlace, ServerPlace, ClientPlace, ServerMode, server, client
<1>33. CASE UserStartup
  BY <1>33 DEF UserStartup, Command, Cluster, ProfileType, Profile, DbType, Progress, Serving, Shares,
       RunType, Role, NodePlace, DatabasePlace, ServerPlace, ClientPlace, ServerMode, server, client
<1>34. ASSUME NEW r \in Role, Damage(r) PROVE Cluster'
  BY <1>34 DEF Damage, Cluster, ProfileType, Profile, DbType, Progress, Serving, Shares, RunType, Role,
       NodePlace, DatabasePlace, ServerPlace, ClientPlace, ServerMode, server, client
<1>35. CASE UNCHANGED vars
  BY <1>35 DEF vars, Cluster, ProfileType, Profile, DbType, Progress, Serving, Shares, RunType, Role,
       NodePlace, DatabasePlace, ServerPlace, ClientPlace, ServerMode, server, client
<1> QED
  BY <1>1, <1>2, <1>3, <1>4, <1>5, <1>6, <1>7, <1>8, <1>9, <1>10, <1>11, <1>12, <1>13, <1>14, <1>15,
     <1>16, <1>17, <1>18, <1>19, <1>20, <1>21, <1>22, <1>23, <1>24, <1>25, <1>26, <1>27, <1>28,
     <1>29, <1>30, <1>31, <1>32, <1>33, <1>34, <1>35
     DEF Next, Install, NodeRuntime, PostgreSQL, Client, Finish, User

LEMMA CurrentStep ==
  ASSUME Inv, [Next]_vars
  PROVE  Current'
<1> USE SetupAssumption DEF Inv, Types
<1>1. ASSUME NEW mode \in Mode, NEW version \in Version, Begin(mode, version) PROVE Current'
  BY <1>1 DEF Begin, ServerMode, Mode, Role, Current, ApiIsCurrent, HistoryType, Progress, RunType,
       server, client
<1>2. CASE Fails
  BY <1>2 DEF Fails, Raise, Current, ApiIsCurrent, HistoryType, Progress, RunType, server, client
<1>3. CASE Unwind
  BY <1>3 DEF Unwind, Over, Idle, Current, ApiIsCurrent, HistoryType, Progress, RunType, server, client
<1>4. CASE Kill
  BY <1>4 DEF Kill, Over, Idle, Current, ApiIsCurrent, HistoryType, Progress, RunType, server, client
<1>5. CASE ConfigureProfile
  BY <1>5 DEF ConfigureProfile, Step, Current, ApiIsCurrent, HistoryType, Progress, RunType, server,
       client
<1>6. CASE CheckCopilot
  BY <1>6 DEF CheckCopilot, Step, Current, ApiIsCurrent, HistoryType, Progress, RunType, server, client
<1>7. CASE ConfigureSharing
  BY <1>7 DEF ConfigureSharing, Raise, Shared, Step, Current, ApiIsCurrent, HistoryType, Progress,
       RunType, server, client
<1>8. CASE Check
  BY <1>8 DEF Check, NodeStep, Step, Here, Node, AfterNode, CanConnectLocal, Intact, Current,
       ApiIsCurrent, HistoryType, Progress, RunType, server, client
<1>9. CASE Recover
  BY <1>9 DEF Recover, NodeStep, Step, Here, Node, Current, ApiIsCurrent, HistoryType, Progress,
       RunType, server, client
<1>10. CASE Unpack
  BY <1>10 DEF Unpack, NodeStep, Step, Here, Node, Current, ApiIsCurrent, HistoryType, Progress,
       RunType, server, client
<1>11. CASE Clear
  BY <1>11 DEF Clear, Raise, Step, Here, Node, Current, ApiIsCurrent, HistoryType, Progress, RunType,
       server, client
<1>12. CASE Aside
  BY <1>12 DEF Aside, NodeStep, Step, Here, Node, Current, ApiIsCurrent, HistoryType, Progress, RunType,
       server, client
<1>13. CASE PlaceNew
  BY <1>13 DEF PlaceNew, Raise, Step, Here, Node, Current, ApiIsCurrent, HistoryType, Progress, RunType,
       server, client
<1>14. CASE Tidy
  BY <1>14 DEF Tidy, NodeStep, Step, Here, Node, Current, ApiIsCurrent, HistoryType, Progress, RunType,
       server, client
<1>15. CASE Stamp
  BY <1>15 DEF Stamp, NodeStep, Step, Here, Node, AfterNode, CanConnectLocal, Current, ApiIsCurrent,
       HistoryType, Progress, RunType, server, client
<1>16. CASE Database
  BY <1>16 DEF Database, DbStep, Step, Current, ApiIsCurrent, HistoryType, Progress, RunType, server,
       client
<1>17. CASE Initialize
  BY <1>17 DEF Initialize, DbStep, Step, Current, ApiIsCurrent, HistoryType, Progress, RunType, server,
       client
<1>18. CASE Initdb
  BY <1>18 DEF Initdb, DbStep, Step, Current, ApiIsCurrent, HistoryType, Progress, RunType, server,
       client
<1>19. CASE DbStart
  BY <1>19 DEF DbStart, DbStep, Step, Current, ApiIsCurrent, HistoryType, Progress, RunType, server,
       client
<1>20. CASE Prepare
  BY <1>20 DEF Prepare, DbStep, Step, Current, ApiIsCurrent, HistoryType, Progress, RunType, server,
       client
<1>21. CASE WriteUrl
  BY <1>21 DEF WriteUrl, DbStep, Step, Current, ApiIsCurrent, HistoryType, Progress, RunType, server,
       client
<1>22. CASE StartLocal
  BY <1>22 DEF StartLocal, Raise, Step, DbUp, ApiUp, Current, ApiIsCurrent, HistoryType, Progress,
       RunType, server, client
<1>23. CASE Connect
  BY <1>23 DEF Connect, Step, Current, ApiIsCurrent, HistoryType, Progress, RunType, server, client
<1>24. CASE Register
  BY <1>24 DEF Register, Raise, Step, AfterClient, Current, ApiIsCurrent, HistoryType, Progress,
       RunType, server, client
<1>25. CASE Integrate
  BY <1>25 DEF Integrate, ClientStep, Step, AfterClient, Current, ApiIsCurrent, HistoryType, Progress,
       RunType, server, client
<1>26. CASE LifecycleStart
  BY <1>26 DEF LifecycleStart, ClientStep, Step, Current, ApiIsCurrent, HistoryType, Progress, RunType,
       server, client
<1>27. CASE InstallCommand
  BY <1>27 DEF InstallCommand, ClientStep, Step, Current, ApiIsCurrent, HistoryType, Progress, RunType,
       server, client
<1>28. CASE SavePreference
  BY <1>28 DEF SavePreference, Step, Current, ApiIsCurrent, HistoryType, Progress, RunType, server,
       client
<1>29. CASE InstallTask
  BY <1>29 DEF InstallTask, Raise, Step, Current, ApiIsCurrent, HistoryType, Progress, RunType, server,
       client
<1>30. CASE RecordMode
  BY <1>30 DEF RecordMode, Over, Idle, Current, ApiIsCurrent, HistoryType, Progress, RunType, server,
       client
<1>31. CASE UserStart
  BY <1>31 DEF UserStart, Command, DbUp, ApiUp, Current, ApiIsCurrent, HistoryType, Progress, RunType,
       server, client
<1>32. CASE UserStop
  BY <1>32 DEF UserStop, Command, Current, ApiIsCurrent, HistoryType, Progress, RunType, server, client
<1>33. CASE UserStartup
  BY <1>33 DEF UserStartup, Command, Current, ApiIsCurrent, HistoryType, Progress, RunType, server,
       client
<1>34. ASSUME NEW r \in Role, Damage(r) PROVE Current'
  BY <1>34 DEF Damage, Current, ApiIsCurrent, HistoryType, Progress, RunType, server, client
<1>35. CASE UNCHANGED vars
  BY <1>35 DEF vars, Current, ApiIsCurrent, HistoryType, Progress, RunType, server, client
<1> QED
  BY <1>1, <1>2, <1>3, <1>4, <1>5, <1>6, <1>7, <1>8, <1>9, <1>10, <1>11, <1>12, <1>13, <1>14, <1>15,
     <1>16, <1>17, <1>18, <1>19, <1>20, <1>21, <1>22, <1>23, <1>24, <1>25, <1>26, <1>27, <1>28,
     <1>29, <1>30, <1>31, <1>32, <1>33, <1>34, <1>35
     DEF Next, Install, NodeRuntime, PostgreSQL, Client, Finish, User

LEMMA RuntimesStep ==
  ASSUME Inv, [Next]_vars
  PROVE  Runtimes'
<1> USE SetupAssumption DEF Inv, Types
<1>1. ASSUME NEW mode \in Mode, NEW version \in Version, Begin(mode, version) PROVE Runtimes'
  BY <1>1 DEF Begin, ServerMode, Mode, Role, Runtimes, NodeType, RunType, Progress, Serving, Placed,
       Serves, NodePlace, DatabasePlace, ServerPlace, ClientPlace, server, client
<1>2. CASE Fails
  BY <1>2 DEF Fails, Raise, Runtimes, NodeType, RunType, Role, Progress, Serving, Placed, Serves,
       NodePlace, DatabasePlace, ServerPlace, ClientPlace, ServerMode, server, client
<1>3. CASE Unwind
  BY <1>3 DEF Unwind, Over, Idle, Runtimes, NodeType, RunType, Role, Progress, Serving, Placed, Serves,
       NodePlace, DatabasePlace, ServerPlace, ClientPlace, ServerMode, server, client
<1>4. CASE Kill
  BY <1>4 DEF Kill, Over, Idle, Runtimes, NodeType, RunType, Role, Progress, Serving, Placed, Serves,
       NodePlace, DatabasePlace, ServerPlace, ClientPlace, ServerMode, server, client
<1>5. CASE ConfigureProfile
  BY <1>5 DEF ConfigureProfile, Step, Runtimes, NodeType, RunType, Role, Progress, Serving, Placed,
       Serves, NodePlace, DatabasePlace, ServerPlace, ClientPlace, ServerMode, server, client
<1>6. CASE CheckCopilot
  BY <1>6 DEF CheckCopilot, Step, Runtimes, NodeType, RunType, Role, Progress, Serving, Placed, Serves,
       NodePlace, DatabasePlace, ServerPlace, ClientPlace, ServerMode, server, client
<1>7. CASE ConfigureSharing
  BY <1>7 DEF ConfigureSharing, Raise, Shared, Step, Runtimes, NodeType, RunType, Role, Progress,
       Serving, Placed, Serves, NodePlace, DatabasePlace, ServerPlace, ClientPlace, ServerMode, server,
       client
<1>8. CASE Check
  BY <1>8 DEF Check, NodeStep, Step, Here, Node, AfterNode, CanConnectLocal, Intact, Runtimes, NodeType,
       RunType, Role, Progress, Serving, Placed, Serves, NodePlace, DatabasePlace, ServerPlace,
       ClientPlace, ServerMode, server, client
<1>9. CASE Recover
  BY <1>9 DEF Recover, NodeStep, Step, Here, Node, Runtimes, NodeType, RunType, Role, Progress, Serving,
       Placed, Serves, NodePlace, DatabasePlace, ServerPlace, ClientPlace, ServerMode, server, client
<1>10. CASE Unpack
  BY <1>10 DEF Unpack, NodeStep, Step, Here, Node, Runtimes, NodeType, RunType, Role, Progress, Serving,
       Placed, Serves, NodePlace, DatabasePlace, ServerPlace, ClientPlace, ServerMode, server, client
<1>11. CASE Clear
  BY <1>11 DEF Clear, Raise, Step, Here, Node, Runtimes, NodeType, RunType, Role, Progress, Serving,
       Placed, Serves, NodePlace, DatabasePlace, ServerPlace, ClientPlace, ServerMode, server, client
<1>12. CASE Aside
  BY <1>12 DEF Aside, NodeStep, Step, Here, Node, Runtimes, NodeType, RunType, Role, Progress, Serving,
       Placed, Serves, NodePlace, DatabasePlace, ServerPlace, ClientPlace, ServerMode, server, client
<1>13. CASE PlaceNew
  <2>1. /\ at = "place" /\ role \in Role /\ UNCHANGED <<role, run, record>> /\ run.version \in Version
        /\ Here.target = None /\ Here.stamp = None
    BY <1>13 DEF PlaceNew, Step, Raise, server, client, Progress, RunType, Runtimes, NodePlace, Here
  <2>2. CASE /\ at' = "tidy" /\ node' = [node EXCEPT ![role] = [Here EXCEPT !.target = run.version]]
             /\ damaged' = damaged \ {role}
    <3>1. /\ node'[role].target = run.version /\ node'[role].stamp = None
          /\ \A r \in Role \ {role} : node'[r] = node[r]
      BY <2>1, <2>2 DEF NodeType, Here
    <3>2. Serving' => Serving
      BY <2>1, <2>2 DEF Serving
    <3> QED BY <2>1, <2>2, <3>1, <3>2
            DEF Runtimes, Serves, Placed, NodePlace, DatabasePlace, ClientPlace, Serving, Role
  <2>3. CASE /\ at' = "unwind" /\ node' = [node EXCEPT ![role] = [Here EXCEPT !.target = Here.previous, !.previous = None]]
             /\ damaged' = damaged
    <3>1. /\ node'[role].target = Here.previous /\ node'[role].stamp = None
          /\ \A r \in Role \ {role} : node'[r] = node[r]
      BY <2>1, <2>3 DEF NodeType, Here
    <3>2. ~Serving'
      BY <2>3 DEF Serving
    <3> QED BY <2>1, <2>3, <3>1, <3>2 DEF Runtimes, Serves, NodePlace, DatabasePlace, ClientPlace, Role, Here
  <2>4. CASE at' = "unwind" /\ node' = node /\ damaged' = damaged
    <3>1. ~Serving'
      BY <2>4 DEF Serving
    <3> QED BY <2>1, <2>4, <3>1 DEF Runtimes, Serves, NodePlace, DatabasePlace, ClientPlace
  <2> QED BY <1>13, <2>2, <2>3, <2>4 DEF PlaceNew, Raise, Node
<1>14. CASE Tidy
  BY <1>14 DEF Tidy, NodeStep, Step, Here, Node, Runtimes, NodeType, RunType, Role, Progress, Serving,
       Placed, Serves, NodePlace, DatabasePlace, ServerPlace, ClientPlace, ServerMode, server, client
<1>15. CASE Stamp
  BY <1>15 DEF Stamp, NodeStep, Step, Here, Node, AfterNode, CanConnectLocal, Runtimes, NodeType,
       RunType, Role, Progress, Serving, Placed, Serves, NodePlace, DatabasePlace, ServerPlace,
       ClientPlace, ServerMode, server, client
<1>16. CASE Database
  BY <1>16 DEF Database, DbStep, Step, Runtimes, NodeType, RunType, Role, Progress, Serving, Placed,
       Serves, NodePlace, DatabasePlace, ServerPlace, ClientPlace, ServerMode, server, client
<1>17. CASE Initialize
  BY <1>17 DEF Initialize, DbStep, Step, Runtimes, NodeType, RunType, Role, Progress, Serving, Placed,
       Serves, NodePlace, DatabasePlace, ServerPlace, ClientPlace, ServerMode, server, client
<1>18. CASE Initdb
  BY <1>18 DEF Initdb, DbStep, Step, Runtimes, NodeType, RunType, Role, Progress, Serving, Placed,
       Serves, NodePlace, DatabasePlace, ServerPlace, ClientPlace, ServerMode, server, client
<1>19. CASE DbStart
  BY <1>19 DEF DbStart, DbStep, Step, Runtimes, NodeType, RunType, Role, Progress, Serving, Placed,
       Serves, NodePlace, DatabasePlace, ServerPlace, ClientPlace, ServerMode, server, client
<1>20. CASE Prepare
  BY <1>20 DEF Prepare, DbStep, Step, Runtimes, NodeType, RunType, Role, Progress, Serving, Placed,
       Serves, NodePlace, DatabasePlace, ServerPlace, ClientPlace, ServerMode, server, client
<1>21. CASE WriteUrl
  BY <1>21 DEF WriteUrl, DbStep, Step, Runtimes, NodeType, RunType, Role, Progress, Serving, Placed,
       Serves, NodePlace, DatabasePlace, ServerPlace, ClientPlace, ServerMode, server, client
<1>22. CASE StartLocal
  BY <1>22 DEF StartLocal, Raise, Step, DbUp, ApiUp, Runtimes, NodeType, RunType, Role, Progress,
       Serving, Placed, Serves, NodePlace, DatabasePlace, ServerPlace, ClientPlace, ServerMode, server,
       client
<1>23. CASE Connect
  BY <1>23 DEF Connect, Step, Runtimes, NodeType, RunType, Role, Progress, Serving, Placed, Serves,
       NodePlace, DatabasePlace, ServerPlace, ClientPlace, ServerMode, server, client
<1>24. CASE Register
  BY <1>24 DEF Register, Raise, Step, AfterClient, Runtimes, NodeType, RunType, Role, Progress, Serving,
       Placed, Serves, NodePlace, DatabasePlace, ServerPlace, ClientPlace, ServerMode, server, client
<1>25. CASE Integrate
  BY <1>25 DEF Integrate, ClientStep, Step, AfterClient, Runtimes, NodeType, RunType, Role, Progress,
       Serving, Placed, Serves, NodePlace, DatabasePlace, ServerPlace, ClientPlace, ServerMode, server,
       client
<1>26. CASE LifecycleStart
  BY <1>26 DEF LifecycleStart, ClientStep, Step, Runtimes, NodeType, RunType, Role, Progress, Serving,
       Placed, Serves, NodePlace, DatabasePlace, ServerPlace, ClientPlace, ServerMode, server, client
<1>27. CASE InstallCommand
  BY <1>27 DEF InstallCommand, ClientStep, Step, Runtimes, NodeType, RunType, Role, Progress, Serving,
       Placed, Serves, NodePlace, DatabasePlace, ServerPlace, ClientPlace, ServerMode, server, client
<1>28. CASE SavePreference
  BY <1>28 DEF SavePreference, Step, Runtimes, NodeType, RunType, Role, Progress, Serving, Placed,
       Serves, NodePlace, DatabasePlace, ServerPlace, ClientPlace, ServerMode, server, client
<1>29. CASE InstallTask
  BY <1>29 DEF InstallTask, Raise, Step, Runtimes, NodeType, RunType, Role, Progress, Serving, Placed,
       Serves, NodePlace, DatabasePlace, ServerPlace, ClientPlace, ServerMode, server, client
<1>30. CASE RecordMode
  BY <1>30 DEF RecordMode, Over, Idle, Runtimes, NodeType, RunType, Role, Progress, Serving, Placed,
       Serves, NodePlace, DatabasePlace, ServerPlace, ClientPlace, ServerMode, server, client
<1>31. CASE UserStart
  BY <1>31 DEF UserStart, Command, DbUp, ApiUp, Runtimes, NodeType, RunType, Role, Progress, Serving,
       Placed, Serves, NodePlace, DatabasePlace, ServerPlace, ClientPlace, ServerMode, server, client
<1>32. CASE UserStop
  BY <1>32 DEF UserStop, Command, Runtimes, NodeType, RunType, Role, Progress, Serving, Placed, Serves,
       NodePlace, DatabasePlace, ServerPlace, ClientPlace, ServerMode, server, client
<1>33. CASE UserStartup
  BY <1>33 DEF UserStartup, Command, Runtimes, NodeType, RunType, Role, Progress, Serving, Placed,
       Serves, NodePlace, DatabasePlace, ServerPlace, ClientPlace, ServerMode, server, client
<1>34. ASSUME NEW r \in Role, Damage(r) PROVE Runtimes'
  BY <1>34 DEF Damage, Runtimes, NodeType, RunType, Role, Progress, Serving, Placed, Serves, NodePlace,
       DatabasePlace, ServerPlace, ClientPlace, ServerMode, server, client
<1>35. CASE UNCHANGED vars
  BY <1>35 DEF vars, Runtimes, NodeType, RunType, Role, Progress, Serving, Placed, Serves, NodePlace,
       DatabasePlace, ServerPlace, ClientPlace, ServerMode, server, client
<1> QED
  BY <1>1, <1>2, <1>3, <1>4, <1>5, <1>6, <1>7, <1>8, <1>9, <1>10, <1>11, <1>12, <1>13, <1>14, <1>15,
     <1>16, <1>17, <1>18, <1>19, <1>20, <1>21, <1>22, <1>23, <1>24, <1>25, <1>26, <1>27, <1>28,
     <1>29, <1>30, <1>31, <1>32, <1>33, <1>34, <1>35
     DEF Next, Install, NodeRuntime, PostgreSQL, Client, Finish, User

-----------------------------------------------------------------------------
LEMMA TypesStep ==
  ASSUME Inv, [Next]_vars
  PROVE  Types'
BY RunTypeStep, SwitchTypeStep, NodeTypeStep, ProfileTypeStep, DbTypeStep, LoginTypeStep, HistoryTypeStep DEF Types

\* What an installer has reached holds after every step of anybody.
LEMMA Invariance == Spec => []Inv
<1>1. Inv /\ [Next]_vars => Inv'
  BY TypesStep, ProgressStep, HeldStep, OptOutStep, RuntimesStep, ClusterStep, CurrentStep DEF Inv
<1> QED BY InitInv, <1>1, PTL DEF Spec

\* No failure and no kill between the renames costs an installed runtime.
THEOREM RuntimeKeptHolds == Spec => []RuntimeKept
<1>1. Inv => RuntimeKept
  BY SetupAssumption DEF Inv, Runtimes, RuntimeKept
<1> QED BY <1>1, Invariance, PTL

\* What is on record has a complete server behind it.
THEOREM ServerCompleteHolds == Spec => []ServerComplete
<1>1. Inv => ServerComplete
  BY DEF Inv, Cluster, Shares, ServerComplete
<1> QED BY <1>1, Invariance, PTL

\* An installer that fails leaves a stopped installation stopped.
THEOREM StaysStoppedHolds == Spec => []StaysStopped
<1>1. Inv => StaysStopped
  BY DEF Inv, Held, StaysStopped
<1> QED BY <1>1, Invariance, PTL

\* No installer brings back a login task the user has switched off.
THEOREM OptOutKeptHolds == Spec => []OptOutKept
<1>1. Inv => OptOutKept
  BY DEF Inv, OptOut, OptOutKept
<1> QED BY <1>1, Invariance, PTL

\* After an upgrade no API of an earlier release runs on.
THEOREM ApiIsCurrentHolds == Spec => []ApiIsCurrent
<1>1. Inv => ApiIsCurrent
  BY DEF Inv, Current
<1> QED BY <1>1, Invariance, PTL
=============================================================================
