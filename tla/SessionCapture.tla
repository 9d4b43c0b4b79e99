--------------------------- MODULE SessionCapture ---------------------------
(***************************************************************************)
(* Which coding sessions may be saved: the service switch shared by all    *)
(* commands (platform/lifecycle.py), the rollback of a failed start        *)
(* (services.startup), the switch of a repository (memory/control.py), the *)
(* configured server (sharing/remote.py, setup/installer.py) and the hooks *)
(* of Copilot sessions (hooks.py).                                         *)
(*                                                                         *)
(* Commands and hooks are processes of their own.  Each file, and the two  *)
(* Git settings, is read or replaced in one step, commands lock one file   *)
(* at a time, and everything else interleaves.  The hooks of one session   *)
(* run one after the other.  Epochs are uuid4() values: numbers never used *)
(* before.  One repository is modelled; what a hook recalls is not.        *)
(***************************************************************************)
EXTENDS Naturals

CONSTANTS
  Session,    \* Copilot sessions
  Server,     \* memory servers a client can be connected to
  Cli,        \* terminals running hindsightkit commands
  None,       \* a session record, or an epoch in it, that is absent
  MaxEpoch    \* bound: epochs minted

Epoch == 1..MaxEpoch
Pin == [server : Server, repo : {0, None} \cup Epoch, service : Epoch \cup {None},
        connection : Epoch, allowed : BOOLEAN]

ASSUME CaptureAssumption == /\ MaxEpoch \in Nat \ {0, 1}
                            /\ None \notin Nat /\ None \notin Pin
                            /\ Server # {}

VARIABLES
  service,   \* service-state.json
  repo,      \* hindsightkit.memory.enabled and .captureepoch
  server,    \* the destination in the coding-agent configuration
  minted,    \* the last epoch minted
  pinned,    \* sessions/<hash>.json by session
  hook,      \* the hook a session is running
  cli,       \* the command a terminal is running
  switch,    \* where the running "memory on" or "memory off" is
  spans,     \* the session has seen memory paused or the server changed
  doubtful,  \* a command was under way at its start, or two "connect" met, or one was cut short
  saved      \* the last transcript of a session handed to the official retain hook

commands == <<cli, switch>>
history == <<spans, doubtful, saved>>
vars == <<service, repo, server, minted, pinned, hook, commands, history>>

-----------------------------------------------------------------------------

Service == [stopped : BOOLEAN, disconnected : BOOLEAN, capture : Epoch, connection : Epoch]
Repository == [enabled : BOOLEAN, capture : {0} \cup Epoch]

NoHook == [at |-> "off", event |-> "none", server |-> None, repo |-> None,
           service |-> None, late |-> FALSE]
NoCommand == [at |-> "off", local |-> FALSE, previous |-> None, from |-> None,
              to |-> None, rotate |-> FALSE]

TypeOK ==
  /\ service \in Service
  /\ repo \in Repository
  /\ server \in Server
  /\ minted \in Epoch
  /\ pinned \in [Session -> Pin \cup {None}]
  /\ hook \in [Session ->
       [at : {"off", "record", "pin", "service", "repo", "again", "repo again",
              "service again", "save"},
        event : {"none", "sessionStart", "agentStop"}, server : Server \cup {None},
        repo : Repository \cup {None}, service : Service \cup {None}, late : BOOLEAN]]
  /\ cli \in [Cli ->
       [at : {"off", "starting", "resuming", "configuring", "writing", "registering",
              "connecting", "closing", "failed", "stopping"},
        local : BOOLEAN, previous : Service \cup {None}, from : Server \cup {None},
        to : Server \cup {None}, rotate : BOOLEAN]]
  /\ switch \in {"off", "disabled", "rotating", "enabling"}
  /\ spans \in [Session -> BOOLEAN]
  /\ doubtful \in [Session -> BOOLEAN]
  /\ saved \in [Session ->
       [server : Server, late : BOOLEAN, doubtful : BOOLEAN] \cup {None}]

\* A client that has been connected to a server, with memory on.
Init ==
  /\ service = [stopped |-> FALSE, disconnected |-> FALSE, capture |-> 1, connection |-> 1]
  /\ repo = [enabled |-> TRUE, capture |-> 0]
  /\ server \in Server
  /\ minted = 1
  /\ pinned = [s \in Session |-> None]
  /\ hook = [s \in Session |-> NoHook]
  /\ cli = [c \in Cli |-> NoCommand]
  /\ switch = "off"
  /\ spans = [s \in Session |-> FALSE]
  /\ doubtful = [s \in Session |-> FALSE]
  /\ saved = [s \in Session |-> None]

Available(current) == ~current.stopped /\ ~current.disconnected

\* n fresh epochs.
Mint(n) == /\ minted + n <= MaxEpoch
           /\ minted' = minted + n

\* Every recorded session sees what the new state means for it.  A server
\* that "connect" has written and may still take back is no change yet.
Observe ==
  spans' = [s \in Session |->
              \/ spans[s]
              \/ /\ pinned[s] # None
                 /\ \/ ~Available(service') \/ ~repo'.enabled
                    \/ /\ server' # pinned[s].server
                       /\ \A c \in Cli : cli'[c].at \notin {"registering", "connecting"}]

-----------------------------------------------------------------------------
(* platform/lifecycle.py: each of these is one update() under the lock *)

LifecycleStop == /\ Mint(1)
                 /\ service' = [service EXCEPT !.stopped = TRUE, !.capture = minted']

LifecycleStart == service' = [service EXCEPT !.stopped = FALSE]

LifecycleDisconnect ==
  /\ Mint(2)
  /\ service' = [service EXCEPT !.disconnected = TRUE, !.capture = minted',
                                !.connection = minted' - 1]

\* Defect: epochs are rotated although the connection stays the same.
ConnectedAlwaysRotates(rotate) ==
  /\ Mint(2)
  /\ service' = [stopped |-> FALSE, disconnected |-> FALSE, capture |-> minted',
                 connection |-> minted' - 1]

LifecycleConnected(rotate) ==
  IF rotate
  THEN /\ Mint(2)
       /\ service' = [stopped |-> FALSE, disconnected |-> FALSE, capture |-> minted',
                      connection |-> minted' - 1]
  ELSE /\ service' = [service EXCEPT !.stopped = FALSE, !.disconnected = FALSE]
       /\ UNCHANGED minted

-----------------------------------------------------------------------------
(* Commands.  Stopping processes is not part of this model; whether it      *)
(* succeeds is.                                                             *)

Idle(c) == cli[c].at = "off"

\* A "connect" that has read the configuration and not finished with it.
Exchanging == {"writing", "registering", "connecting"}

\* What a command has in hand is dropped when it is not used any more.
Goto(c, place) == cli' = [cli EXCEPT ![c].at = place]
Last(c, place) == cli' = [cli EXCEPT ![c] = [NoCommand EXCEPT !.at = place,
                                                              !.previous = cli[c].previous]]
Done(c) == cli' = [cli EXCEPT ![c] = NoCommand]

\* startup() rolls back an explicit stop only.
Previous == IF service.stopped THEN service ELSE None

\* An exception inside or outside startup().
Fail(c) == IF cli[c].previous # None THEN Last(c, "failed") ELSE Done(c)

Stop(c) ==
  /\ Idle(c)
  /\ LifecycleStop
  /\ UNCHANGED <<repo, server, pinned, hook, commands, doubtful, saved>>
  /\ Observe

\* unshare of a remote client.
Unshare(c) ==
  /\ Idle(c)
  /\ LifecycleDisconnect
  /\ UNCHANGED <<repo, server, pinned, hook, commands, doubtful, saved>>
  /\ Observe

\* start and connect --local run inside startup().
BeginStart(c) ==
  /\ Idle(c)
  /\ cli' = [cli EXCEPT ![c].at = "starting", ![c].previous = Previous]
  /\ UNCHANGED <<service, repo, server, minted, pinned, hook, switch, history>>

BeginLocal(c) ==
  /\ Idle(c)
  /\ \E d \in Server :
       cli' = [cli EXCEPT ![c].at = "starting", ![c].previous = Previous,
                          ![c].local = TRUE, ![c].to = d]
  /\ UNCHANGED <<service, repo, server, minted, pinned, hook, switch, history>>

BeginConnect(c) ==
  /\ Idle(c)
  /\ \E d \in Server : cli' = [cli EXCEPT ![c].at = "configuring", ![c].to = d]
  /\ UNCHANGED <<service, repo, server, minted, pinned, hook, switch, history>>

\* Local services are up, or could not be started.
Started(c) ==
  /\ cli[c].at = "starting"
  /\ \/ /\ cli[c].local
        /\ Goto(c, "configuring")
        /\ UNCHANGED service
     \/ /\ ~cli[c].local
        /\ LifecycleStart
        /\ Goto(c, "resuming")
     \/ /\ Fail(c)
        /\ UNCHANGED service
  /\ UNCHANGED <<repo, server, minted, pinned, hook, switch, doubtful, saved>>
  /\ Observe

\* Saved connections are restored, or other relays are stopped.
Resumed(c) ==
  /\ cli[c].at \in {"resuming", "closing"}
  /\ Done(c) \/ Fail(c)
  /\ UNCHANGED <<service, repo, server, minted, pinned, hook, switch, history>>

\* setup_client reads the configuration it may have to put back, and compares with ...
ReadConfiguration(c) ==
  /\ cli[c].at = "configuring"
  /\ cli' = [cli EXCEPT ![c].at = "writing", ![c].from = server]
  /\ doubtful' = [s \in Session |->
                    \/ doubtful[s]
                    \/ pinned[s] # None /\ \E d \in Cli : cli[d].at \in Exchanging]
  /\ UNCHANGED <<service, repo, server, minted, pinned, hook, switch, spans, saved>>

\* ... writes the new destination before it registers there ...
Configure(c) ==
  /\ cli[c].at = "writing"
  /\ server' = cli[c].to
  /\ Goto(c, "registering")
  /\ UNCHANGED <<service, repo, minted, pinned, hook, switch, doubtful, saved>>
  /\ Observe

\* ... registers, and reads the disconnected flag before update() locks ...
Register(c) ==
  /\ cli[c].at = "registering"
  /\ cli' = [cli EXCEPT ![c].at = "connecting", ![c].to = None,
                        ![c].rotate = (cli[c].from # cli[c].to) \/ service.disconnected]
  /\ UNCHANGED <<service, repo, server, minted, pinned, hook, switch, doubtful, saved>>
  /\ Observe

\* ... or puts the old configuration back after an error, once it has read it.
PutBack(c) ==
  /\ cli[c].at = "configuring" \/ cli[c].at \in Exchanging
  /\ server' = IF cli[c].at = "configuring" THEN server ELSE cli[c].from
  /\ Fail(c)
  /\ UNCHANGED <<service, repo, minted, pinned, hook, switch, doubtful, saved>>
  /\ Observe

Connect(c) ==
  /\ cli[c].at = "connecting"
  /\ LifecycleConnected(cli[c].rotate)
  /\ IF cli[c].local THEN Last(c, "closing") ELSE Done(c)
  /\ UNCHANGED <<repo, server, pinned, hook, switch, doubtful, saved>>
  /\ Observe

\* startup(): stop() and then update(**previous), unless stopping fails.
RollBack(c) ==
  /\ cli[c].at = "failed"
  /\ LifecycleStop
  /\ Goto(c, "stopping") \/ Done(c)
  /\ UNCHANGED <<repo, server, pinned, hook, switch, doubtful, saved>>
  /\ Observe

Restore(c) ==
  /\ cli[c].at = "stopping"
  /\ service' = cli[c].previous
  /\ Done(c)
  /\ UNCHANGED <<repo, server, minted, pinned, hook, switch, doubtful, saved>>
  /\ Observe

\* The terminal is closed or the computer is switched off.  Between the two
\* files "connect" writes, this leaves the new server with the old epochs.
Killed(c) ==
  /\ ~Idle(c)
  /\ Done(c)
  /\ doubtful' = [s \in Session |->
                    \/ doubtful[s]
                    \/ pinned[s] # None /\ cli[c].at \in {"registering", "connecting"}]
  /\ UNCHANGED <<service, repo, server, minted, pinned, hook, switch, spans, saved>>

Command(c) ==
  \/ Stop(c) \/ Unshare(c) \/ BeginStart(c) \/ BeginLocal(c) \/ BeginConnect(c)
  \/ Started(c) \/ Resumed(c) \/ ReadConfiguration(c) \/ Configure(c) \/ Register(c)
  \/ PutBack(c) \/ Connect(c) \/ RollBack(c) \/ Restore(c) \/ Killed(c)

-----------------------------------------------------------------------------
(* memory/control.py: command("off") and command("on"), one at a time *)

\* Defect: the epoch is left alone when memory is switched off and on.
RotateNothing == UNCHANGED <<repo, minted>>

RotateRepository == /\ Mint(1)
                    /\ repo' = [repo EXCEPT !.capture = minted']

MemoryOff ==
  /\ switch = "off"
  /\ repo' = [repo EXCEPT !.enabled = FALSE]
  /\ switch' = "disabled"
  /\ UNCHANGED <<service, server, minted, pinned, hook, cli, doubtful, saved>>
  /\ Observe

MemoryOn ==
  /\ switch = "off"
  /\ ~repo.enabled
  /\ switch' = "rotating"
  /\ UNCHANGED <<service, repo, server, minted, pinned, hook, cli, history>>

RotateEpoch ==
  /\ switch \in {"disabled", "rotating"}
  /\ RotateRepository
  /\ switch' = IF switch = "rotating" THEN "enabling" ELSE "off"
  /\ UNCHANGED <<service, server, pinned, hook, cli, doubtful, saved>>
  /\ Observe

Enable ==
  /\ switch = "enabling"
  /\ repo' = [repo EXCEPT !.enabled = TRUE]
  /\ switch' = "off"
  /\ UNCHANGED <<service, server, minted, pinned, hook, cli, doubtful, saved>>
  /\ Observe

SwitchKilled ==
  /\ switch # "off"
  /\ switch' = "off"
  /\ UNCHANGED <<service, repo, server, minted, pinned, hook, cli, history>>

Switch == MemoryOff \/ MemoryOn \/ RotateEpoch \/ Enable \/ SwitchKilled

-----------------------------------------------------------------------------
(* hooks.py *)

Move(s, place) == hook' = [hook EXCEPT ![s].at = place]
Leave(s) == hook' = [hook EXCEPT ![s] = NoHook]

\* Copilot calls a hook, which reads the client configuration.
Begin(s) ==
  /\ hook[s].at = "off"
  /\ \E event \in {"sessionStart", "agentStop"} :
       hook' = [hook EXCEPT ![s] = [NoHook EXCEPT !.at = "record", !.event = event,
                                                  !.server = server, !.late = spans[s]]]
  /\ UNCHANGED <<service, repo, server, minted, pinned, commands, history>>

\* Defect: a session that changed its server may still be saved.
RepinnedKeepsPermission(s) ==
  IF pinned[s].server # hook[s].server
  THEN [pinned[s] EXCEPT !.server = hook[s].server] ELSE pinned[s]

\* session_config of a session that has a record.
Repinned(s) ==
  IF pinned[s].server # hook[s].server
  THEN [pinned[s] EXCEPT !.server = hook[s].server, !.allowed = FALSE] ELSE pinned[s]

\* session_config finds a record, or starts one with the repository's epoch.
Record(s) ==
  /\ hook[s].at = "record"
  /\ IF pinned[s] = None
     THEN /\ hook' = [hook EXCEPT ![s].at = "pin", ![s].repo = repo]
          /\ UNCHANGED pinned
          /\ UNCHANGED spans
     ELSE /\ pinned' = [pinned EXCEPT ![s] = Repinned(s)]
          /\ spans' = [spans EXCEPT ![s] = @ \/ pinned[s].server # hook[s].server]
          /\ Move(s, "service")
  /\ UNCHANGED <<service, repo, server, minted, commands, doubtful, saved>>

Busy == switch # "off" \/ \E c \in Cli : ~Idle(c)

NewPin(s) ==
  [server |-> hook[s].server,
   repo |-> IF hook[s].repo.enabled THEN hook[s].repo.capture ELSE None,
   service |-> IF Available(service) THEN service.capture ELSE None,
   connection |-> service.connection,
   allowed |-> hook[s].event = "sessionStart"]

\* The rest of a new record.  A first hook that is not the start hook says
\* nothing about how old the transcript is.
PinSession(s) ==
  /\ hook[s].at = "pin"
  /\ pinned' = [pinned EXCEPT ![s] = NewPin(s)]
  /\ spans' = [spans EXCEPT ![s] = \/ hook[s].event # "sessionStart"
                                   \/ ~Available(service) \/ ~repo.enabled
                                   \/ server # hook[s].server]
  /\ doubtful' = [doubtful EXCEPT ![s] = Busy \/ repo # hook[s].repo
                                              \/ server # hook[s].server]
  /\ hook' = [hook EXCEPT ![s].at = "service", ![s].repo = None, ![s].late = spans'[s]]
  /\ UNCHANGED <<service, repo, server, minted, commands, saved>>

CanCapture(pin, current, state) ==
  /\ pin.allowed
  /\ pin.repo = current.capture
  /\ pin.service = state.capture
  /\ pin.connection = state.connection

ReadService(s) ==
  /\ hook[s].at = "service"
  /\ IF Available(service)
     THEN hook' = [hook EXCEPT ![s].at = "repo", ![s].service = service]
     ELSE Leave(s)
  /\ UNCHANGED <<service, repo, server, minted, pinned, commands, history>>

ReadRepository(s) ==
  /\ hook[s].at = "repo"
  /\ IF /\ repo.enabled
        /\ hook[s].event = "agentStop"
        /\ CanCapture(pinned[s], repo, hook[s].service)
     THEN hook' = [hook EXCEPT ![s].at = "again", ![s].event = "none", ![s].service = None]
     ELSE Leave(s)
  /\ UNCHANGED <<service, repo, server, minted, pinned, commands, history>>

\* prepare_client waits for the relay, or raises; then session_config again.
Prepared(s) ==
  /\ hook[s].at = "again"
  /\ \/ /\ Available(service)
        /\ pinned' = [pinned EXCEPT ![s] = Repinned(s)]
        /\ spans' = [spans EXCEPT ![s] = @ \/ pinned[s].server # hook[s].server]
        /\ Move(s, "repo again")
     \/ /\ Leave(s)
        /\ UNCHANGED <<pinned, spans>>
  /\ UNCHANGED <<service, repo, server, minted, commands, doubtful, saved>>

ReadRepositoryAgain(s) ==
  /\ hook[s].at = "repo again"
  /\ hook' = [hook EXCEPT ![s].at = "service again", ![s].repo = repo]
  /\ UNCHANGED <<service, repo, server, minted, pinned, commands, history>>

ReadServiceAgain(s) ==
  /\ hook[s].at = "service again"
  /\ IF /\ hook[s].repo.enabled
        /\ Available(service)
        /\ CanCapture(pinned[s], hook[s].repo, service)
     THEN hook' = [hook EXCEPT ![s].at = "save", ![s].repo = None]
     ELSE Leave(s)
  /\ UNCHANGED <<service, repo, server, minted, pinned, commands, history>>

\* The official hook saves the whole transcript to the pinned destination.
Save(s) ==
  /\ hook[s].at = "save"
  /\ saved' = [saved EXCEPT ![s] = [server |-> pinned[s].server, late |-> hook[s].late,
                                     doubtful |-> doubtful[s]]]
  /\ Leave(s)
  /\ UNCHANGED <<service, repo, server, minted, pinned, commands, spans, doubtful>>

Hook(s) ==
  \/ Begin(s) \/ Record(s) \/ PinSession(s) \/ ReadService(s) \/ ReadRepository(s)
  \/ Prepared(s) \/ ReadRepositoryAgain(s) \/ ReadServiceAgain(s) \/ Save(s)

Next == \/ \E c \in Cli : Command(c)
        \/ Switch
        \/ \E s \in Session : Hook(s)

Spec == Init /\ [][Next]_vars

-----------------------------------------------------------------------------
(* Properties *)

\* "Sessions spanning a stop, disconnect, or server change are not saved
\* retroactively" (docs/devtunnel.md), and the same of memory off and on:
\* no hook called after a pause the session has seen saves its transcript.
\* Not so if a command was under way when the session began, as the roll-back of
\* a failed start restores the epoch of before, or if a "connect" was cut short or met another.
NotRetroactive ==
  \A s \in Session : saved[s] # None => (saved[s].late => saved[s].doubtful)

\* The transcript of one session never reaches two servers.
OneServer ==
  [][\A s \in Session : (saved[s] # None /\ saved'[s] # saved[s])
                          => saved'[s].server = saved[s].server]_vars

\* A session that began in a quiet moment and has seen neither a pause nor a
\* change of server is still saved, whatever commands ran meanwhile.
FreshIsSaved ==
  \A s \in Session :
    (pinned[s] # None /\ ~spans[s] /\ ~doubtful[s]) => CanCapture(pinned[s], repo, service)
=============================================================================
