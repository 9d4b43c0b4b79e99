# HindsightKit in TLA+

HindsightKit installs a shared memory server and connects coding agents on
several computers to it: hooks save Copilot sessions, a relay carries clients to
the server through a Dev Tunnel, and connectors import other sources, today the
mailbox WorkIQ can read. The modules here model the parts of it that keep state
across awaits, threads, processes and crashes. Paths below are relative to
`src/src/hindsightkit/` of the repository.

## 1. Inventory

| Component | Source | State | Operations | Who shares it | What is hard | Modelled |
| --- | --- | --- | --- | --- | --- | --- |
| Mail delivery | `connectors/workiq/sync.py`, `ledger.py` | SQLite ledger: one row per conversation, prepared payloads, operation ids; documents and operations of the memory server | record a page, compose, prepare, deliver, retry, reconcile labels, accept | up to 8 workers on one event loop, the server's retain worker, users of its documents | every await lets another actor in; answers get lost; the process dies between a request and its note in the ledger | yes |
| Mail discovery and schedule | `sync.py`, `source.py` `page`, `adapter.py` | settings table: history, watermarks, window and cursor, run; the tasks of the process | scan, run, schedule, start, sync, pause, configure, boot, shutdown | run, scheduler and page actions in one process | local copies of settings held across awaits; settings written one by one; late and unidentified messages | partly |
| Mail source transport | `source.py` | owner task, queue of requests, session of the WorkIQ process | open, fetch, close | the run and its workers | requests queued behind a session that has died | yes |
| Outcome builder, mail filter | `outcome.py`, `filter.py` | model runtimes and their directories | build, classify, stop, close | workers, configure, shutdown | cancellation while a runtime is being stopped | partly |
| Session capture | `hooks.py`, `platform/lifecycle.py`, `memory/control.py` | `service-state.json`, two Git settings, one record per session | start, stop, connect, unshare, memory on/off, hooks of sessions | processes of several terminals and sessions | reads of three places that cannot be read together; roll-back of a failed start | yes |
| Relay worker | `sharing/relay.py`, `remote.py` | `start.lock`, `worker.lock`, `worker.json`, the service switch | `prepare_client`, `ensure_running`, `stop`, `serve_worker` | hooks, MCP servers, terminals, worker processes | processes are killed at any point; files are read without the locks | yes |
| Relay supervisor | `relay.py` | the devtunnel child, its announced port, probe failures, open connections | supervise, probe, read lines, forward, stop | threads of one worker | results about a child that has been replaced | yes |
| Service commands, API start | `services.py`, `cli.py`, `platform/startup.py` | service switch, start locks, API, UI and database processes | start, stop, dashboard, connectors, the login task | terminals, the login task | two commands at once; a failure after half of the services | yes; API start partly |
| Connect, share, unshare | `sharing/remote.py`, `connection.py`, `setup/installer.py` | client configuration, profile, keys, tunnel specification | share, connect, unshare, register | terminals | several files change one after the other; services keep running with what they loaded | partly |
| Connector host | `connectors/host.py`, `registry.py` | port, receipt and start lock of the settings process | start, stop, serve | terminals | an old host closes while a new one comes up | partly |
| Set-up | `setup/installer.py`, `postgres.py`, `node_bundle.py`, `startup.py` | cluster, profile, two Node runtimes, connection, login task, recorded mode | install, upgrade, connect, roll back | at most one installer; start, stop, startup meanwhile | interruption between renames and files; what the next attempt finds | installation and login yes or partly, Node bundle yes, PostgreSQL partly |
| MCP server | `mcp.py` | the scope it pins on first use | tools | | | as a caller of the relay |
| Device inventory, repository routing, file helpers, settings page, packaging, scripts | `server.py`, `memory/`, `platform/`, `web/`, `distribution`, `scripts`, `node` | | | | | no, see 5 |

What makes each of them correct:

* **Mail delivery.** At most one replacement of a document is outstanding; the
  document never goes back to an older outcome; an accepted outcome stays
  available until its withdrawal is decided; the queue bound holds; labels of
  users survive; every change is accepted in the end.
* **Discovery.** No message in the chosen history is passed over by a
  watermark; a saved cursor can be resumed; an announced run has a scheduler;
  every readable message is found.
* **Source and builder.** Who waits for mail is answered; a runtime that was
  started can be stopped and its directory removed; closing ends.
* **Session capture.** A session that spans a stop, a disconnection, a change of
  server or a memory switch is not saved; one transcript reaches one server; a
  session that saw none of these is saved.
* **Relay.** A running worker can be found; a stop is final; use of memory
  brings a lost relay back. Inside a worker only lines and probes of the current
  child count, only it carries data, it is given up with cause, and nothing
  outlives the worker.
* **Services.** A stop holds; no service keeps running with a revoked key or an
  old address; a connector host can be found; every command ends.
* **Set-up.** Whatever was interrupted leaves a usable copy of each runtime and
  a consistent server, respects what the user stopped or switched off, and can
  be completed.

`PROJECT.json` lists forty hazards of this code at their lines, with the
properties that would catch each, or why none does.

## 2. Modules

| Module | Models | Kind |
| --- | --- | --- |
| `AcceptedOutcome` | what delivery promises of one document and the evidence accepted for it | abstract specification |
| `MailDelivery` | everything from a recorded page to an accepted outcome | component, implements `AcceptedOutcome` |
| `MailScan` | windows, cursors, runs, the schedule, page actions | component |
| `MailResources` | the WorkIQ session with its owner task, the model runtimes | component |
| `SessionCapture` | service commands, repository switch, hooks | component |
| `RelayWorker` | callers and worker processes of one relay | component |
| `RelaySupervisor` | the threads inside one worker | component |
| `Services` | commands on the services, the connector host | component |
| `Setup` | the installer and what it changes | component |
| `MailDeliveryProofs`, `MailScanProofs`, `MailResourcesProofs`, `SessionCaptureProofs`, `RelayWorkerProofs`, `RelaySupervisorProofs`, `ServicesProofs`, `SetupProofs` | theorems about the module each is named for | proofs |
| `MC*` | symmetry sets and instances for TLC | model checking |

### MailDelivery

`threads` is the ledger table of the same name: `state`, `revision`,
`applied` (`applied_revision`), `target` (`target_revision`), `op`
(`operation_id`), `outcome` (`has_outcome`) and `payload`, whose `kept` is the
code's `user_tags`. `sources` and `gap` stand for the source rows and the
`discovery_errors` row of a conversation. `at[t]` is the await its coroutine is
suspended at and `local[t]` what that coroutine still holds; code between two
awaits is one action, because one event loop owns the ledger. `documents`,
`operations` and `wire` are the memory server, modelled from how the code uses
it: an operation id it knows is not run again, a retain replaces a document, and
requests are lost or repeated.

Evidence is a number, the count of changes of the conversation the read can
see; an outcome is the evidence it was composed from. The connector's own labels
follow from the evidence, so tag sets hold the labels of users only. The hash
that recognises unchanged content is part of the choice of `Compose`.
`UserLabels` asks for a moment in which no replacement is being worked on
(`Quiet`): the server replaces labels with the document, so a label set while a
replacement runs is a race of the user with the server, not of this program.

### MailScan

`saved` is the settings table with `sources` and `discovery_errors`; `task` is
the coroutine of the run with the copies of the window and the watermarks it
holds while it waits for a page; `action` is the page action in progress
(`adapter._lock` admits one); `host` the process. Time is in ticks: the overlap
is one tick, and a message becomes visible up to `Delay` ticks after it was
received. `configure()` writes settings in up to five transactions: `Writes` has
the settings after each, and the fault kind `torn` ends the process between two
of them. What the run does with conversations is one await (`Threads`), detailed
in `MailDelivery`; the session it reads through is in `MailResources`.

`promised` is the history the user has last been told is configured. A
`configure()` that a run has overtaken, or that was killed, promises nothing
until the watermarks are reset again: the run writes its old copies over the
reset (see the divergences in section 3).

### MailResources

`owner`, `ready`, `queue`, `serving` and `session` are `Source`: the task that
owns the WorkIQ process answers queued requests; `torn` are requests it broke
down with. `task[t]` is the await a discovery or thread preparation is
suspended at, `lock` the holder of `_source_lock`, `doomed` the cancelled tasks.
`clients`, `up`, `dirs` and `unclean` are the model runtimes: what the builder
still has to stop, what runs, what has a directory, and what a `close()` has
reported. `strays` are directories in which no client could be created and which
could not be removed then either (`outcome.py:319-325`). Cancellation may hit any await; `Cancelled` has what each of them does
then. A request that is torn with the transport has no answer: it ends when its
task is cancelled, which is what the code relies on.

### SessionCapture

`service`, `repo`, `server` and `pinned` are the four places a hook reads, in
its order. Commands take their steps one at a time; `startup()` keeps the state
it may restore. Epochs are numbers never used before, for `uuid4()`.
`spans`, `doubtful` and `saved` are history: what a session has seen, whether a
command was under way when it began, and the last transcript handed over.
`setup_client` reads the earlier configuration twice with nothing of the model in
between (`installer.py:420` and `443`), which is one step, `ReadConfiguration`;
what it puts back when registration fails is what it read then. A session that
saw two of these connects overlap is doubtful too.

### RelayWorker

Callers go through `prepare_client`, `ensure_running` and `stop`, workers
through `serve_worker`. A lock file is freed when its process ends. `Answers` is
`_control`: the receipt names a worker that still answers. A worker that stops
keeps answering until it closes its control port; its receipt goes before its
lock. The callers are those that use a saved connection (hooks, MCP servers,
`start`); the sign-in of `share --relay` and `connect`, and a changed
specification, which `ensure_running` refuses, are left out.

### RelaySupervisor

`child`, `upstream`, `announced`, `ready`, `sockets` and `stop` are `_State`.
A step is what a thread does between two takings of its lock; what the supervisor
has read under the lock and uses later are its locals `current`, `seen`,
`heard`, `wasReady`, `probed`, `confirmed` and `failures`. `lines` is what a CLI
has printed and its reader thread has not handled, so that a reader may deliver
a line of a CLI that is gone. `conn[f]` is a connection accepted at the stable
local port, from the look at `upstream` through dialling to pumping; `listener`
says who really listens on a port, another program (`Other`) included. Two
abstractions: time is left out (a limit may pass at any moment; the 12 s
`serve_worker` waits for the supervisor suffice, as a probe takes at most 5 s
and ending the child 5 s more before it is killed), and a foreign program that
has taken a port does not give it back.

### Services

A command is a plan, a sequence of steps (`Start`, `Stop`, `Share`, `Unshare`,
the login task, `connectors`); `todo[p]` is what a process still has to take and
each step is an action named for it. `startup()` puts its roll-back in place of
the plan of a start that failed. `lock` has the three start locks, `api`, `ui` and
`db` the processes with the key and address they were started with, `key` the
version of both in the profile. A connector host goes from `spawned` over the
port (`Bind`) and its receipt (`Serve`) to closing; once its adapters are closed it
looks whether the receipt is its own (`Closed`), and if so removes it (`Unlink`),
whichever host it names by then: these are two file operations, and the next host
is another process. A host that writes its receipt in between is `exposed`.
Abstractions: connectors are enabled and PostgreSQL is
the managed one; relays only succeed or fail here; a launcher and what it has
started die together; Ctrl-C is a kill.

### Setup

`at` is the place of the installer in the order of `setup()`, from the profile
over the Node runtimes, the cluster, the services, the connection and the launcher to
the login task and the record of the mode; the modes differ in the places they
visit. `node[r]` has the three names a runtime goes through (`target`,
`previous`, `stamp`), `db` the cluster, `run` what this installer has read at
its start and may restore. Every place may fail, with the clean-up the code has
for it (`unwind` is `startup()` putting a stopped installation back), and the process may be
killed between any two. Abstractions: a start or stop of the services is one
step, a stop that fails in the roll-back is one of the bounded faults, and the
packages of a release are those of its bundle.

### How they fit together

`MailScan!Threads` is the run whose inside is `MailDelivery`: discovery writes
rows that delivery reads, which `MailDelivery!RecordSources` has, and delivery
writes nothing discovery reads. Both read through the session of `MailResources`,
whose failures are the fault kinds `source` and `systemic` there, and whose
closing is what `MailScan!BuilderClosed` and the end of the host wait for.
`SessionCapture`, `RelayWorker`, `Services` and `Setup` share the service switch:
in `SessionCapture` it has its epochs and is what hooks compare; in `RelayWorker`
it is one Boolean and what hooks ask before they start a process; in `Services`
and `Setup` it is what a stop leaves and a failing start restores.
`RelaySupervisor` is the inside of `RelayWorker`'s serving worker: `TunnelUp`
and the fault `tunnel` there are `ready` coming and going here. `Setup!StartLocal`
is the start of `Services` in one step; the connector host of `Services` is the `host` of
`MailScan`. The models are not conjoined: each has the others as the choices
named above, which keeps every one of them within TLC's reach.

## 3. Runs

| Run | Question | Bounds |
| --- | --- | --- |
| `mail_redelivery` | can retries, cancellations, losses and crashes bring two replacements, an old outcome or lost labels? | 1 conversation, 2 labels, 3 changes, 7 operations, 4 faults |
| `mail_workers` | do bound, currency and progress survive every interleaving of two workers? | 2 conversations, a queue of 1, 2 changes each, 2 faults, fair |
| `mail_label_race` | violation of `LabelsKept` | 1 conversation, 3 faults |
| `mail_stuck` | violation of `RetryResumes` | 1 conversation, 1 fault, fair |
| `scan` | is a message ever passed over, a cursor unusable, a run announced without a scheduler; is every message found? | 1 folder, 2 messages on pages of 1, lookback 1 or 3, ticks 3 to 4, 2 faults, fair |
| `mail_resources` | are requests answered and runtimes known under every failure and cancellation, and does closing end? | 2 tasks, 3 runtimes, 2 pages, 3 faults, fair |
| `capture` | what may be saved, where, and is it still saved? | 1 session, 2 servers, 1 terminal, the memory switch, 4 epochs |
| `relay_worker` | reachability, final stops, recovery | 3 callers, 3 workers at a time, 3 faults, fair |
| `relay_supervisor` | does only the current child count, and does a lost tunnel come back? | 2 children, 2 ports, 1 connection, 2 failed probes, 1 unread line each, 3 faults, fair |
| `services` | do stops hold, do services follow the profile, is a host found, does every command end? | 2 processes, 2 hosts, 3 commands of six kinds, 1 fault, fair |
| `setup` | what does an interrupted installer leave, and can it be completed? | 2 releases, modes full and connect, 2 faults or commands, fair |
| `setup_listens` | violation of `ListensOnAll` | 1 release, server-only, 1 failure |

Every failure, crash, kill and user interference is counted in `faults`;
`Faults` names the kinds a run allows. Why the bounds suffice:

* *Redelivery.* The longest story of one outcome has three attempts (first
  request, cancelled and renewed, resumed) with a change arriving in between:
  three changes and four faults reach all of them, and seven operation ids are
  never exhausted by four faults and three outcomes.
* *Workers.* Two workers against a queue of one is the smallest case in which
  both pass the first check of the bound.
* *Scan.* Two messages on pages of one give a window that is interrupted and
  resumed; the ticks from three to four give a first window, one that overlaps
  it, and a repaired message; a lookback of one and of three can be widened and
  narrowed. The action `builder` counts as two faults. The kinds `torn`,
  `unavailable` and `shift` are left out, because each of them breaks a
  property (divergences below).
* *Resources.* Two tasks are one that holds the lock and one that waits; three
  faults are an opening that fails, a session that dies and a cancellation in
  one story; three runtimes let one be leaked, one be stopped, one be new.
* *Relay.* Three callers are a starter, a stopper and one that waits at the
  lock; three workers are one leaving, one serving and one coming up. Inside a
  worker, two children are the one that was replaced and its successor, and two
  ports the old and the new.
* *Capture.* The second start of a command mints the fourth epoch; a second
  server is needed for the change of server. Symmetry on servers is sound: the
  invariants and the action property treat them alike.
* *Services.* Two processes and three commands are a command, one that overlaps
  it, and one that follows; two hosts are one closing and one coming up.
* *Setup.* Two faults are an interruption and another in the attempt that
  repairs it; two releases are the old and the new tree.

`CHECK_DEADLOCK FALSE` is in four configurations, where the system really may
stop: `scan` (time and faults are used up, the host is down or the schedule
off), `mail_resources` (the host is gone for good), `relay_supervisor` (the
worker has left), `services` (all commands given and over).

### Disagreements with the documentation

Each is quoted under `findings` in `PROJECT.json`:

* `mail_label_race`: the status of an operation is read before the document
  (`sync.py:661-663`); a replacement executed in between makes its own labels
  those to keep.
* `mail_stuck`: an operation that completed with extraction errors is polled for
  ever (`sync.py:694`).
* `setup_listens`: a first set-up that fails after it has created the profile
  leaves a server that listens on loopback only, whatever set-up follows
  (`installer.py:386`).

Others were met while modelling and have no run of their own; the guards,
fault kinds and history that set them aside are named in the modules and under
`hazards`:

* a run started while `configure()` waits writes its old watermarks over the
  reset (`sync.py:218`); a crash between its five writes can leave a cursor
  that fits no window;
* the roll-back of a failed start restores an epoch that a session has pinned
  meanwhile (`services.py:61`): `NotRetroactive` is about sessions that began in
  a quiet moment;
* of two connects that overlap, one that fails puts back the server it read
  before the other registered (`installer.py:420`): `NotRetroactive` leaves the
  sessions of that time out;
* `stop` does nothing about a relay worker that has not written its receipt yet
  (`relay.py:315`): `QuietStop` is about stops that began with no start under way;
* a `$skip` cursor counts messages, so one that leaves the folder between two
  pages hides the next (`sync.py:407`), and the discovery error of a deleted
  message stays (`sync.py:364`);
* a connector that could not be loaded at boot and is loaded later has no
  scheduler (`adapter.py:138`);
* a directory made for a model runtime that could not be created stays, with the
  account copied into it, if removing it fails too (`outcome.py:319-325`): no close
  reports it. `NothingForgotten` is about the directories of runtimes;
* a closing connector host looks at the receipt and then removes it, two file
  operations between which the next one may write its own (`host.py:223-224`): if a
  stop and a login task meet there, the next host works on although the
  installation is stopped, without its receipt, and no stop finds it, which
  `docs/connectors.md:17` says it does. `StopHolds`, without the exception for
  `exposed`, shows it with no fault at all;
* the stale `service.json` of a host that died makes the next stop or unshare
  wait sixty seconds and fail (`host.py:100`);
* a start that overlaps an unshare brings the API back with the old key;
* `share` on a stopped installation starts the services before it records the
  start, and does not roll back (`remote.py:217-224`).

The passing runs state what does hold there: `LabelsKept` for labels set while
nothing is prepared (`quiet label`), `EveryChangeAccepted` while no outcome is
stuck, `StopHolds` and `KeysAgree` without an overlapping start, share or
unshare, and these and `HostReachable` for hosts that are not exposed.

### Fairness

Faults are never fair: they are bounded, which says that failures end in the
end. What is assumed beyond that:

* `MailDelivery`: the event loop runs every coroutine that can go on (asyncio
  does), the server works its queue off, and runs are started again (the
  schedule, or Sync now).
* `MailScan`: time passes, the host is started again, timers fire, and awaits
  return, each of which has a timeout in `source.py`.
* `MailResources`: awaits are scheduled, and every call into a library has a
  time limit, so the owner, the tasks and a close go on.
* `RelayWorker`: sessions keep being used, processes run, and a tunnel that is
  retried connects; killing and stopping are not fair.
* `RelaySupervisor`: the threads of a worker run, a CLI announces itself unless
  a fault silences it, the time the cloud is given passes, and connections end.
* `Services`: every process goes on, and a service that was started answers.
* `Setup`: the installer goes on, and what did not finish is run again.

## 4. Proofs

TLAPS proves, for every value of the constants:

| Theorem | Module | Says |
| --- | --- | --- |
| `TypeCorrect` | `MailDeliveryProofs` | `Spec => []TypeOK` |
| `QueueBounded` | `MailDeliveryProofs` | `Spec => []PreparedBound` |
| `IdleCurrent` | `MailDeliveryProofs` | `Spec => []IdleIsCurrent` |
| `OneLive` | `MailDeliveryProofs` | `Spec => []OneLiveOperation` |
| `PromiseKept` | `MailDeliveryProofs` | `Spec => OutcomePromise`, the refinement of `AcceptedOutcome` |
| `AvailableHolds` | `MailDeliveryProofs` | `Spec => []AcceptedAvailable`, if `"delete" \notin Faults` |
| `LabelsHold` | `MailDeliveryProofs` | `Spec => []LabelsKept`, if `"label" \notin Faults` |
| `TypeCorrect` | `RelayWorkerProofs` | `Spec => []TypeOK`, mutual exclusion of both locks included |
| `AlwaysReachable` | `RelayWorkerProofs` | `Spec => []Reachable` |
| `QuietStopHolds` | `RelayWorkerProofs` | `Spec => []QuietStop` |
| `ReadyHolds` | `RelaySupervisorProofs` | `Spec => []ReadyIsCurrent` |
| `ForwardsHolds` | `RelaySupervisorProofs` | `Spec => []ForwardsToCurrent` |
| `LeavesHolds` | `RelaySupervisorProofs` | `Spec => []LeavesNothing` |
| `PatientHolds` | `RelaySupervisorProofs` | `Spec => Patient`, an action property |
| `RuntimeKnownHolds` | `MailResourcesProofs` | `Spec => []RuntimeKnown` |
| `NothingForgottenHolds` | `MailResourcesProofs` | `Spec => []NothingForgotten`; of strays it says that no runtime was in one |
| `AttendedHoldsAlways` | `MailResourcesProofs` | `Spec => []Attended` |
| `OpenWasReadyHolds` | `MailResourcesProofs` | `Spec => []OpenWasReady` |
| `OneServerHolds` | `SessionCaptureProofs` | `Spec => OneServer`, an action property |
| `NotRetroactiveHolds` | `SessionCaptureProofs` | `Spec => []NotRetroactive` |
| `FreshIsSavedHolds` | `SessionCaptureProofs` | `Spec => []FreshIsSaved` |
| `TypeCorrect` | `MailScanProofs` | `Spec => []TypeOK` |
| `ScheduledHolds` | `MailScanProofs` | `Spec => []Scheduled`, if `"unavailable" \notin Faults` |
| `CursorUsableHolds` | `MailScanProofs` | `Spec => []CursorUsable` |
| `NothingMissedHolds` | `MailScanProofs` | `Spec => []NothingMissed`, if `"torn"` and `"shift"` `\notin Faults` |
| `HostReachableHolds` | `ServicesProofs` | `Spec => []HostReachable`; an exposed host may have no receipt |
| `TypeCorrect` | `ServicesProofs` | `Spec => []TypeOK` |
| `StopHoldsAlways` | `ServicesProofs` | `Spec => []StopHolds`, exposed hosts left out |
| `KeysAgreeAlways` | `ServicesProofs` | `Spec => []KeysAgree`, exposed hosts left out |
| `RuntimeKeptHolds` | `SetupProofs` | `Spec => []RuntimeKept` |
| `ServerCompleteHolds` | `SetupProofs` | `Spec => []ServerComplete` |
| `StaysStoppedHolds` | `SetupProofs` | `Spec => []StaysStopped` |
| `OptOutKeptHolds` | `SetupProofs` | `Spec => []OptOutKept` |
| `ApiIsCurrentHolds` | `SetupProofs` | `Spec => []ApiIsCurrent` |

They assume only what the modules assume of their constants
(`DeliveryAssumption`, `ScanAssumption`, `NoneAssumption`, `RelayAssumption`,
`SupervisorAssumption`, `ResourceAssumption`, `CaptureAssumption`,
`ServicesAssumption`, `SetupAssumption`), which TLC evaluates in the runs.
Four theorems exclude kinds of fault, because the property fails with them:
a document that somebody else deletes is not available; labels set during a
delivery are lost (finding `mail_label_race`); a connector that was not ready at
boot gets no scheduler (`adapter.py:138`); and a watermark can pass over a message
after a crash between two writes of `configure()` (`sync.py:217`) or behind a
`$skip` cursor that has lost a message in front of it (`sync.py:407`).

*Type correctness of delivery* is not inductive alone: an operation id is
applied to `operations[t]`, so a row with a payload must have one, and a request
carries `payload.tags`, which must have been computed. The invariant relates
the await a coroutine is at to the shape of its row.

*The queue bound.* Only `Prepare` adds to `Pending`, and it checks `Full` in the
same step; the proof is about cardinalities: one more element, and subsets
otherwise.

*Currency of idle rows.* `IdleIsCurrent` says nothing while a row is not idle,
so it is not inductive. `CurrentInv` says, in addition, what an unfinished row
and a suspended coroutine know: evidence held locally covers everything recorded
at the revision it was read at, and a payload that of its target revision. A
page recorded meanwhile raises the revision, and `Finish` compares revisions.

*One live operation.* The operations the server may still run are the pending
ones and those it has not seen whose request is under way. `LiveInv` says that
such an operation is the one on the row; that ids not yet minted are unknown to
the server; that the operation of a withdrawal is never sent; and that what a
coroutine has read as cancelled or completed is still so after its await. The
last part is what lets `Renewed` mint a new id: the old operation cannot run.

*The refinement.* `OutcomePromise` maps the newest accepted evidence and the
document to the variables of `AcceptedOutcome`. `EvidenceInv` says that a
payload was composed from newer evidence than was accepted, that its operation
and every request of it carry that evidence, and that the document shows it only
once the operation has ended. So a pending operation replaces an accepted or
older outcome, and `Finish` accepts what is shown. Every step is proved to map
to a step of the abstract specification or to a stutter. It needs `LiveInv`,
because any other live operation could replace the document a second time.

*Availability and labels.* `AvailableInv` says that an accepted document exists
unless its withdrawal is prepared. `LabelsInv` says that an operation the server
may know carries the tags of the row, and that tags and kept labels were read
from a document with the wanted labels. An interrupted attempt leaves both
on the row, so the next one writes the same labels.

*The relay.* `Reachable` follows from the lock: a serving worker holds
`worker.lock`, so nobody else can have written or removed the receipt since.
`QuietStop` needs `QuietInv`, which follows a stop from the switch over the
request to its return: while it is under way no caller can have passed the check
of the switch, so workers only leave.

*The supervisor.* `Supervised` says that at most one CLI runs and that it is the
one the supervisor remembers, `Reported` that whatever is announced came from a
line of it, `Dialed` that a connection that was made reached the CLI it was
accepted for or a program that took its port. `ForwardsToCurrent` needs all
three, because the check before the data flows looks at `upstream`, not at the
peer. `Counts` relates the supervisor's count of failures to the failures that
happened, for `Patient`.

*Mail session and runtimes.* `Locks` gives the session to one task at a time,
`Source` says that requests exist only while the source is open, `Asked` that
the queue holds a task at most once and only while it waits; so a new queue
loses nobody's request (`Attended`). `Runtimes` gives each task a runtime of its
own that the builder knows, and keeps strays apart from all of them: a new client
takes an identity that has no directory.

*One server.* The record of a session is the authority: `Recorded` says that a
hook past it has one, that only a record that permits saving gets a hook to the
point of saving, and that what was saved went to the server of the record unless
the record permits nothing any more. `Commands` says what a command has in hand
at each place, so that what a roll-back or a failed registration restores is a
state and a server.

*Not retroactive, and still saved.* `NotRetroactive` compares what a hook is
about to save with what its session has seen, but no hook reads the three places
together. The invariant follows the values instead: every epoch is minted once;
the epoch and the server of a record are those its session found; whatever ends a
permission is visible in one of the places from then on, or in the hands of a
command that may still put it back; and what such a command may restore was read
before or after, never across, the sessions that are not doubtful. One exchange of
servers at a time knows the server of a record. `FreshIsSaved` is the other
direction: a session that saw no pause and no change of server finds in all the
places what its record was made from.

*The scan.* Every step is one of seven kinds: a quiet one, one of the mailbox, a
page that is recorded, a window that is over, resumed or opened, or a
`configure()` that is whole or torn. `Sane` says what a run and an action hold at
each place. `Announced` carries `Scheduled`: without a scheduler the connector is
switched off, and so is what an action will leave behind. `Same` and `Usable`
carry `CursorUsable`: what a run holds while it waits is what is saved, and
`configure()` always leaves no window (`WrittenWindow`).

*No message missed.* A watermark is right because of everything that was read
before it was set, so `NothingMissed` needs three parts. `Covered`: what a
watermark has passed is recorded, is an error, or is younger than the overlap;
`Delivered`: the same of what lies behind the cursor of the folder that is being
read; `Retried`: a folder still to be read has its unreadable messages in front
of where reading starts. When the last page of a folder arrives, a message of its
history was received after the end, before the start (then the old watermark
covers it, and `Retried` excludes an error), or between them, where it was in the
page or behind the cursor (`FolderRead`). That a cursor loses nobody is a matter
of ranks in the list of the server, proved in the lemmas on `Remaining`
(`CursorOn`, `ArrivalBehind`, `DepartureBehind`). `Dates` says that no watermark
lies in the future and that the history is the lookback ago at least, so that a
smaller lookback cannot reach further back.

*Services.* For `HostReachable`, `OnePort` says that a host writes its receipt while
it owns the port, and `Overlap` that no host serves while another is about to remove
the receipt it has seen to be its own, but one that has overwritten that receipt
since and is `exposed`. `Findable` is a
host that is coming, or serves and is not exposed; the arguments below are about
these.

`StopHolds` and `KeysAgree` speak of the end, when every command is over; on the
way there, what matters is what each command has still to do. `Shaped` says it:
the steps left to a command have the shape of that command (which steps there can
be, what precedes what, what follows at once on what), in predicates on sequences
that still hold when the first step is taken off (`ShapeTail`), and that every
plan satisfies (`Shapes`). `Locked` and `Owned` say that whoever waits for a
service has its lock and has launched it, that nothing is coming without somebody
who waits, and that one host at most runs.

*A stop stays effective.* `Falling`: on a stopped installation everything that
runs has a process that `Clears` it, which has the stop of that service before it,
or a look at the flag with everything to stop behind it. A stop takes itself off
that list only by the step that stops the service. What is coming cannot be
stopped yet, but who waits for it covers it (`Guarded`). That a start covers what
it launches needs `Told`: a start that finds the flag set remembers that it was
set, so its roll-back stops everything, and a login task has `finally` before it
(`Rising`, `Risen`, `RaisedCovers`). `Users` limits overlapping commands to those
`history.undone` allows.

*Keys agree.* `Current` says that what runs, or is coming, has the settings of the
profile; it survives `Write` only if nothing runs then. `Silenced` says so: while
a share or an unshare has settings to write and no error, whatever runs is
something it has still to stop. `Single` keeps starts away in between. The error
is what makes it inductive: a step that fails to stop a service is followed by
no write, of an unshare as of a share.

*Set-up.* The parts of the invariant follow the places: `Progress` ties mode,
release and role to the place, `Runtimes` the three names of a runtime to the
renames, `Cluster` settings, data and database to the steps that make them,
`Held` and `OptOut` what the user has asked for to what may be undone, `Current`
the API to the release.

Each of `RelaySupervisorProofs`, `MailResourcesProofs`, `SessionCaptureProofs`
and `SetupProofs` proves the part of `TypeOK` its argument
needs and no more; the rest of these `TypeOK` documents the variables.

*Only model-checked.* Every invariant and every action property of the passing
runs is proved. Out of the prover's reach are the liveness properties (`EveryChangeAccepted`, `EveryMessageFound`,
`Answered`, `CloseEnds`, `Recovers`, `ComesBack`, `Ends`, `Completes`): it has no
rules for fairness and ENABLED.
Induction over data is out of reach too, and so are recursive operators; no
module here declares any.

## 5. Not modelled

* *Settings page* (`web/`): renders answers of the host and keeps no state the
  host depends on.
* *Device inventory* (`server.py`): each update of `clients.json` reads, changes
  and replaces the file under one lock with no await in between; one atomic step
  has no interleaving to check.
* *Repository routing and reads* (`memory/routing.py`, `memory/api.py`):
  functions of addresses and a gather under one deadline, without state of
  their own.
* *File helpers, account checks* (`platform/`): permissions and subprocess calls.
* *Release packaging, PowerShell and Node scripts*: run in sequence, once;
  `Setup` has the login task and the PostgreSQL installation by their effect.

Of the components that are modelled in part, these are left out:

* *Discovery*: previews, account and catalogue reads, and the catalogue of
  builder models, which change no state the scan depends on.
* *Outcome builder and filter*: the prompt, the check of quoted evidence and the
  classification of messages are functions of data; what build decides is a
  choice of `MailDelivery!Compose`.
* *Connect*: the text of an invitation, the sign-in of a relay and the tunnel
  specification (`relay.py:114-283`): calls of the CLI without state between
  them.
* *Connector host*: the pages and routes of its HTTP server.
* *API start*: the progress read from its log.
* *PostgreSQL set-up and installer*: the choice of a port, passwords, the SQL of
  extensions, options and their validation, and the skills and instructions
  written into editors.
* *MCP server*: its tools, and the scope it pins on first use.
