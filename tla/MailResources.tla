---------------------------- MODULE MailResources ----------------------------
(***************************************************************************)
(* The processes a mail sync keeps outside itself: one WorkIQ session,     *)
(* owned by a task of its own that answers queued requests                 *)
(* (connectors/workiq/source.py), and one model runtime per prepared       *)
(* conversation, each in a temporary directory (outcome.py, filter.py).    *)
(*                                                                         *)
(* The tasks that use them are discoveries and thread preparations         *)
(* (sync.py); they run between awaits, may be cancelled at every one of    *)
(* them, and take the session in turn under _source_lock.  What MailSync   *)
(* stores is the matter of MailDelivery and MailScan.  The session and     *)
(* the runtimes are programs of others: a failure of theirs is a Fault.    *)
(***************************************************************************)
EXTENDS Naturals, Sequences, FiniteSets

CONSTANTS
  Task,       \* discoveries and thread preparations at a time
  Client,     \* bound: model runtimes that are remembered
  None,
  MaxLinks,   \* the page limit of folders() and thread()
  MaxFaults,  \* bound: failures and cancellations
  Faults      \* the kinds that may happen

FaultKind == {"start", "dead", "torn", "refuse", "create", "model", "stop", "force",
              "rmtree", "cancel"}

ASSUME ResourceAssumption == /\ None \notin Task \cup Client /\ Task \cap {"gone", "close"} = {}
                             /\ MaxLinks \in Nat \ {0} /\ MaxFaults \in Nat
                             /\ Faults \subseteq FaultKind

VARIABLES
  sync,        \* MailSync: open, closing its tasks, cleaning up, closed; or gone with the host
  sourceOpen,  \* _source_open
  lock,        \* the task that holds _source_lock
  owner,       \* the owner task of the session
  ready,       \* the future of __aenter__
  session,     \* the WorkIQ process answers
  queue,       \* requests of tasks; Gone stands for a cancelled one, Close for None
  serving,     \* the request the owner works on
  torn,        \* requests the owner died with
  task,        \* where each task is
  job,         \* discover or thread
  links,       \* pages a task has asked for
  doomed,      \* tasks that were cancelled
  uses,        \* the runtime of a task
  clients,     \* _clients: runtimes the builder still has to stop
  up,          \* runtimes that run
  dirs,        \* runtimes whose directory exists
  unclean,     \* runtimes a close has reported it could not clean up
  strays,      \* directories left where no client could be created
  faults

mail == <<sourceOpen, owner, ready, session, queue, serving, torn>>
tasks == <<task, job, links, doomed, uses, lock>>
runtimes == <<clients, up, dirs, unclean, strays>>
vars == <<sync, mail, tasks, runtimes, faults>>

Gone == "gone"
Close == "close"

\* The places of a task that holds the lock.
Reading == {"opening", "abandoning", "waiting", "answered", "failed"}

Request == Task \cup {Gone, Close}

TypeOK ==
  /\ sync \in {"open", "closing", "cleaning", "closed", "gone"}
  /\ sourceOpen \in BOOLEAN /\ session \in BOOLEAN
  /\ owner \in {"none", "starting", "serving", "busy", "leaving", "done"}
  /\ ready \in {"pending", "ok", "failed", "cancelled"}
  /\ queue \in Seq(Request) /\ serving \in Task \cup {None, Gone}
  /\ torn \subseteq Task
  /\ task \in [Task -> Reading \cup {"idle", "lock", "read", "starting", "first", "second",
                                     "stopping", "forcing"}]
  /\ job \in [Task -> {"discover", "thread"}]
  /\ links \in [Task -> 0..MaxLinks]
  /\ doomed \subseteq Task
  /\ uses \in [Task -> Client \cup {None}]
  /\ clients \subseteq Client /\ up \subseteq Client /\ dirs \subseteq Client
  /\ unclean \subseteq Client /\ strays \subseteq Client
  /\ faults \in 0..MaxFaults
  \* One task at a time reads mail, and the owner has what it waits for.
  /\ \A t \in Task : lock = t <=> task[t] \in Reading
  /\ serving # None => owner = "busy"

Init ==
  /\ sync = "closed" /\ sourceOpen = FALSE /\ lock = None
  /\ owner = "none" /\ ready = "pending" /\ session = FALSE
  /\ queue = <<>> /\ serving = None /\ torn = {}
  /\ task = [t \in Task |-> "idle"] /\ job = [t \in Task |-> "discover"]
  /\ links = [t \in Task |-> 0] /\ doomed = {} /\ uses = [t \in Task |-> None]
  /\ clients = {} /\ up = {} /\ dirs = {} /\ unclean = {} /\ strays = {}
  /\ faults = 0

Fault(kind) == /\ kind \in Faults
               /\ faults < MaxFaults
               /\ faults' = faults + 1

Goto(t, place) == task' = [task EXCEPT ![t] = place]

\* A task is over, whatever it held.
Over(t) == /\ Goto(t, "idle")
           /\ doomed' = doomed \ {t}
           /\ links' = [links EXCEPT ![t] = 0]
           /\ lock' = IF lock = t THEN None ELSE lock
           /\ torn' = torn \ {t}

-----------------------------------------------------------------------------
(* The owner of the session *)

\* _serve fails: whoever waits in the queue gets the error.
Drain == [t \in Task |-> IF task[t] = "waiting" /\ \E i \in DOMAIN queue : queue[i] = t
                         THEN "failed" ELSE task[t]]

\* Defect: the queue is left as it is.
AbandonQueue == /\ owner' = "done" /\ session' = FALSE
                /\ queue' = <<>>
                /\ UNCHANGED task

OwnerFails == /\ owner' = "done" /\ session' = FALSE
              /\ task' = Drain
              /\ queue' = <<>>

\* Two sessions are opened in turn, the second bound to the account of the first.
\* Nobody may wait for that any more.
Started ==
  /\ owner = "starting"
  /\ IF ready = "pending"
     THEN ready' = "ok" /\ owner' = "serving" /\ session' = TRUE /\ UNCHANGED <<queue, task>>
     ELSE OwnerFails /\ UNCHANGED ready
  /\ UNCHANGED <<sync, sourceOpen, serving, torn, lock, job, links, doomed, uses, runtimes, faults>>

StartFails ==
  /\ owner = "starting"
  /\ Fault("start")
  /\ ready' = IF ready = "pending" THEN "failed" ELSE ready
  /\ OwnerFails
  /\ UNCHANGED <<sync, sourceOpen, serving, torn, lock, job, links, doomed, uses, runtimes>>

\* Defect: the owner does not know the request to close.
GetDeaf ==
  /\ owner = "serving" /\ queue # <<>>
  /\ queue' = Tail(queue)
  /\ IF Head(queue) \in Task THEN owner' = "busy" /\ serving' = Head(queue)
     ELSE UNCHANGED <<owner, serving>>
  /\ UNCHANGED <<sync, sourceOpen, ready, session, torn, tasks, runtimes, faults>>

Get ==
  /\ owner = "serving" /\ queue # <<>>
  /\ queue' = Tail(queue)
  /\ CASE Head(queue) = Close -> owner' = "leaving" /\ UNCHANGED serving
       [] Head(queue) = Gone -> UNCHANGED <<owner, serving>>
       [] OTHER -> owner' = "busy" /\ serving' = Head(queue)
  /\ UNCHANGED <<sync, sourceOpen, ready, session, torn, tasks, runtimes, faults>>

\* An account is read in a session of its own; pages need the bound one.
Reply(t) == session \/ (job[t] = "discover" /\ links[t] = 1)

\* The answer of WorkIQ, or its error, becomes the result of the request.
Answer ==
  /\ owner = "busy"
  /\ owner' = "serving" /\ serving' = None
  /\ IF serving = Gone THEN UNCHANGED <<task, faults>>
     ELSE \/ Reply(serving) /\ Goto(serving, "answered") /\ UNCHANGED faults
          \/ ~Reply(serving) /\ Goto(serving, "failed") /\ UNCHANGED faults
          \/ Fault("refuse") /\ Goto(serving, "failed")
  /\ UNCHANGED <<sync, sourceOpen, ready, session, queue, torn, lock, job, links, doomed, uses, runtimes>>

\* WorkIQ dies between requests: the owner does not notice.
SessionDies ==
  /\ session
  /\ Fault("dead")
  /\ session' = FALSE
  /\ UNCHANGED <<sync, sourceOpen, owner, ready, queue, serving, torn, tasks, runtimes>>

\* The transport breaks down and takes the owner with it; of the request it was
\* working on, nobody hears again.
Tear ==
  /\ owner \in {"serving", "busy"}
  /\ Fault("torn")
  /\ OwnerFails
  /\ serving' = None
  /\ torn' = torn \cup ({serving} \cap Task)
  /\ UNCHANGED <<sync, sourceOpen, ready, lock, job, links, doomed, uses, runtimes>>

OwnerLeaves ==
  /\ owner = "leaving"
  /\ owner' = "done" /\ session' = FALSE
  /\ UNCHANGED <<sync, sourceOpen, ready, queue, serving, torn, tasks, runtimes, faults>>

-----------------------------------------------------------------------------
(* Tasks: _source_lock, _open_source, _fetch *)

\* A discovery; or, once the discovery of a run has opened the source, a thread.
Begin(t) ==
  /\ sync = "open" /\ task[t] = "idle"
  /\ \E j \in {"discover", "thread"} :
       /\ j = "thread" => sourceOpen
       /\ job' = [job EXCEPT ![t] = j]
  /\ Goto(t, "lock")
  /\ UNCHANGED <<sync, mail, links, doomed, uses, lock, runtimes, faults>>

\* _fetch: refused without an owner, else queued.
Ask(t) ==
  /\ links' = [links EXCEPT ![t] = @ + 1]
  /\ IF owner \in {"none", "done"} THEN Goto(t, "failed") /\ UNCHANGED queue
     ELSE Goto(t, "waiting") /\ queue' = Append(queue, t)

\* Under the lock of discover() the source is opened if it never was: __aenter__ starts the
\* owner with an empty queue.
Lock(t) ==
  /\ task[t] = "lock" /\ lock = None
  /\ lock' = t
  /\ IF job[t] = "discover" /\ ~sourceOpen
     THEN /\ owner' = "starting" /\ ready' = "pending" /\ queue' = <<>>
          /\ Goto(t, "opening")
          /\ UNCHANGED links
     ELSE Ask(t) /\ UNCHANGED <<owner, ready>>
  /\ UNCHANGED <<sync, sourceOpen, session, serving, torn, job, doomed, uses, runtimes, faults>>

\* Defect: the source counts as open although it is not.
OpenedAnyway(t) ==
  /\ task[t] = "opening" /\ ready # "pending"
  /\ sourceOpen' = TRUE
  /\ Ask(t)
  /\ UNCHANGED <<sync, owner, ready, session, serving, torn, lock, job, doomed, uses, runtimes, faults>>

\* __aenter__: ready, or closed again.
Opened(t) ==
  /\ task[t] = "opening" /\ ready # "pending"
  /\ IF ready = "ok" THEN sourceOpen' = TRUE /\ Ask(t)
     ELSE /\ Goto(t, "abandoning")
          /\ queue' = Append(queue, Close)
          /\ UNCHANGED <<links, sourceOpen>>
  /\ UNCHANGED <<sync, owner, ready, session, serving, torn, lock, job, doomed, uses, runtimes, faults>>

\* close() waits for the owner; then __aenter__ raises.
Abandoned(t) ==
  /\ task[t] = "abandoning" /\ owner = "done"
  /\ owner' = "none" /\ queue' = <<>>
  /\ Over(t)
  /\ UNCHANGED <<sync, sourceOpen, ready, session, serving, job, uses, runtimes, faults>>

\* Another page; complete; or too many of them.
More(t) ==
  /\ task[t] = "answered" /\ links[t] < MaxLinks
  /\ Ask(t)
  /\ UNCHANGED <<sync, sourceOpen, owner, ready, session, serving, torn, job, doomed, uses, lock, runtimes, faults>>

Complete(t) ==
  /\ task[t] = "answered"
  /\ IF job[t] = "discover" \/ links[t] = MaxLinks
     THEN Over(t)
     ELSE /\ Goto(t, "read")
          /\ lock' = None /\ links' = [links EXCEPT ![t] = 0]
          /\ UNCHANGED <<doomed, torn>>
  /\ UNCHANGED <<sync, sourceOpen, owner, ready, session, queue, serving, job, uses, runtimes, faults>>

FetchFailed(t) ==
  /\ task[t] = "failed"
  /\ Over(t)
  /\ UNCHANGED <<sync, sourceOpen, owner, ready, session, queue, serving, job, uses, runtimes, faults>>

-----------------------------------------------------------------------------
(* OutcomeBuilder._session and _stop_client *)

\* _runtime_directory, when no client has come to own the directory: it goes at once.  If
\* that fails as well it stays, and neither _directories nor a close knows of it.
NotCreated ==
  \/ Fault("create") /\ UNCHANGED <<dirs, strays>>
  \/ /\ {"create", "rmtree"} \subseteq Faults
     /\ faults + 1 < MaxFaults /\ faults' = faults + 2
     /\ \E c \in Client \ (clients \cup up \cup dirs) :
          dirs' = dirs \cup {c} /\ strays' = strays \cup {c}

\* A directory, the account copied into it, and a client in it.
NewClient(t) ==
  /\ task[t] = "read"
  /\ \/ \E c \in Client \ (clients \cup up \cup dirs) :
          /\ clients' = clients \cup {c} /\ dirs' = dirs \cup {c}
          /\ uses' = [uses EXCEPT ![t] = c]
          /\ Goto(t, "starting")
          /\ UNCHANGED <<doomed, links, lock, torn, strays, faults>>
     \/ NotCreated /\ Over(t) /\ UNCHANGED <<clients, uses>>
  /\ UNCHANGED <<sync, sourceOpen, owner, ready, session, queue, serving, job, up, unclean>>

\* start() and create_session(); one of two attempts; the end of the last one.
Model(t) ==
  /\ task[t] \in {"starting", "first", "second"}
  /\ up' = IF task[t] = "starting" THEN up \cup {uses[t]} ELSE up
  /\ \/ task[t] = "starting" /\ Goto(t, "first")
     \/ task[t] = "first" /\ Goto(t, "second")
     \/ task[t] # "starting" /\ Goto(t, "stopping")
  /\ UNCHANGED <<sync, mail, job, links, doomed, uses, lock, clients, dirs, unclean, strays, faults>>

\* A start, a session or an answer fails; a runtime may run by then.
ModelFails(t) ==
  /\ task[t] \in {"starting", "first", "second"}
  /\ Fault("model")
  /\ \/ up' = up \cup {uses[t]} \/ UNCHANGED up
  /\ Goto(t, "stopping")
  /\ UNCHANGED <<sync, mail, job, links, doomed, uses, lock, clients, dirs, unclean, strays>>

\* Defect: the client is forgotten before its directory is removed.
ReleaseEarly(c) ==
  /\ clients' = clients \ {c}
  /\ \/ dirs' = dirs \ {c} /\ UNCHANGED faults
     \/ Fault("rmtree") /\ UNCHANGED dirs

\* _release_client: the directory is removed, then the client is forgotten.
Release(c) ==
  \/ clients' = clients \ {c} /\ dirs' = dirs \ {c} /\ UNCHANGED faults
  \/ Fault("rmtree") /\ UNCHANGED <<clients, dirs>>

Leave(t) == Over(t) /\ uses' = [uses EXCEPT ![t] = None]

\* client.stop() succeeds; or the task goes on to force it.
StopClient(t) ==
  /\ task[t] = "stopping"
  /\ \/ up' = up \ {uses[t]} /\ Release(uses[t]) /\ Leave(t)
     \/ /\ Fault("stop") /\ Goto(t, "forcing")
        /\ UNCHANGED <<doomed, links, lock, torn, uses, clients, up, dirs>>
  /\ UNCHANGED <<sync, sourceOpen, owner, ready, session, queue, serving, job, unclean, strays>>

\* Defect: a runtime that does not stop loses its directory.
ForceAnyway(t) ==
  /\ task[t] = "forcing"
  /\ \/ up' = up \ {uses[t]} /\ Release(uses[t])
     \/ Fault("force") /\ clients' = clients \ {uses[t]} /\ dirs' = dirs \ {uses[t]} /\ UNCHANGED up
  /\ Leave(t)
  /\ UNCHANGED <<sync, sourceOpen, owner, ready, session, queue, serving, job, unclean, strays>>

\* force_stop(), shielded from cancellation; if it fails, the client stays known.
ForceStop(t) ==
  /\ task[t] = "forcing"
  /\ \/ up' = up \ {uses[t]} /\ Release(uses[t])
     \/ Fault("force") /\ UNCHANGED <<clients, up, dirs>>
  /\ Leave(t)
  /\ UNCHANGED <<sync, sourceOpen, owner, ready, session, queue, serving, job, unclean, strays>>

-----------------------------------------------------------------------------
(* Cancellation, close *)

\* What an await does when its task is cancelled.
Cancelled(t) ==
  \/ /\ task[t] \in {"lock", "read", "answered", "failed"}
     /\ Over(t)
     /\ UNCHANGED <<uses, owner, ready, queue, serving>>
  \/ /\ task[t] = "waiting"
     /\ Over(t)
     /\ queue' = [i \in DOMAIN queue |-> IF queue[i] = t THEN Gone ELSE queue[i]]
     /\ serving' = IF serving = t THEN Gone ELSE serving
     /\ UNCHANGED <<uses, owner, ready>>
  \/ /\ task[t] = "opening"
     /\ ready' = IF ready = "pending" THEN "cancelled" ELSE ready
     /\ Goto(t, "abandoning")
     /\ queue' = Append(queue, Close)
     /\ doomed' = doomed \cup {t}
     /\ UNCHANGED <<uses, owner, serving, links, lock, torn>>
  \/ /\ task[t] = "abandoning"
     /\ owner' = "none" /\ queue' = <<>>
     /\ Over(t)
     /\ UNCHANGED <<uses, ready, serving>>
  \/ /\ task[t] \in {"starting", "first", "second", "stopping", "forcing"}
     /\ Goto(t, "forcing")
     /\ doomed' = doomed \cup {t}
     /\ UNCHANGED <<uses, owner, ready, queue, serving, links, lock, torn>>

\* Pause, or an error of another task of the run.
Cancel(t) ==
  /\ task[t] # "idle"
  /\ Fault("cancel")
  /\ Cancelled(t)
  /\ UNCHANGED <<sync, sourceOpen, session, job, runtimes>>

CloseSync ==
  /\ sync = "open"
  /\ sync' = "closing"
  /\ UNCHANGED <<mail, tasks, runtimes, faults>>

\* Every task is cancelled once.
CloseCancels(t) ==
  /\ sync = "closing" /\ task[t] # "idle" /\ t \notin doomed
  /\ Cancelled(t)
  /\ UNCHANGED <<sync, sourceOpen, session, job, runtimes, faults>>

\* All tasks are over: the source is told to close.
CloseSource ==
  /\ sync = "closing" /\ \A t \in Task : task[t] = "idle"
  /\ sync' = "cleaning"
  /\ queue' = IF sourceOpen /\ owner # "done" THEN Append(queue, Close) ELSE queue
  /\ UNCHANGED <<sourceOpen, owner, ready, session, serving, torn, tasks, runtimes, faults>>

\* OutcomeBuilder.close() stops what is left of each client.
CloseClient(c) ==
  /\ sync = "cleaning" /\ c \in clients \ unclean
  /\ \/ up' = up \ {c} /\ clients' = clients \ {c} /\ dirs' = dirs \ {c} /\ UNCHANGED <<unclean, faults>>
     \/ up' = up \ {c} /\ Fault("rmtree") /\ unclean' = unclean \cup {c} /\ UNCHANGED <<clients, dirs>>
     \/ Fault("force") /\ unclean' = unclean \cup {c} /\ UNCHANGED <<clients, up, dirs>>
  /\ UNCHANGED <<sync, mail, tasks, strays>>

\* The end of close(): what it could not clean up it reports.
Closed ==
  /\ sync = "cleaning" /\ clients \subseteq unclean
  /\ sourceOpen => owner = "done"
  /\ sync' = "closed" /\ clients' = {}
  /\ sourceOpen' = FALSE /\ owner' = "none" /\ ready' = "pending" /\ queue' = <<>>
  /\ UNCHANGED <<session, serving, torn, tasks, up, dirs, unclean, strays, faults>>

\* Adapter._load; or the host stops for good.
Load ==
  /\ sync = "closed"
  /\ sync' \in {"open", "gone"}
  /\ UNCHANGED <<mail, tasks, runtimes, faults>>

Own == Started \/ Get \/ Answer \/ OwnerLeaves

Run(t) == \/ Lock(t) \/ Opened(t) \/ Abandoned(t) \/ More(t) \/ Complete(t) \/ FetchFailed(t)
          \/ NewClient(t) \/ Model(t) \/ StopClient(t) \/ ForceStop(t)

Closing == CloseSource \/ Closed \/ (\E c \in Client : CloseClient(c)) \/ (\E t \in Task : CloseCancels(t))

Next == \/ Own \/ StartFails \/ SessionDies \/ Tear
        \/ \E t \in Task : Begin(t) \/ Run(t) \/ ModelFails(t) \/ Cancel(t)
        \/ CloseSync \/ Closing \/ Load

Spec == Init /\ [][Next]_vars

\* Awaits of the loop are scheduled, and every call of a library has a time limit.
Fairness == /\ WF_vars(Own) /\ WF_vars(Closing)
            /\ \A t \in Task : WF_vars(Run(t))

FairSpec == Spec /\ Fairness

-----------------------------------------------------------------------------
(* What it promises *)

\* A model runtime that runs has its directory, and the builder that started it can
\* still stop it, unless a close has reported it.
RuntimeKnown == up \subseteq dirs /\ up \subseteq clients \cup unclean

\* Nothing is left of a runtime nobody can clean up any more: the directory of every runtime
\* the builder has created belongs to a client of its own, or a close has reported it.  It says
\* nothing of a directory in which no client could be created and which could not be removed
\* at that moment either (strays): such a one never belonged to a runtime.
NothingForgotten == /\ dirs \subseteq clients \cup unclean \cup strays
                    /\ strays \cap (clients \cup up) = {}

\* Who waits for mail is in the queue or being served, or the owner broke down with
\* its request.
Attended == \A t \in Task : task[t] = "waiting" =>
              serving = t \/ t \in torn \/ (\E i \in DOMAIN queue : queue[i] = t)

\* A source that counts as open has been ready: after a failed or cancelled opening the
\* next discovery opens it again, and no second owner is started beside the first.
OpenWasReady == sourceOpen => ready = "ok" /\ owner \notin {"none", "starting"}

\* A request is answered, refused or cancelled, unless the transport broke down with it.
Answered == \A t \in Task : task[t] = "waiting" ~> (task[t] # "waiting" \/ t \in torn)

\* A close comes to its end, whatever its tasks wait for.
CloseEnds == sync = "closing" ~> sync = "closed"

=============================================================================
