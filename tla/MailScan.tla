------------------------------ MODULE MailScan ------------------------------
(***************************************************************************)
(* The discovery half of the WorkIQ mail connector (connectors/workiq):    *)
(* the windows, watermarks and cursors of a scan, the run that performs    *)
(* it, the scheduler, and the actions of the settings page, which          *)
(* adapter.py admits one at a time.  What a run does with the              *)
(* conversations it found is MailDelivery; here it is one await.           *)
(*                                                                         *)
(* Runs, the scheduler and an action are coroutines of one process: what   *)
(* is between two awaits is one action.  The settings table survives the   *)
(* process; a run's local copies of it do not, and can be out of date.     *)
(* The interval is positive.  Time is in ticks; a message is visible some  *)
(* time after it was received.                                             *)
(***************************************************************************)
EXTENDS Integers, FiniteSets, FiniteSetsExt

CONSTANTS
  Folder,        \* mail folders, numbered in the order of folder_ids
  Message,       \* messages, numbered in the order the server lists them
  None,          \* JSON null, and an absent setting
  Lookback,      \* lookback_days a user may choose
  Overlap,       \* OVERLAP, six hours
  Delay,         \* external: how late a received message becomes visible
  PageSize,      \* messages on a page
  Start0,        \* bound: the clock at the beginning
  MaxNow,        \* bound: the clock
  MaxFaults,     \* bound: failures, crashes and actions in a behaviour
  Faults         \* the kinds that may happen

FaultKind == {"source", "systemic", "identity", "crash", "configure", "pause", "start",
              "builder", "torn", "unavailable", "shift"}

ASSUME ScanAssumption ==
  /\ Folder \subseteq Nat /\ IsFiniteSet(Folder)
  /\ Message \subseteq Nat /\ IsFiniteSet(Message)
  /\ Lookback \subseteq Nat \ {0} /\ Lookback # {}
  /\ Overlap \in Nat /\ Delay \in 0..Overlap
  /\ PageSize \in Nat \ {0}
  /\ Start0 \in Nat /\ \A days \in Lookback : days <= Start0
  /\ MaxNow \in Nat /\ Start0 <= MaxNow /\ MaxFaults \in Nat
  /\ Faults \subseteq FaultKind
  /\ None \notin Nat

VARIABLES
  now,        \* the clock
  mail,       \* external: the mailbox
  saved,      \* the connector's settings, sources and discovery_errors
  task,       \* the coroutine of the current run
  action,     \* the action of the settings page in progress
  host,       \* the connector process: down, or up with the connector loaded
  promised,   \* the history the user has last been told is configured; or Nothing, see Promised
  faults      \* failures, crashes and actions so far

vars == <<now, mail, saved, task, action, host, promised, faults>>

-----------------------------------------------------------------------------

Time == 0..MaxNow
Config == [folders : SUBSET Folder, lookback : Lookback, enabled : BOOLEAN]
Cursor == [start : Time, by : {"skip", "token"}, at : Nat]
Window == [end : Time, todo : SUBSET Folder, next : Cursor \cup {None}]

\* due: run["next_run"] is set.  "idle" stands for every way a run may end
\* that leaves the schedule alone: idle, partial and error.
Saved == [config : Config, history : Time \cup {None}, marks : [Folder -> Time \cup {None}],
          window : Window \cup {None}, sources : SUBSET Message, errors : SUBSET Message,
          state : {"idle", "queued", "running", "stopping", "paused"},
          due : BOOLEAN]

ASSUME NoneAssumption == /\ None \notin Config /\ None \notin Cursor /\ None \notin Window
                         /\ None \notin [Folder -> Time \cup {None}]

NoTask == [at |-> "off", window |-> None, marks |-> None, start |-> None, cancelled |-> FALSE]
NoAction == [at |-> "off", base |-> None, updated |-> None, model |-> FALSE]
NoMarks == [f \in Folder |-> None]

\* A history without messages.
Nothing == MaxNow + 1

TypeOK ==
  /\ now \in Time
  /\ mail \in [Message -> [folder : Folder \cup {None}, received : Time, whole : BOOLEAN,
                           since : Time, present : BOOLEAN]]
  /\ saved \in Saved
  /\ task \in [at : {"off", "queued", "discover", "bank", "page", "threads"},
               window : Window \cup {None}, marks : [Folder -> Time \cup {None}] \cup {None},
               start : Time \cup {None}, cancelled : BOOLEAN]
  /\ action \in [at : {"off", "pause", "reconfigure", "closing"}, base : Config \cup {None},
                 updated : Config \cup {None}, model : BOOLEAN]
  /\ host \in [up : BOOLEAN, loaded : BOOLEAN, scheduler : BOOLEAN]
  /\ promised \in Time \cup {None, Nothing}
  /\ faults \in 0..MaxFaults

Down == [up |-> FALSE, loaded |-> FALSE, scheduler |-> FALSE]

\* since: from when on the message is visible and has its identity.
NoMail == [folder |-> None, received |-> 0, whole |-> FALSE, since |-> 0, present |-> FALSE]

\* Messages that were there before the connector was set up.
Existing == [folder : Folder, received : 1..(Start0 - 1), whole : BOOLEAN, since : {0},
             present : {TRUE}]

\* A connector that is enabled and has not run yet.
Init ==
  /\ now = Start0
  /\ mail \in [Message -> Existing \cup {NoMail}]
  /\ \E folders \in SUBSET Folder \ {{}}, days \in Lookback :
       saved = [config |-> [folders |-> folders, lookback |-> days, enabled |-> TRUE],
                history |-> None, marks |-> NoMarks, window |-> None, sources |-> {},
                errors |-> {}, state |-> "idle", due |-> FALSE]
  /\ task = NoTask
  /\ action = NoAction
  /\ host = Down
  /\ promised = None
  /\ faults = 0

\* Every kind of failure and every action is counted against one bound.
Fault(kind) == /\ kind \in Faults
               /\ faults < MaxFaults
               /\ faults' = faults + 1

\* Bound: an action that waits for the builder counts twice.
FaultTwice(kind) == /\ kind \in Faults
                    /\ faults + 2 <= MaxFaults
                    /\ faults' = faults + 2

-----------------------------------------------------------------------------
(* The mailbox *)

Tick == /\ now < MaxNow
        /\ now' = now + 1
        /\ UNCHANGED <<mail, saved, task, action, host, promised, faults>>

\* A message, possibly without the identity Outlook gives it, becomes visible.
Arrive(m) ==
  /\ mail[m].folder = None
  /\ \E f \in Folder, late \in 0..Delay, whole \in BOOLEAN :
       /\ late <= now
       /\ mail' = [mail EXCEPT ![m] = [folder |-> f, received |-> now - late, whole |-> whole,
                                       since |-> IF whole THEN now ELSE 0, present |-> TRUE]]
  /\ UNCHANGED <<now, saved, task, action, host, promised, faults>>

Repair(m) ==
  /\ mail[m].present /\ ~mail[m].whole
  /\ mail' = [mail EXCEPT ![m].whole = TRUE, ![m].since = now]
  /\ UNCHANGED <<now, saved, task, action, host, promised, faults>>

\* A $skip cursor counts messages: one that goes away shifts those behind it.
Skipping == \/ saved.window # None /\ saved.window.next # None
               /\ saved.window.next.by = "skip"
            \/ task.window # None /\ task.window.next # None
               /\ task.window.next.by = "skip"

Leave(m) ==
  /\ mail[m].present
  /\ "shift" \in Faults \/ ~Skipping
  /\ mail' = [mail EXCEPT ![m] = [NoMail EXCEPT !.folder = mail[m].folder]]
  /\ UNCHANGED <<now, saved, task, action, host, promised, faults>>

-----------------------------------------------------------------------------
(* MailSync: opening, launching, the scheduler *)

\* __init__: a run that died with its process is paused.
Opened(db) == IF db.state \in {"running", "queued"} THEN [db EXCEPT !.state = "paused"] ELSE db

\* adapter._load.
Current == IF host.loaded THEN saved ELSE Opened(saved)
Loaded == [host EXCEPT !.loaded = TRUE]

\* Defect: an enabled connector is started, but its schedule is not.
BootedWithoutSchedule == Loaded

Booted == [Loaded EXCEPT !.scheduler = TRUE]

Queued(db) == [db EXCEPT !.state = "queued", !.due = FALSE]

Launched(db) == /\ saved' = IF task.at = "off" THEN Queued(db) ELSE db
                /\ task' = IF task.at = "off" THEN [NoTask EXCEPT !.at = "queued"] ELSE task

\* The host resumes an enabled connector whose executable is in place.
Boot ==
  /\ ~host.up
  /\ \/ /\ saved.config.enabled
        /\ Launched(Opened(saved))
        /\ host' = [Booted EXCEPT !.up = TRUE]
        /\ UNCHANGED faults
     \/ /\ saved.config.enabled => Fault("unavailable")
        /\ ~saved.config.enabled => UNCHANGED faults
        /\ host' = [Down EXCEPT !.up = TRUE]
        /\ UNCHANGED <<saved, task>>
  /\ UNCHANGED <<now, mail, action, promised>>

\* _schedule.
Schedule ==
  /\ host.scheduler
  /\ saved.config.enabled /\ saved.due
  /\ task.at = "off"
  /\ Launched(saved)
  /\ UNCHANGED <<now, mail, action, host, promised, faults>>

Ready == host.up /\ action.at = "off"

Start ==
  /\ Ready
  /\ Fault("start")
  /\ saved.config.folders # {}
  /\ Launched([Current EXCEPT !.config.enabled = TRUE])
  /\ host' = Booted
  /\ UNCHANGED <<now, mail, action, promised>>

Sync ==
  /\ Ready
  /\ Fault("start")
  /\ saved.config.folders # {}
  /\ Launched(Current)
  /\ host' = Loaded
  /\ UNCHANGED <<now, mail, action, promised>>

-----------------------------------------------------------------------------
(* pause and configure *)

Stopping(db) == [db EXCEPT !.config.enabled = FALSE, !.state = "stopping", !.due = FALSE]

Paused(db) == [db EXCEPT !.config.enabled = FALSE, !.state = "paused", !.due = FALSE]

\* The adapter closes the connector after pausing it.
Pause ==
  /\ Ready
  /\ Fault("pause")
  /\ IF task.at = "off"
     THEN /\ saved' = Paused(Current)
          /\ host' = [Down EXCEPT !.up = TRUE]
          /\ UNCHANGED <<task, action>>
     ELSE /\ saved' = Stopping(saved)
          /\ task' = [task EXCEPT !.cancelled = TRUE]
          /\ action' = [NoAction EXCEPT !.at = "pause"]
          /\ UNCHANGED host
  /\ UNCHANGED <<now, mail, promised>>

\* Defect: the cursor of the previous history is kept.
WritesKeepingWindow(db, base, updated) ==
  LET changed == updated.lookback # base.lookback /\ db.history # None
      history == IF changed THEN [db EXCEPT !.history = now - updated.lookback,
                                            !.marks = NoMarks] ELSE db
      window == IF updated.folders # base.folders
                THEN [history EXCEPT !.window = None] ELSE history
  IN <<db, history, history, window,
       [window EXCEPT !.config = updated, !.due = updated.enabled]>>

\* The settings after 1, 2, ... of configure()'s writes, each a transaction.
Writes(db, base, updated) ==
  LET wider == updated.lookback > base.lookback /\ db.history # None
      narrower == updated.lookback < base.lookback /\ db.history # None
      from == now - updated.lookback
      folders == IF updated.folders # base.folders THEN [db EXCEPT !.window = None] ELSE db
      history == CASE wider -> [folders EXCEPT !.history = IF from < @ THEN from ELSE @]
                   [] narrower -> [folders EXCEPT !.history = from]
                   [] OTHER -> folders
      marks == IF wider THEN [history EXCEPT !.marks = NoMarks] ELSE history
      window == IF wider \/ narrower THEN [marks EXCEPT !.window = None] ELSE marks
  IN <<folders, history, marks, window,
       [window EXCEPT !.config = updated, !.due = updated.enabled]>>

\* What configure() promises.  A run that was started while it waited writes its old window and
\* watermarks back, and a process that dies leaves some settings old: nothing is promised then
\* until the watermarks have been reset.
Promised(db) ==
  IF task.at # "off" \/ (promised = Nothing /\ db.marks # NoMarks) THEN Nothing ELSE db.history

\* All of configure()'s writes; or the process dies between two of them.
Write(db, base, updated, model) ==
  \/ /\ saved' = Writes(db, base, updated)[5]
     /\ promised' = Promised(saved')
     /\ action' = NoAction
     /\ host' = Loaded
     /\ UNCHANGED task
  \/ /\ "torn" \in Faults
     /\ \E k \in 1..4 : saved' = Writes(db, base, updated)[k]
     /\ action' = NoAction
     /\ task' = NoTask
     /\ host' = Down
     /\ promised' = Nothing

Configure ==
  /\ Ready
  /\ \E folders \in SUBSET Folder, days \in Lookback, model \in BOOLEAN :
       LET base == saved.config
           updated == [base EXCEPT !.folders = folders, !.lookback = days]
       IN /\ updated # base
          /\ IF model THEN FaultTwice("builder") ELSE Fault("configure")
          /\ CASE task.at # "off" ->
                    /\ saved' = Stopping(saved)
                    /\ task' = [task EXCEPT !.cancelled = TRUE]
                    /\ action' = [at |-> "reconfigure", base |-> base, updated |-> updated,
                                  model |-> model]
                    /\ UNCHANGED <<host, promised>>
               [] task.at = "off" /\ model ->
                    /\ saved' = Current
                    /\ action' = [at |-> "closing", base |-> base, updated |-> updated,
                                  model |-> model]
                    /\ host' = Loaded
                    /\ UNCHANGED <<task, promised>>
               [] OTHER -> Write(Current, base, updated, model)
  /\ UNCHANGED <<now, mail>>

\* pause() has gathered the cancelled run.
Gathered ==
  /\ action.at \in {"pause", "reconfigure"}
  /\ task.at = "off"
  /\ CASE action.at = "pause" ->
            /\ saved' = [saved EXCEPT !.state = "paused", !.due = FALSE]
            /\ action' = NoAction
            /\ host' = [Down EXCEPT !.up = TRUE]
            /\ UNCHANGED <<task, promised>>
       [] action.at = "reconfigure" /\ action.model ->
            /\ saved' = [saved EXCEPT !.state = "paused", !.due = FALSE]
            /\ action' = [action EXCEPT !.at = "closing"]
            /\ UNCHANGED <<task, host, promised>>
       [] OTHER -> Write([saved EXCEPT !.state = "paused", !.due = FALSE],
                         action.base, action.updated, FALSE)
  /\ UNCHANGED <<now, mail, faults>>

\* builder.close() has returned; meanwhile the schedule may have started a run.
BuilderClosed ==
  /\ action.at = "closing"
  /\ Write(saved, action.base, action.updated, TRUE)
  /\ UNCHANGED <<now, mail, faults>>

-----------------------------------------------------------------------------
(* The run: one action from one await to the next *)

Step(place) == /\ task.at = place
               /\ ~task.cancelled

Goto(place) == [NoTask EXCEPT !.at = place]

\* How a run ends: db is the ledger at that point.
Ended(db, state, enabled) ==
  /\ saved' = [db EXCEPT !.state = state, !.config.enabled = enabled, !.due = enabled]
  /\ task' = NoTask

\* An exception; those of the connection switch the schedule off.
Failed(db) ==
  \/ Fault("source") /\ Ended(db, "idle", db.config.enabled)
  \/ Fault("systemic") /\ Ended(db, "idle", FALSE)

\* A run cancelled before its first step never knows of it.
Cancelled ==
  /\ task.at # "off" /\ task.cancelled
  /\ IF task.at = "queued"
     THEN /\ task' = NoTask
          /\ UNCHANGED saved
     ELSE Ended(saved, "paused", saved.config.enabled)
  /\ UNCHANGED <<now, mail, action, host, promised, faults>>

Begin ==
  /\ Step("queued")
  /\ saved' = [saved EXCEPT !.state = "running"]
  /\ task' = Goto("discover")
  /\ UNCHANGED <<now, mail, action, host, promised, faults>>

\* Another account answers, or a folder is gone: the schedule is switched off.
AccountChanged == Fault("identity") /\ Ended(saved, "paused", FALSE)

\* The account and the folders are read and checked.
Discovered ==
  /\ Step("discover")
  /\ \/ task' = Goto("bank") /\ UNCHANGED <<saved, faults>>
     \/ Failed(saved)
     \/ AccountChanged
  /\ UNCHANGED <<now, mail, action, host, promised>>

\* Where the next page of the window starts.
From(db, folder) ==
  IF db.marks[folder] = None THEN db.history
  ELSE IF db.marks[folder] - Overlap > db.history THEN db.marks[folder] - Overlap ELSE db.history

\* Request a page, or go on to the conversations; the run keeps its own copy
\* of the window, and of the watermarks while it waits for the page.
Request(db, window) ==
  task' = IF window.todo = {} THEN Goto("threads")
          ELSE [at |-> "page", window |-> window, marks |-> db.marks,
                start |-> From(db, Min(window.todo)), cancelled |-> FALSE]

\* Defect: folders with unreadable messages keep their watermark.
MarksWithErrors(db) == db.marks

\* Watermarks of folders with unreadable messages are dropped.
MarksToUse(db) ==
  [f \in Folder |-> IF f \in db.config.folders /\ \E m \in db.errors : mail[m].folder = f
                    THEN None ELSE db.marks[f]]

\* The bank is ready: _scan resumes the window or begins one.
Scan ==
  /\ Step("bank")
  /\ \/ LET started == IF saved.history = None
                       THEN [saved EXCEPT !.history = now - saved.config.lookback] ELSE saved
            fresh == saved.window = None \/ (saved.window # None /\ saved.window.todo = {})
            window == [end |-> now, todo |-> saved.config.folders, next |-> None]
            db == IF fresh THEN [started EXCEPT !.marks = MarksToUse(started), !.window = window]
                  ELSE started
        IN /\ saved' = db
           /\ promised' = IF saved.history = None THEN db.history ELSE promised
           /\ Request(db, db.window)
           /\ UNCHANGED faults
     \/ Failed(saved) /\ UNCHANGED promised
  /\ UNCHANGED <<now, mail, action, host>>

\* page() asks for what a folder received between two times.
Listed(folder, start, end) ==
  {m \in Message : /\ mail[m].present /\ mail[m].folder = folder
                   /\ start <= mail[m].received /\ mail[m].received < end}

\* What a cursor (or none) still has to deliver of a listing.
Remaining(listed, next) ==
  CASE next = None -> listed
    [] next # None /\ next.by = "token" -> {m \in listed : m > next.at}
    [] OTHER -> {m \in listed : Cardinality({x \in listed : x <= m}) > next.at}

FirstOf(messages) ==
  {m \in messages : Cardinality({x \in messages : x <= m}) <= PageSize}

\* _record_sources.
Recorded(db, page) ==
  [db EXCEPT !.sources = @ \cup {m \in page : mail[m].whole},
             !.errors = (@ \ page) \cup {m \in page : ~mail[m].whole}]

\* The watermark a finished folder gets.
Marked(window) == window.end

\* A cursor whose filter is not that of the window is refused before it is sent.
Refused(next, start) == next # None /\ next.start # start

\* A page has arrived: recorded with the window and the watermarks in one
\* transaction.
Page ==
  /\ Step("page")
  /\ LET window == task.window
         folder == Min(window.todo)
         listed == Listed(folder, task.start, window.end)
         page == FirstOf(Remaining(listed, window.next))
         more == Remaining(listed, window.next) \ page # {}
     IN \/ /\ ~Refused(window.next, task.start)
           /\ task.start < window.end
           /\ \E by \in {"skip", "token"} :
                /\ window.next # None => by = window.next.by
                /\ (window.next = None /\ ~more) => by = "token"
                /\ LET next == [start |-> task.start, by |-> by,
                                at |-> IF by = "token" THEN Max(page)
                                       ELSE Cardinality(page) +
                                            (IF window.next = None THEN 0 ELSE window.next.at)]
                       left == [window EXCEPT !.next = IF more THEN next ELSE None,
                                              !.todo = IF more THEN @ ELSE @ \ {folder}]
                       marks == IF more THEN task.marks
                                ELSE [task.marks EXCEPT ![folder] = Marked(window)]
                       db == [Recorded(saved, page) EXCEPT !.marks = marks, !.window = left]
                   IN saved' = db /\ Request(db, left)
           /\ UNCHANGED faults
        \/ /\ Refused(window.next, task.start) \/ task.start >= window.end
           /\ Ended(saved, "idle", saved.config.enabled)
           /\ UNCHANGED faults
        \/ Failed(saved)
  /\ UNCHANGED <<now, mail, action, host, promised>>

\* Deliveries and conversations are done; failures of single conversations
\* stay with them.
Threads ==
  /\ Step("threads")
  /\ \/ /\ Ended([saved EXCEPT !.window = None], "idle", saved.config.enabled)
        /\ UNCHANGED faults
     \/ Fault("systemic") /\ Ended(saved, "idle", FALSE)
  /\ UNCHANGED <<now, mail, action, host, promised>>

-----------------------------------------------------------------------------
(* The end of the process *)

Crash ==
  /\ host.up
  /\ Fault("crash")
  /\ host' = Down
  /\ task' = NoTask
  /\ action' = NoAction
  /\ UNCHANGED <<now, mail, saved, promised>>

\* hindsightkit stop: close() cancels the run, and the process ends.
Shutdown ==
  /\ Ready
  /\ Fault("crash")
  /\ host' = Down
  /\ task' = NoTask
  /\ saved' = IF task.at \in {"off", "queued"} THEN saved
              ELSE [saved EXCEPT !.state = "paused", !.due = saved.config.enabled]
  /\ UNCHANGED <<now, mail, action, promised>>

Mailbox == Tick \/ \E m \in Message : Arrive(m) \/ Repair(m) \/ Leave(m)

User == Start \/ Sync \/ Pause \/ Configure

Run == Cancelled \/ Begin \/ Discovered \/ Scan \/ Page \/ Threads

Next == Mailbox \/ User \/ Boot \/ Schedule \/ Gathered \/ BuilderClosed \/ Run \/ Crash \/ Shutdown

Spec == Init /\ [][Next]_vars

\* Time passes; timers fire, awaits return, and the host is started again.
FairSpec == /\ Spec
            /\ WF_vars(Tick)
            /\ WF_vars(Boot \/ Schedule \/ Run \/ Gathered \/ BuilderClosed)

-----------------------------------------------------------------------------
(* Properties *)

\* A message of the mailbox in the history the user chose.
Wanted(m) == mail[m].present /\ promised # None /\ mail[m].received >= promised

\* A message a scan owes the user: in a selected history, still there, and
\* visible and identified before the last finished window of its folder ended.
Owed(m) ==
  /\ Wanted(m) /\ mail[m].whole
  /\ saved.marks[mail[m].folder] # None
  /\ mail[m].since < saved.marks[mail[m].folder]

\* Watermarks never run ahead of what was recorded: no owed message is missing,
\* whatever was late, paused, resumed, reconfigured, failed or interrupted.
NothingMissed == \A m \in Message : Owed(m) => m \in saved.sources

\* A saved cursor belongs to the window a resumed scan will ask for, so the
\* scan can go on from it.  It says nothing after a configure() that a run has overtaken or
\* that was killed.
CursorUsable ==
  (promised # Nothing /\ saved.window # None /\ saved.window.next # None) =>
    saved.window.next.start = From(saved, Min(saved.window.todo))

\* A next run that is announced has a scheduler to start it.
Scheduled == (host.loaded /\ saved.config.enabled /\ saved.due) => host.scheduler

\* Found; or the user no longer wants it, has switched the schedule off, or left its folder out.
Settled(m) == \/ m \in saved.sources \/ ~Wanted(m)
              \/ ~saved.config.enabled \/ mail[m].folder \notin saved.config.folders

\* While the schedule stays on, every readable message of a selected folder is found in the
\* end: again and again there comes a moment in which nothing that can be read is left to find.
EveryMessageFound ==
  []<>(\A m \in Message : mail[m].whole /\ mail[m].received < MaxNow => Settled(m))
=============================================================================
