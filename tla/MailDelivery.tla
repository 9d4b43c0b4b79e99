---------------------------- MODULE MailDelivery ----------------------------
(***************************************************************************)
(* The delivery half of the WorkIQ mail connector: MailSync in             *)
(* connectors/workiq/sync.py from the moment a page of mail is recorded to *)
(* the moment the outcome of a conversation is accepted, together with     *)
(* the memory server it publishes to.                                      *)
(*                                                                         *)
(* One asyncio process owns the ledger (writer.lock), so code between two  *)
(* awaits is one action; every await is a place where another worker, the  *)
(* server, the user, a pause or a crash can step in.  The ledger is SQLite *)
(* and survives; what a coroutine holds in local variables does not.       *)
(*                                                                         *)
(* The evidence of a conversation is a number counting the changes a read  *)
(* bounded by the window's end can return (a message received after that   *)
(* end is invisible to every read of the run and is counted when the next  *)
(* window can see it).  An outcome is represented by the evidence it was   *)
(* composed from; its content hash is therefore left out, and a builder    *)
(* that answers with the text already published is an "unchanged" answer.  *)
(* Tag sets hold the labels users own; the connector's own labels follow   *)
(* from the evidence.                                                      *)
(***************************************************************************)
EXTENDS Integers, FiniteSets

CONSTANTS
  Thread,           \* conversations
  Label,            \* labels users put on documents
  None,             \* SQL NULL, and a dictionary key that is absent
  MaxPrepared,      \* MAX_PREPARED, 16 in the code
  ParallelThreads,  \* config['parallel_threads'], 1..8 in the code
  MaxMail,          \* bound: changes of one conversation
  MaxOps,           \* bound: operation ids minted for one conversation
  MaxFaults,        \* bound: faults and interferences in a behaviour
  Faults            \* the kinds that may happen

FaultKind == {"identity", "source", "compose", "document", "operation",
              "retain", "lost", "duplicate", "timeout", "execute",
              "extraction", "interrupt", "cancel", "delete", "label",
              "quiet label"}

ASSUME DeliveryAssumption ==
  /\ MaxPrepared \in Nat \ {0}
  /\ ParallelThreads \in Nat \ {0}
  /\ MaxMail \in Nat /\ MaxOps \in Nat /\ MaxFaults \in Nat
  /\ IsFiniteSet(Thread)
  /\ Faults \subseteq FaultKind

VARIABLES
  mail,        \* changes of the conversation in the live mailbox
  whole,       \* every live message of the conversation has an identity
  threads,     \* ledger table: one row per conversation
  sources,     \* ledger table: version recorded for the conversation (0: none)
  gap,         \* ledger table: a discovery_errors row names the conversation
  minted,      \* operation ids uuid4() has produced for the conversation
  phase,       \* where the run is
  window,      \* conversations whose page of the window is still to be read
  failed,      \* the run's set of failed conversations
  at,          \* the await a conversation's coroutine is suspended at
  local,       \* the locals of that coroutine
  documents,   \* server: the outcome document of the conversation
  operations,  \* server: retain operations by id
  wire,        \* retain requests sent and not yet received
  wanted,      \* the labels users mean the document to carry
  faults       \* faults and interferences so far

mailbox == <<mail, whole>>
ledger  == <<threads, sources, gap, minted>>
run     == <<phase, window, failed>>
service == <<documents, operations, wire>>
vars == <<mailbox, ledger, run, at, local, service, wanted, faults>>

-----------------------------------------------------------------------------
(* The values of the tables, the server's records and a coroutine's locals *)

OpId == 1..MaxOps
Version == 0..MaxMail

NewRow == [state |-> "dirty", revision |-> 0, applied |-> 0, input |-> 0,
           outcome |-> FALSE, target |-> 0, op |-> 0, payload |-> None]

Payload == [action : {"publish", "withdraw"}, input : Version,
            tags : {None} \cup SUBSET Label, kept : {None} \cup SUBSET Label]

Row == [state : {"dirty", "idle", "prepared", "submitted", "error"},
        revision : Nat, applied : Nat, input : Version, outcome : BOOLEAN,
        target : Nat, op : {0} \cup OpId, payload : Payload \cup {None}]

NoDocument == [ev |-> 0, labels |-> {}]
NoOperation == [status |-> "not_found", ev |-> 0, tags |-> {}]
NoLocal == [revision |-> 0, ev |-> 0, previous |-> FALSE,
            status |-> "not_found", labels |-> {}]

\* "faulty" is a completed operation that counts extraction errors.
Status == {"not_found", "pending", "completed", "faulty", "failed", "cancelled"}

Await == {"off", "queued", "source", "previous", "compose", "delete", "gone",
          "status", "current", "labels", "retain", "retaining", "retry",
          "poll", "verify", "relabel", "relabelled"}

ASSUME NoneAssumption == /\ \A payload \in Payload : payload # None
                         /\ \A labels \in SUBSET Label : labels # None

Request == [thread : Thread, op : OpId, ev : Version, tags : SUBSET Label]

Local == [revision : Nat, ev : Version, previous : BOOLEAN, status : Status,
          labels : SUBSET Label]

Document == [ev : Version, labels : SUBSET Label]

Operation == [status : Status, ev : Version, tags : SUBSET Label]

TypeOK ==
  /\ mail \in [Thread -> Version]
  /\ whole \in [Thread -> BOOLEAN]
  /\ threads \in [Thread -> Row]
  /\ sources \in [Thread -> Version]
  /\ gap \in [Thread -> BOOLEAN]
  /\ minted \in [Thread -> {0} \cup OpId]
  /\ phase \in {"stopped", "scan", "deliver", "process"}
  /\ window \subseteq Thread
  /\ failed \subseteq Thread
  /\ at \in [Thread -> Await]
  /\ local \in [Thread -> Local]
  /\ documents \in [Thread -> Document]
  /\ operations \in [Thread -> [OpId -> Operation]]
  /\ wire \subseteq Request
  /\ wanted \in [Thread -> (SUBSET Label) \cup {None}]
  /\ faults \in Nat

Init ==
  /\ mail = [t \in Thread |-> 0]
  /\ whole = [t \in Thread |-> TRUE]
  /\ threads = [t \in Thread |-> NewRow]
  /\ sources = [t \in Thread |-> 0]
  /\ gap = [t \in Thread |-> FALSE]
  /\ minted = [t \in Thread |-> 0]
  /\ phase = "stopped"
  /\ window = {}
  /\ failed = {}
  /\ at = [t \in Thread |-> "off"]
  /\ local = [t \in Thread |-> NoLocal]
  /\ documents = [t \in Thread |-> NoDocument]
  /\ operations = [t \in Thread |-> [o \in OpId |-> NoOperation]]
  /\ wire = {}
  /\ wanted = [t \in Thread |-> {}]
  /\ faults = 0

Active == {t \in Thread : at[t] \notin {"off", "queued"}}
Pending == {t \in Thread : threads[t].payload # None}
Full == Cardinality(Pending) >= MaxPrepared
Exists(t) == documents[t].ev > 0

\* A fault of a kind that may happen, within the budget.
Fault(kind) == /\ kind \in Faults
               /\ faults < MaxFaults
               /\ faults' = faults + 1

-----------------------------------------------------------------------------
(* The mailbox and the users of the memory server *)

\* A message arrives or is edited; Graph may return it without an identity.
MailChanges(t) ==
  /\ mail[t] < MaxMail
  /\ mail' = [mail EXCEPT ![t] = @ + 1]
  /\ \/ /\ whole' = [whole EXCEPT ![t] = TRUE]
        /\ UNCHANGED faults
     \/ /\ Fault("identity")
        /\ whole' = [whole EXCEPT ![t] = FALSE]
  /\ UNCHANGED <<ledger, run, at, local, service, wanted>>

\* No replacement of the document is being sent or worked on: none is prepared,
\* or the run that sent it is over and its operation has not replaced anything.
Quiet(t) == \/ threads[t].payload = None
            \/ /\ at[t] = "off"
               /\ threads[t].op # 0
               /\ operations[t][threads[t].op].status \in {"not_found", "failed", "cancelled"}
               /\ \A r \in wire : r.thread # t

\* A user sets the labels of a document in quiet ("label"), or only while no
\* replacement of it is prepared at all ("quiet label").
UserLabels(t) ==
  /\ Exists(t) /\ Quiet(t)
  /\ \E kind \in {"label", "quiet label"} :
       Fault(kind) /\ (kind = "quiet label" => threads[t].payload = None)
  /\ \E labels \in (SUBSET Label) \ {documents[t].labels} :
       /\ documents' = [documents EXCEPT ![t].labels = labels]
       /\ wanted' = [wanted EXCEPT ![t] = labels]
  /\ UNCHANGED <<mailbox, ledger, run, at, local, operations, wire>>

\* Whoever deletes a document says nothing on the labels of its next version.
UserDeletes(t) ==
  /\ Exists(t)
  /\ Fault("delete")
  /\ documents' = [documents EXCEPT ![t] = NoDocument]
  /\ wanted' = [wanted EXCEPT ![t] = None]
  /\ UNCHANGED <<mailbox, ledger, run, at, local, operations, wire>>

UserCancels(t) ==
  /\ Fault("cancel")
  /\ \E o \in OpId :
       /\ operations[t][o].status = "pending"
       /\ operations' = [operations EXCEPT ![t][o].status = "cancelled"]
  /\ UNCHANGED <<mailbox, ledger, run, at, local, documents, wire, wanted>>

-----------------------------------------------------------------------------
(* The memory server.  An operation id it already knows is not run again.  *)

ServerAccepts(r) ==
  /\ r \in wire
  /\ operations' = IF operations[r.thread][r.op].status = "not_found"
                   THEN [operations EXCEPT ![r.thread][r.op] =
                           [status |-> "pending", ev |-> r.ev, tags |-> r.tags]]
                   ELSE operations
  /\ \/ wire' = wire \ {r} /\ UNCHANGED faults
     \/ wire' = wire /\ Fault("duplicate")
  /\ UNCHANGED <<mailbox, ledger, run, at, local, documents, wanted>>

RequestLost(r) ==
  /\ r \in wire
  /\ Fault("lost")
  /\ wire' = wire \ {r}
  /\ UNCHANGED <<mailbox, ledger, run, at, local, documents, operations, wanted>>

\* The replacement is one step for a reader; it may instead fail and leave
\* the document alone, or complete while reporting extraction errors.
ServerExecutes(t, o) ==
  LET work == operations[t][o] IN
  /\ work.status = "pending"
  /\ \/ /\ operations' = [operations EXCEPT ![t][o].status = "completed"]
        /\ documents' = [documents EXCEPT ![t] = [ev |-> work.ev, labels |-> work.tags]]
        /\ UNCHANGED faults
     \/ /\ Fault("execute")
        /\ operations' = [operations EXCEPT ![t][o].status = "failed"]
        /\ UNCHANGED documents
     \/ /\ Fault("extraction")
        /\ operations' = [operations EXCEPT ![t][o].status = "faulty"]
        /\ \/ UNCHANGED documents
           \/ documents' = [documents EXCEPT ![t] = [ev |-> work.ev, labels |-> work.tags]]
  /\ UNCHANGED <<mailbox, ledger, run, at, local, wire, wanted>>

-----------------------------------------------------------------------------
(* How a coroutine ends: an exception is written on the thread's row, an    *)
(* accepted outcome clears its delivery columns.                            *)

Leave(t) == /\ at' = [at EXCEPT ![t] = "off"]
            /\ local' = [local EXCEPT ![t] = NoLocal]

Suspend(t, where) == at' = [at EXCEPT ![t] = where]

\* _thread_error, and failed.add in the two loops of _run.
ThreadError(t) ==
  /\ threads' = [threads EXCEPT ![t].state = "error"]
  /\ failed' = failed \cup {t}
  /\ Leave(t)

\* Defect: the row is always left idle.
AcceptedAlwaysIdle(row, action, ev, revision) ==
  [row EXCEPT !.applied = revision, !.input = ev,
              !.outcome = IF action = "publish" THEN TRUE
                          ELSE IF action = "withdraw" THEN FALSE ELSE @,
              !.state = "idle", !.payload = None, !.op = 0, !.target = 0]

\* Defect: a withdrawal does not clear has_outcome.
AcceptedKeepsOutcome(row, action, ev, revision) ==
  [row EXCEPT !.applied = revision, !.input = ev,
              !.outcome = IF action = "publish" THEN TRUE ELSE @,
              !.state = IF row.revision > revision THEN "dirty" ELSE "idle",
              !.payload = None, !.op = 0, !.target = 0]

Accepted(row, action, ev, revision) ==
  [row EXCEPT !.applied = revision,
              !.input = ev,
              !.outcome = IF action = "publish" THEN TRUE
                          ELSE IF action = "withdraw" THEN FALSE ELSE @,
              !.state = IF row.revision > revision THEN "dirty" ELSE "idle",
              !.payload = None, !.op = 0, !.target = 0]

\* A change recorded while the outcome was on its way leaves the row dirty.
Finish(t, action, ev, revision) ==
  IF revision < threads[t].applied
  THEN ThreadError(t)
  ELSE /\ threads' = [threads EXCEPT ![t] = Accepted(@, action, ev, revision)]
       /\ Leave(t)
       /\ UNCHANGED failed

-----------------------------------------------------------------------------
(* The run: scan, deliver what is prepared, process what is not idle *)

\* An interrupted window is resumed, a finished one is replaced.
StartRun ==
  /\ phase = "stopped"
  /\ phase' = "scan"
  /\ window' = IF window = {} THEN Thread ELSE window
  /\ failed' = {}
  /\ UNCHANGED <<mailbox, ledger, at, local, service, wanted, faults>>

\* Defect: a new revision throws a prepared outcome away.
BumpedDropsPayload(row) ==
  [row EXCEPT !.revision = @ + 1, !.state = "dirty",
              !.payload = None, !.op = 0, !.target = 0]

\* A new revision does not disturb a delivery that is already prepared.
Bumped(row) == [row EXCEPT !.revision = @ + 1,
                           !.state = IF row.payload = None THEN "dirty" ELSE @]

\* _record_sources for the conversation's page: an unidentified message is a
\* discovery error, an identified one a source with a version.
RecordSources(t) ==
  /\ phase = "scan"
  /\ t \in window
  /\ window' = window \ {t}
  /\ IF whole[t]
     THEN /\ gap' = [gap EXCEPT ![t] = FALSE]
          /\ sources' = [sources EXCEPT ![t] = mail[t]]
          /\ threads' = IF sources[t] # mail[t]
                        THEN [threads EXCEPT ![t] = Bumped(@)] ELSE threads
     ELSE /\ gap' = [gap EXCEPT ![t] = TRUE]
          /\ threads' = IF gap[t] THEN threads
                        ELSE [threads EXCEPT ![t] = Bumped(@)]
          /\ UNCHANGED sources
  /\ UNCHANGED <<mailbox, minted, phase, failed, at, local, service, wanted, faults>>

\* Every row that holds a payload is delivered first, one after the other.
StartDeliveries ==
  /\ phase = "scan"
  /\ window = {}
  /\ phase' = "deliver"
  /\ at' = [t \in Thread |-> IF t \in Pending THEN "queued" ELSE "off"]
  /\ UNCHANGED <<mailbox, ledger, window, failed, local, service, wanted, faults>>

Selected(t) == sources[t] > 0 \/ gap[t]

\* Defect: conversations that failed are not tried again.
StartProcessingDirty ==
  /\ phase = "deliver"
  /\ \A t \in Thread : at[t] = "off"
  /\ phase' = "process"
  /\ at' = [t \in Thread |-> IF /\ threads[t].state = "dirty"
                                /\ Selected(t)
                                /\ t \notin failed
                             THEN "queued" ELSE "off"]
  /\ UNCHANGED <<mailbox, ledger, window, failed, local, service, wanted, faults>>

StartProcessing ==
  /\ phase = "deliver"
  /\ \A t \in Thread : at[t] = "off"
  /\ phase' = "process"
  /\ at' = [t \in Thread |-> IF /\ threads[t].state # "idle"
                                /\ Selected(t)
                                /\ t \notin failed
                             THEN "queued" ELSE "off"]
  /\ UNCHANGED <<mailbox, ledger, window, failed, local, service, wanted, faults>>

EndRun ==
  /\ phase = "process"
  /\ \A t \in Thread : at[t] = "off"
  /\ phase' = "stopped"
  /\ UNCHANGED <<mailbox, ledger, window, failed, at, local, service, wanted, faults>>

\* A pause cancels the task, a systemic error ends it, a crash kills it: the
\* ledger keeps what was committed, every coroutine is gone.
Interrupt ==
  /\ phase # "stopped"
  /\ Fault("interrupt")
  /\ phase' = "stopped"
  /\ failed' = {}
  /\ at' = [t \in Thread |-> "off"]
  /\ local' = [t \in Thread |-> NoLocal]
  /\ UNCHANGED <<mailbox, ledger, window, service, wanted>>

-----------------------------------------------------------------------------
(* _prepare: from a changed conversation to a durable outcome *)

DeliveryStart(row) ==
  IF row.payload.action = "withdraw" THEN "delete" ELSE "status"

\* The checks before the first await; deliveries of the first loop are
\* sequential, workers of the second are at most parallel_threads.
Refused(t) ==
  \/ gap[t]
  \/ threads[t].payload # None /\ threads[t].target < threads[t].applied
  \/ threads[t].payload = None /\ Full

Begin(t) ==
  /\ at[t] = "queued"
  /\ IF phase = "deliver" THEN Active = {} ELSE Cardinality(Active) < ParallelThreads
  /\ IF Refused(t)
     THEN ThreadError(t)
     ELSE /\ Suspend(t, IF threads[t].payload # None
                        THEN DeliveryStart(threads[t]) ELSE "source")
          /\ local' = [local EXCEPT ![t].revision = threads[t].revision]
          /\ UNCHANGED <<threads, failed>>
  /\ UNCHANGED <<mailbox, sources, gap, minted, phase, window, service, wanted, faults>>

\* The complete conversation or no evidence at all; evidence whose hash was
\* already accepted is finished without composing anything.
ReadThread(t) ==
  /\ at[t] = "source"
  /\ \/ /\ whole[t]
        /\ UNCHANGED faults
        /\ IF mail[t] = threads[t].input
           THEN Finish(t, "unchanged", mail[t], local[t].revision)
           ELSE /\ Suspend(t, "previous")
                /\ local' = [local EXCEPT ![t].ev = mail[t]]
                /\ UNCHANGED <<threads, failed>>
     \/ /\ ~whole[t]
        /\ ThreadError(t)
        /\ UNCHANGED faults
     \/ /\ Fault("source")
        /\ ThreadError(t)
  /\ UNCHANGED <<mailbox, sources, gap, minted, phase, window, service, wanted>>

ReadPrevious(t) ==
  /\ at[t] = "previous"
  /\ \/ /\ Suspend(t, "compose")
        /\ local' = [local EXCEPT ![t].previous = Exists(t)]
        /\ UNCHANGED <<threads, failed, faults>>
     \/ /\ Fault("document")
        /\ ThreadError(t)
  /\ UNCHANGED <<mailbox, sources, gap, minted, phase, window, service, wanted>>

\* A row prepared for delivery; the row's own revision is its target.
Prepared(row, action, ev, revision, op) ==
  [row EXCEPT !.target = revision, !.op = op, !.state = "prepared",
              !.payload = [action |-> action, input |-> ev, tags |-> None, kept |-> None]]

\* Defect: the queue is checked only before the awaits.
PrepareUnchecked(t, action) ==
  LET op == minted[t] + 1
      row == Prepared(threads[t], action, local[t].ev, local[t].revision, op)
  IN /\ op \in OpId
     /\ minted' = [minted EXCEPT ![t] = op]
     /\ threads' = [threads EXCEPT ![t] = row]
     /\ Suspend(t, DeliveryStart(row))
     /\ UNCHANGED <<failed, local>>

\* The queue is checked again: other workers have prepared outcomes since.
Prepare(t, action) ==
  IF Full
  THEN ThreadError(t) /\ UNCHANGED minted
  ELSE LET op == minted[t] + 1
           row == Prepared(threads[t], action, local[t].ev, local[t].revision, op)
       IN /\ op \in OpId
          /\ minted' = [minted EXCEPT ![t] = op]
          /\ threads' = [threads EXCEPT ![t] = row]
          /\ Suspend(t, DeliveryStart(row))
          /\ UNCHANGED <<failed, local>>

\* The prefilter and the builder answer.  With no document yet, "skip" of
\* the prefilter and "withdraw" of the builder leave things as they are.
Compose(t) ==
  /\ at[t] = "compose"
  /\ \/ /\ UNCHANGED faults
        /\ \E action \in {"publish", "unchanged", "withdraw"} :
             IF threads[t].revision # local[t].revision
             THEN ThreadError(t) /\ UNCHANGED minted
             ELSE IF action = "unchanged" \/ (action = "withdraw" /\ ~local[t].previous)
             THEN /\ Finish(t, action, local[t].ev, local[t].revision)
                  /\ UNCHANGED minted
             ELSE Prepare(t, action)
     \/ /\ Fault("compose")
        /\ ThreadError(t)
        /\ UNCHANGED minted
  /\ UNCHANGED <<mailbox, sources, gap, phase, window, service, wanted>>

-----------------------------------------------------------------------------
(* _deliver: from the durable outcome to the accepted document.  The target *)
(* dictionary a coroutine holds is always the one on its row, so it is not  *)
(* kept a second time among the locals.                                     *)

OperationStatus(t) == operations[t][threads[t].op].status

\* Withdrawal: the deletion may take effect although its answer is lost.
DeleteDocument(t) ==
  /\ at[t] = "delete"
  /\ \/ /\ documents' = [documents EXCEPT ![t] = NoDocument]
        /\ wanted' = [wanted EXCEPT ![t] = {}]
     \/ /\ "document" \in Faults
        /\ UNCHANGED <<documents, wanted>>
  /\ \/ /\ documents'[t] = NoDocument
        /\ Suspend(t, "gone")
        /\ UNCHANGED <<threads, failed, local, faults>>
     \/ /\ Fault("document")
        /\ ThreadError(t)
  /\ UNCHANGED <<mailbox, sources, gap, minted, phase, window, operations, wire>>

ConfirmGone(t) ==
  /\ at[t] = "gone"
  /\ \/ /\ IF Exists(t)
           THEN ThreadError(t)
           ELSE Finish(t, "withdraw", threads[t].payload.input, threads[t].target)
        /\ UNCHANGED faults
     \/ /\ Fault("document")
        /\ ThreadError(t)
  /\ UNCHANGED <<mailbox, sources, gap, minted, phase, window, service, wanted>>

ReadStatus(t) ==
  /\ at[t] = "status"
  /\ \/ /\ local' = [local EXCEPT ![t].status = OperationStatus(t)]
        /\ Suspend(t, "current")
        /\ UNCHANGED <<threads, failed, faults>>
     \/ /\ Fault("operation")
        /\ ThreadError(t)
  /\ UNCHANGED <<mailbox, sources, gap, minted, phase, window, service, wanted>>

\* Defect: an operation the server does not know yet gets a new id.
RenewedWhenUnknown(t, row) ==
  IF local[t].status \in {"cancelled", "not_found"}
  THEN [row EXCEPT !.op = minted[t] + 1, !.state = "prepared"] ELSE row

\* The labels users put on the document that is about to be replaced are
\* kept; a cancelled operation is replaced by one with a new id.
Renewed(t, row) ==
  LET keeping == Exists(t) /\ local[t].status \notin {"completed", "faulty"}
      kept == IF keeping
              THEN [row EXCEPT !.payload.kept = documents[t].labels] ELSE row
  IN IF local[t].status = "cancelled"
     THEN [kept EXCEPT !.op = minted[t] + 1, !.state = "prepared"] ELSE kept

AfterStatus(status, row) ==
  CASE status \in {"not_found", "cancelled"} ->
         IF row.payload.tags = None THEN "labels" ELSE "retain"
    [] status = "failed" -> "retry"
    [] OTHER -> "poll"

ReadCurrent(t) ==
  /\ at[t] = "current"
  /\ \/ LET row == Renewed(t, threads[t]) IN
        /\ row.op \in OpId
        /\ threads' = [threads EXCEPT ![t] = row]
        /\ minted' = IF row.op = threads[t].op THEN minted
                     ELSE [minted EXCEPT ![t] = row.op]
        /\ Suspend(t, AfterStatus(local[t].status, row))
        /\ UNCHANGED <<failed, local, faults>>
     \/ /\ Fault("document")
        /\ ThreadError(t)
        /\ UNCHANGED minted
  /\ UNCHANGED <<mailbox, sources, gap, phase, window, service, wanted>>

\* The tags of the replacement are computed once and stored with it.
ReadLabels(t) ==
  /\ at[t] = "labels"
  /\ \/ /\ threads' = [threads EXCEPT ![t].payload.tags = documents[t].labels]
        /\ Suspend(t, "retain")
        /\ UNCHANGED <<failed, local, faults>>
     \/ /\ Fault("document")
        /\ ThreadError(t)
  /\ UNCHANGED <<mailbox, sources, gap, minted, phase, window, service, wanted>>

Retain(t) ==
  /\ at[t] = "retain"
  /\ wire' = wire \cup {[thread |-> t, op |-> threads[t].op,
                         ev |-> threads[t].payload.input,
                         tags |-> threads[t].payload.tags]}
  /\ Suspend(t, "retaining")
  /\ UNCHANGED <<mailbox, ledger, run, local, documents, operations, wanted, faults>>

\* Defect: the row takes over the state the server reports.
RetainedAsReported(t) ==
  /\ at[t] = "retaining"
  /\ OperationStatus(t) # "not_found"
  /\ threads' = [threads EXCEPT ![t].state = OperationStatus(t)]
  /\ Suspend(t, "poll")
  /\ UNCHANGED <<mailbox, sources, gap, minted, phase, window, service, wanted, failed, local, faults>>

\* The answer of aretain: the server has the operation; or an error, which
\* says nothing about what became of the request.
Retained(t) ==
  /\ at[t] = "retaining"
  /\ \/ /\ OperationStatus(t) # "not_found"
        /\ threads' = [threads EXCEPT ![t].state = "submitted"]
        /\ Suspend(t, "poll")
        /\ UNCHANGED <<failed, local, faults>>
     \/ /\ \A r \in wire : r.thread # t
        /\ OperationStatus(t) = "not_found"
        /\ ThreadError(t)
        /\ UNCHANGED faults
     \/ /\ Fault("retain")
        /\ ThreadError(t)
  /\ UNCHANGED <<mailbox, sources, gap, minted, phase, window, service, wanted>>

\* Only a failed operation is queued again by the server.
RetryOperation(t) ==
  /\ at[t] = "retry"
  /\ \/ operations' = IF OperationStatus(t) = "failed"
                      THEN [operations EXCEPT ![t][threads[t].op].status = "pending"]
                      ELSE operations
     \/ "operation" \in Faults /\ UNCHANGED operations
  /\ \/ /\ OperationStatus(t) # "failed" \/ operations # operations'
        /\ Suspend(t, "poll")
        /\ UNCHANGED <<threads, failed, local, faults>>
     \/ /\ Fault("operation")
        /\ ThreadError(t)
  /\ UNCHANGED <<mailbox, sources, gap, minted, phase, window, documents, wire, wanted>>

\* Polling ends with a clean completion; a timeout leaves the row as it is.
Poll(t) ==
  /\ at[t] = "poll"
  /\ \/ /\ OperationStatus(t) = "completed"
        /\ Suspend(t, "verify")
        /\ UNCHANGED <<threads, failed, local, faults>>
     \/ /\ OperationStatus(t) \in {"failed", "cancelled", "faulty"}
        /\ ThreadError(t)
        /\ UNCHANGED faults
     \/ /\ OperationStatus(t) \in {"pending", "not_found"}
        /\ Fault("timeout")
        /\ ThreadError(t)
  /\ UNCHANGED <<mailbox, sources, gap, minted, phase, window, service, wanted>>

\* Defect: only what was added to the replacement is written back.
ReconciledForgetsKept(t) == documents[t].labels \ threads[t].payload.tags

\* What the document should carry: the labels kept, and those added to the
\* replacement since it was written.
Reconciled(t) ==
  LET payload == threads[t].payload
  IN payload.kept \cup (documents[t].labels \ payload.tags)

\* The document must be this outcome before it is accepted.
Verify(t) ==
  LET payload == threads[t].payload IN
  /\ at[t] = "verify"
  /\ \/ /\ UNCHANGED faults
        /\ IF documents[t].ev # payload.input
           THEN ThreadError(t)
           ELSE IF payload.kept # None /\ Reconciled(t) # documents[t].labels
           THEN /\ Suspend(t, "relabel")
                /\ local' = [local EXCEPT ![t].labels = Reconciled(t)]
                /\ UNCHANGED <<threads, failed>>
           ELSE Finish(t, "publish", payload.input, threads[t].target)
     \/ /\ Fault("document")
        /\ ThreadError(t)
  /\ UNCHANGED <<mailbox, sources, gap, minted, phase, window, service, wanted>>

Relabel(t) ==
  /\ at[t] = "relabel"
  /\ \/ /\ Exists(t)
        /\ documents' = [documents EXCEPT ![t].labels = local[t].labels]
        /\ Suspend(t, "relabelled")
        /\ UNCHANGED <<threads, failed, local, faults>>
     \/ /\ Fault("document") \/ (~Exists(t) /\ UNCHANGED faults)
        /\ ThreadError(t)
        /\ UNCHANGED documents
  /\ UNCHANGED <<mailbox, sources, gap, minted, phase, window, operations, wire, wanted>>

Relabelled(t) ==
  /\ at[t] = "relabelled"
  /\ \/ /\ Finish(t, "publish", threads[t].payload.input, threads[t].target)
        /\ UNCHANGED faults
     \/ /\ Fault("document")
        /\ ThreadError(t)
  /\ UNCHANGED <<mailbox, sources, gap, minted, phase, window, service, wanted>>

-----------------------------------------------------------------------------
Prepares(t) == Begin(t) \/ ReadThread(t) \/ ReadPrevious(t) \/ Compose(t)

Delivers(t) ==
  \/ DeleteDocument(t) \/ ConfirmGone(t)
  \/ ReadStatus(t) \/ ReadCurrent(t) \/ ReadLabels(t)
  \/ Retain(t) \/ Retained(t) \/ RetryOperation(t) \/ Poll(t)
  \/ Verify(t) \/ Relabel(t) \/ Relabelled(t)

Coroutine(t) == Prepares(t) \/ Delivers(t)

Run == \/ StartRun \/ StartDeliveries \/ StartProcessing \/ EndRun
       \/ \E t \in Thread : RecordSources(t)

Server == \/ \E r \in wire : ServerAccepts(r)
          \/ \E t \in Thread, o \in OpId : ServerExecutes(t, o)

Environment == \/ \E t \in Thread : \/ MailChanges(t) \/ UserLabels(t)
                                    \/ UserDeletes(t) \/ UserCancels(t)
               \/ \E r \in wire : RequestLost(r)
               \/ Interrupt

Next == Run \/ Server \/ Environment \/ \E t \in Thread : Coroutine(t)

Spec == Init /\ [][Next]_vars

\* The event loop runs every ready coroutine, the server works its queue off,
\* and runs are started again by the schedule or by "Sync now".
Fairness == /\ WF_vars(Run)
            /\ WF_vars(Server)
            /\ \A t \in Thread : WF_vars(Coroutine(t))

FairSpec == Spec /\ Fairness

-----------------------------------------------------------------------------
(* Properties *)

\* The sixteen-outcome bound of the ledger holds although workers check the
\* queue, wait for the mailbox and the model, and only then add to it.
PreparedBound == Cardinality(Pending) <= MaxPrepared

\* A row is left idle only when the accepted evidence covers every change
\* the scan has recorded, also when the change was recorded while an older
\* outcome was still on its way, and no message of it lacks an identity.
IdleIsCurrent ==
  \A t \in Thread : threads[t].state = "idle" =>
    /\ threads[t].payload = None
    /\ threads[t].input >= sources[t]
    /\ ~gap[t]

\* Operations of a conversation that may still change its document: running,
\* or requested and not yet known to the server.
Live(t) == {o \in OpId : \/ operations[t][o].status = "pending"
                         \/ /\ operations[t][o].status = "not_found"
                            /\ \E r \in wire : r.thread = t /\ r.op = o}

\* Retries, lost answers, cancellations and restarts never leave two
\* replacements of one document in flight, nor one the ledger has forgotten.
OneLiveOperation ==
  \A t \in Thread : Live(t) # {} => /\ threads[t].payload # None
                                    /\ Live(t) = {threads[t].op}

\* While an update is prepared, fails or waits, the accepted outcome stays
\* available; only an accepted withdrawal, or its delivery, removes it.
AcceptedAvailable ==
  \A t \in Thread : threads[t].outcome =>
    \/ Exists(t)
    \/ threads[t].payload # None /\ threads[t].payload.action = "withdraw"

\* Once a replacement is accepted the document carries exactly the labels its
\* users gave it before it was prepared or between the attempts to deliver it
\* ("Updates refresh connector-owned labels and preserve unrelated user labels",
\* docs/workiq-mail.md).
LabelsKept ==
  \A t \in Thread : (Exists(t) /\ threads[t].payload = None)
                    => wanted[t] \in {None, documents[t].labels}

\* Delivery keeps the promise of AcceptedOutcome: no late, repeated or
\* restarted delivery shows an outcome again or an older one.
Outcome == INSTANCE AcceptedOutcome
           WITH Evidence <- 1..MaxMail,
                shown <- [t \in Thread |-> documents[t].ev],
                accepted <- [t \in Thread |-> threads[t].input]

OutcomePromise == Outcome!Spec

\* The operation of a prepared outcome ended with extraction errors.
Faulty(t) == threads[t].op # 0 /\ operations[t][threads[t].op].status = "faulty"

\* Every change of a readable conversation is eventually part of accepted
\* evidence, however deliveries failed, timed out or were interrupted before,
\* unless the server found errors in a delivered outcome: that one is never
\* delivered again (RetryResumes), and its place in the queue is lost to all.
EveryChangeAccepted ==
  \A t \in Thread : \A v \in 1..MaxMail :
    (mail[t] = v) ~> (threads[t].input >= v \/ ~whole[t] \/ \E u \in Thread : Faulty(u))

\* A prepared outcome does not stay in the queue for ever: the error shown
\* for a failed delivery says "Retry to resume this thread" (sync.py).
RetryResumes ==
  \A t \in Thread : (t \in Pending) ~> (t \notin Pending)
=============================================================================
