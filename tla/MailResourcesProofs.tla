-------------------------- MODULE MailResourcesProofs --------------------------
(***************************************************************************)
(* The mail session and the model runtimes of a sync, for any number of    *)
(* tasks, runtimes and failures.  The lock lets one task at a time talk to *)
(* the owner, so that a new queue loses nobody's request; and a runtime is *)
(* used by one task until it is released or handed over to the close.      *)
(***************************************************************************)
EXTENDS MailResources, TLAPS

Modelling == {"starting", "first", "second", "stopping", "forcing"}

Place == {"idle", "lock", "read", "opening", "abandoning", "waiting", "answered", "failed",
          "starting", "first", "second", "stopping", "forcing"}

\* The part of TypeOK the arguments below need.
Types ==
  /\ task \in [Task -> Place] /\ job \in [Task -> {"discover", "thread"}]
  /\ uses \in [Task -> Client \cup {None}]
  /\ queue \in Seq(Request) /\ serving \in Task \cup {None, Gone}

Holds(q, x) == \E i \in DOMAIN q : q[i] = x

\* At most one request of a task is in a queue.
Once(q) == \A i, j \in DOMAIN q : q[i] \in Task /\ q[j] \in Task => i = j

\* One task at a time reads mail, and no task is left once close() cleans up.
Locks ==
  /\ \A t \in Task : lock = t <=> task[t] \in Reading
  /\ sync \in {"cleaning", "closed", "gone"} => \A t \in Task : task[t] = "idle"

\* Only an open source gets requests, and the one that is opened was not open.
Source ==
  /\ serving # None => owner = "busy"
  /\ ~sourceOpen => serving = None /\ \A t \in Task : ~Holds(queue, t)
  /\ \A t \in Task : /\ task[t] \in {"waiting", "answered", "failed"} => sourceOpen
                     /\ task[t] = "lock" /\ job[t] = "thread" => sourceOpen
                     /\ task[t] \in {"opening", "abandoning"} => ~sourceOpen
                     /\ task[t] = "opening" /\ ready = "ok" => owner \notin {"none", "starting"}
  /\ OpenWasReady

\* A request of a task is known to the owner once, and only as long as the task waits for it.
Asked ==
  /\ \A t \in Task : serving = t \/ Holds(queue, t) => task[t] = "waiting"
  /\ Once(queue)
  /\ serving \in Task => \A t \in Task : ~Holds(queue, t)

\* A task has a runtime of its own, which the builder knows and which has a directory.
Runtimes ==
  /\ \A t \in Task : task[t] \in Modelling => uses[t] \in clients /\ uses[t] \in dirs
  /\ \A t, u \in Task : task[t] \in Modelling /\ task[u] \in Modelling /\ uses[t] = uses[u] => t = u
  /\ RuntimeKnown /\ NothingForgotten /\ strays \subseteq dirs

Inv == Types /\ Locks /\ Source /\ Asked /\ Attended /\ Runtimes

-----------------------------------------------------------------------------
(* Queues *)

LEMMA AppendHolds ==
  ASSUME NEW q \in Seq(Request), NEW x \in Request
  PROVE  /\ Append(q, x) \in Seq(Request)
         /\ \A y : Holds(Append(q, x), y) <=> Holds(q, y) \/ y = x
         /\ Once(q) /\ (x \notin Task \/ \A t \in Task : ~Holds(q, t)) => Once(Append(q, x))
<1>1. /\ Append(q, x) \in Seq(Request)
      /\ DOMAIN Append(q, x) = 1..Len(q) + 1 /\ DOMAIN q = 1..Len(q) /\ Len(q) \in Nat
      /\ Append(q, x)[Len(q) + 1] = x
      /\ \A i \in 1..Len(q) : Append(q, x)[i] = q[i]
  OBVIOUS
<1>2. \A y : Holds(Append(q, x), y) <=> Holds(q, y) \/ y = x
  BY <1>1 DEF Holds
<1>3. ASSUME Once(q), x \notin Task \/ \A t \in Task : ~Holds(q, t) PROVE Once(Append(q, x))
  BY <1>1, <1>3 DEF Holds, Once
<1> QED BY <1>1, <1>2, <1>3

LEMMA TailHolds ==
  ASSUME NEW q \in Seq(Request), q # <<>>
  PROVE  /\ Tail(q) \in Seq(Request) /\ Head(q) \in Request
         /\ \A y : Holds(q, y) <=> Holds(Tail(q), y) \/ y = Head(q)
         /\ Once(q) => Once(Tail(q))
         /\ Once(q) /\ Head(q) \in Task => \A t \in Task : ~Holds(Tail(q), t)
<1>1. /\ Tail(q) \in Seq(Request) /\ Head(q) = q[1] /\ q[1] \in Request
      /\ DOMAIN Tail(q) = 1..Len(q) - 1 /\ DOMAIN q = 1..Len(q) /\ Len(q) \in Nat \ {0}
      /\ \A i \in 1..Len(q) - 1 : Tail(q)[i] = q[i + 1]
  OBVIOUS
<1>2. ASSUME NEW y, Holds(q, y) PROVE Holds(Tail(q), y) \/ y = Head(q)
  <2>1. PICK i \in 1..Len(q) : q[i] = y
    BY <1>1, <1>2 DEF Holds
  <2>2. CASE i = 1
    BY <1>1, <2>1, <2>2
  <2>3. CASE i # 1
    <3>1. i - 1 \in 1..Len(q) - 1 /\ (i - 1) + 1 = i
      BY <1>1, <2>3
    <3>2. Tail(q)[i - 1] = y
      BY <1>1, <2>1, <3>1
    <3> QED BY <1>1, <3>1, <3>2 DEF Holds
  <2> QED BY <2>2, <2>3
<1>3. ASSUME NEW y, Holds(Tail(q), y) \/ y = Head(q) PROVE Holds(q, y)
  BY <1>1, <1>3 DEF Holds
<1>4. ASSUME Once(q) PROVE Once(Tail(q))
  <2>1. ASSUME NEW i \in 1..Len(q) - 1, NEW j \in 1..Len(q) - 1, Tail(q)[i] \in Task, Tail(q)[j] \in Task
        PROVE  i = j
    <3>1. i + 1 \in DOMAIN q /\ j + 1 \in DOMAIN q /\ q[i + 1] \in Task /\ q[j + 1] \in Task
      BY <1>1, <2>1
    <3> QED BY <1>4, <3>1 DEF Once
  <2> QED BY <1>1, <2>1 DEF Once
<1>5. ASSUME Once(q), Head(q) \in Task, NEW t \in Task, Holds(Tail(q), t) PROVE FALSE
  <2>1. PICK i \in 1..Len(q) - 1 : Tail(q)[i] = t
    BY <1>1, <1>5 DEF Holds
  <2>2. i + 1 \in DOMAIN q /\ 1 \in DOMAIN q /\ q[i + 1] \in Task /\ q[1] \in Task /\ i + 1 # 1
    BY <1>1, <1>5, <2>1
  <2> QED BY <1>5, <2>2 DEF Once
<1> QED BY <1>1, <1>2, <1>3, <1>4, <1>5

LEMMA EmptyHolds ==
  /\ <<>> \in Seq(Request)
  /\ Once(<<>>)
  /\ \A y : ~Holds(<<>>, y)
BY DEF Holds, Once

\* A cancelled request stays in the queue, as one nobody waits for.
LEMMA GoneHolds ==
  ASSUME NEW q \in Seq(Request), NEW t \in Task, NEW r,
         r = [i \in DOMAIN q |-> IF q[i] = t THEN Gone ELSE q[i]]
  PROVE  /\ r \in Seq(Request)
         /\ \A u \in Task \ {t} : Holds(r, u) <=> Holds(q, u)
         /\ ~Holds(r, t)
         /\ Once(q) => Once(r)
<1>1. DOMAIN q = 1..Len(q) /\ Len(q) \in Nat /\ \A i \in DOMAIN q : q[i] \in Request
  OBVIOUS
<1>2. r \in [1..Len(q) -> Request]
  BY <1>1 DEF Request
<1>3. r \in Seq(Request)
  BY <1>1, <1>2
<1>4. \A u \in Task : u # Gone
  BY ResourceAssumption DEF Gone
<1>5. \A u \in Task \ {t} : Holds(r, u) <=> Holds(q, u)
  BY <1>1, <1>4 DEF Holds
<1>6. ~Holds(r, t)
  BY <1>1, <1>4 DEF Holds
<1>7. Once(q) => Once(r)
  BY <1>1, <1>4 DEF Once
<1> QED BY <1>3, <1>5, <1>6, <1>7

LEMMA InitInv == Init => Inv
<1> SUFFICES ASSUME Init PROVE Inv
  OBVIOUS
<1>1. Types
  BY EmptyHolds DEF Init, Types, Place
<1>2. Locks
  BY ResourceAssumption DEF Init, Locks, Reading
<1>3. Source
  BY EmptyHolds DEF Init, Source, OpenWasReady
<1>6. Asked
  BY EmptyHolds, ResourceAssumption DEF Init, Asked
<1>4. Attended
  BY DEF Init, Attended
<1>5. Runtimes
  BY DEF Init, Runtimes, Modelling, RuntimeKnown, NothingForgotten
<1> QED BY <1>1, <1>2, <1>3, <1>4, <1>5, <1>6 DEF Inv

-----------------------------------------------------------------------------
(* What the parts of an action do to each part of the invariant *)

LEMMA AskEffect ==
  ASSUME Inv, NEW t \in Task, Ask(t), task[t] \in {"lock", "opening", "answered"}, lock \in {None, t}
  PROVE  /\ task' \in [Task -> Place] /\ task'[t] \in {"failed", "waiting"}
         /\ \A u \in Task \ {t} : task'[u] = task[u] /\ task[u] # "waiting"
         /\ queue' \in Seq(Request) /\ Once(queue')
         /\ \A u \in Task : Holds(queue', u) <=> u = t /\ task'[t] = "waiting"
         /\ serving \notin Task
<1> USE DEF Inv, Types
<1>1. t \in Request
  BY DEF Request
<1>2. \A u \in Task : task[u] # "waiting"
  BY ResourceAssumption DEF Locks, Reading
<1>3. serving \notin Task /\ Once(queue) /\ \A u \in Task : ~Holds(queue, u)
  BY <1>2 DEF Asked
<1>4. CASE owner \in {"none", "done"}
  BY <1>2, <1>3, <1>4 DEF Ask, Goto, Place
<1>5. CASE owner \notin {"none", "done"}
  <2>1. queue' = Append(queue, t) /\ task' = [task EXCEPT ![t] = "waiting"]
    BY <1>5 DEF Ask, Goto
  <2>2. /\ queue' \in Seq(Request) /\ Once(queue')
        /\ \A y : Holds(queue', y) <=> Holds(queue, y) \/ y = t
    BY <1>1, <1>3, <2>1, AppendHolds
  <2> QED BY <1>2, <1>3, <2>1, <2>2 DEF Place
<1> QED BY <1>4, <1>5

\* A cancelled task is over, or goes on to close what it has opened.
LEMMA CancelledEffect ==
  ASSUME Inv, NEW t \in Task, Cancelled(t)
  PROVE  /\ task' \in [Task -> Place]
         /\ \A u \in Task \ {t} : task'[u] = task[u]
         /\ task'[t] \in {"idle", "abandoning", "forcing"}
         /\ task'[t] = "abandoning" => task[t] = "opening"
         /\ task'[t] = "forcing" => task[t] \in Modelling
         /\ task'[t] = "idle" => lock' = (IF lock = t THEN None ELSE lock)
         /\ task'[t] # "idle" => lock' = lock
         /\ uses' = uses
         /\ queue' \in Seq(Request) /\ Once(queue')
         /\ \A u \in Task : Holds(queue', u) => u # t /\ Holds(queue, u)
         /\ \A u \in Task \ {t} : Holds(queue, u) => Holds(queue', u) \/ task[t] = "abandoning"
         /\ (serving' = serving /\ serving # t) \/ (serving = t /\ serving' = Gone /\ task[t] = "waiting")
         /\ owner' = owner \/ task[t] = "abandoning"
         /\ ready' = ready \/ task[t] = "opening"
<1> USE DEF Inv, Types
<1>0. /\ Once(queue)
      /\ task[t] # "waiting" => serving # t /\ ~Holds(queue, t)
  BY DEF Asked
<1>1. Close \in Request
  BY DEF Request
<1>2. \A u \in Task : u # Close
  BY ResourceAssumption DEF Close
<1>3. CASE task[t] \in {"lock", "read", "answered", "failed"}
  BY <1>0, <1>3 DEF Cancelled, Over, Goto, Place
<1>4. CASE task[t] = "waiting"
  <2>1. /\ task' = [task EXCEPT ![t] = "idle"] /\ lock' = IF lock = t THEN None ELSE lock
        /\ queue' = [i \in DOMAIN queue |-> IF queue[i] = t THEN Gone ELSE queue[i]]
        /\ serving' = IF serving = t THEN Gone ELSE serving
        /\ UNCHANGED <<uses, owner, ready>>
    BY <1>0, <1>4 DEF Cancelled, Over, Goto
  <2>2. /\ queue' \in Seq(Request) /\ Once(queue') /\ ~Holds(queue', t)
        /\ \A u \in Task \ {t} : Holds(queue', u) <=> Holds(queue, u)
    BY <1>0, <2>1, GoneHolds
  <2> QED BY <1>0, <1>4, <2>1, <2>2 DEF Place
<1>5. CASE task[t] = "opening"
  <2>1. /\ task' = [task EXCEPT ![t] = "abandoning"] /\ lock' = lock
        /\ queue' = Append(queue, Close)
        /\ UNCHANGED <<uses, owner, serving>>
    BY <1>0, <1>5 DEF Cancelled, Goto
  <2>2. /\ queue' \in Seq(Request) /\ Once(queue')
        /\ \A y : Holds(queue', y) <=> Holds(queue, y) \/ y = Close
    BY <1>0, <1>1, <1>2, <2>1, AppendHolds
  <2> QED BY <1>0, <1>2, <1>5, <2>1, <2>2 DEF Place
<1>6. CASE task[t] = "abandoning"
  BY <1>0, <1>6, EmptyHolds DEF Cancelled, Over, Goto, Place
<1>7. CASE task[t] \in Modelling
  BY <1>0, <1>7 DEF Cancelled, Goto, Modelling, Place
<1> QED BY <1>3, <1>4, <1>5, <1>6, <1>7 DEF Cancelled, Modelling

\* When the owner fails, only tasks that wait in its queue are touched.
LEMMA FailsEffect ==
  ASSUME Inv, OwnerFails
  PROVE  /\ task' \in [Task -> Place]
         /\ \A t \in Task : task'[t] = task[t] \/ (task[t] = "waiting" /\ task'[t] = "failed")
         /\ \A t \in Task : task'[t] = "waiting" => task[t] = "waiting" /\ ~Holds(queue, t)
         /\ queue' = <<>> /\ owner' = "done"
BY DEF OwnerFails, Drain, Holds, Inv, Types, Place
\* The request to close is nobody's.
LEMMA CloseEffect ==
  ASSUME Inv
  PROVE  /\ Append(queue, Close) \in Seq(Request) /\ Once(Append(queue, Close))
         /\ \A u \in Task : Holds(Append(queue, Close), u) <=> Holds(queue, u)
<1>1. Close \in Request /\ Close \notin Task
  BY ResourceAssumption DEF Request, Close
<1> QED BY <1>1, AppendHolds DEF Inv, Types, Asked

\* The owner takes the next request, of a task or not.
LEMMA GetEffect ==
  ASSUME Inv, Get
  PROVE  /\ owner = "serving" /\ serving = None
         /\ UNCHANGED <<sync, sourceOpen, ready, session, torn, tasks, runtimes, faults>>
         /\ queue' \in Seq(Request) /\ Once(queue')
         /\ \/ /\ serving' \in Task /\ owner' = "busy"
               /\ \A u \in Task : Holds(queue, u) <=> u = serving'
               /\ \A u \in Task : ~Holds(queue', u)
            \/ /\ serving' = None /\ owner' \in {"serving", "leaving"}
               /\ \A u \in Task : Holds(queue', u) <=> Holds(queue, u)
<1>1. /\ owner = "serving" /\ serving = None /\ Once(queue)
      /\ queue' = Tail(queue) /\ queue # <<>>
      /\ UNCHANGED <<sync, sourceOpen, ready, session, torn, tasks, runtimes, faults>>
  BY DEF Get, Inv, Source, Asked
<1>2. /\ Tail(queue) \in Seq(Request) /\ Head(queue) \in Request /\ Once(Tail(queue))
      /\ \A u \in Task : Holds(queue, u) <=> Holds(Tail(queue), u) \/ u = Head(queue)
      /\ Head(queue) \in Task => \A u \in Task : ~Holds(Tail(queue), u)
  BY <1>1, TailHolds DEF Inv, Types
<1>3. CASE Head(queue) \in Task
  <2>1. serving' = Head(queue) /\ owner' = "busy"
    BY <1>3, ResourceAssumption DEF Get, Gone, Close
  <2> QED BY <1>1, <1>2, <1>3, <2>1
<1>4. CASE Head(queue) \notin Task
  <2>1. serving' = serving /\ owner' \in {"serving", "leaving"}
    BY <1>1, <1>2, <1>4 DEF Get, Request
  <2> QED BY <1>1, <1>2, <1>4, <2>1
<1> QED BY <1>3, <1>4

\* Under the lock the source is opened, or a page is asked for.
LEMMA LockEffect ==
  ASSUME Inv, NEW t \in Task, Lock(t)
  PROVE  /\ task[t] = "lock" /\ lock = None /\ lock' = t
         /\ UNCHANGED <<sync, sourceOpen, session, serving, torn, job, doomed, uses, runtimes, faults>>
         /\ task' \in [Task -> Place]
         /\ \A u \in Task \ {t} : task'[u] = task[u] /\ task[u] \notin Reading
         /\ queue' \in Seq(Request) /\ Once(queue')
         /\ serving \notin Task
         /\ \A u \in Task : Holds(queue', u) <=> u = t /\ task'[t] = "waiting"
         /\ \/ /\ job[t] = "discover" /\ ~sourceOpen
               /\ task'[t] = "opening" /\ owner' = "starting" /\ ready' = "pending"
            \/ /\ sourceOpen /\ UNCHANGED <<owner, ready>>
               /\ task'[t] \in {"waiting", "failed"}
<1> USE ResourceAssumption DEF Inv, Types
<1>1. /\ task[t] = "lock" /\ lock = None /\ lock' = t
      /\ UNCHANGED <<sync, sourceOpen, session, serving, torn, job, doomed, uses, runtimes, faults>>
  BY DEF Lock
<1>2. \A u \in Task : task[u] \notin Reading
  BY <1>1 DEF Locks, Reading
<1>3. serving \notin Task
  BY <1>2 DEF Asked, Reading
<1>4. CASE job[t] = "discover" /\ ~sourceOpen
  <2>1. task' = [task EXCEPT ![t] = "opening"] /\ queue' = <<>> /\ owner' = "starting" /\ ready' = "pending"
    BY <1>4 DEF Lock, Goto
  <2> QED BY <1>1, <1>2, <1>3, <1>4, <2>1, EmptyHolds DEF Place
<1>5. CASE ~(job[t] = "discover" /\ ~sourceOpen)
  <2>1. Ask(t) /\ UNCHANGED <<owner, ready>>
    BY <1>5 DEF Lock
  <2>2. sourceOpen
    BY <1>1, <1>5 DEF Source
  <2> QED BY <1>1, <1>2, <1>3, <2>1, <2>2, AskEffect
<1> QED BY <1>4, <1>5

\* The source is open and the first page is asked for; or it is closed again.
LEMMA OpenedEffect ==
  ASSUME Inv, NEW t \in Task, Opened(t)
  PROVE  /\ task[t] = "opening" /\ ~sourceOpen /\ lock = t
         /\ UNCHANGED <<sync, owner, ready, session, serving, torn, lock, job, doomed, uses, runtimes, faults>>
         /\ task' \in [Task -> Place]
         /\ \A u \in Task \ {t} : task'[u] = task[u] /\ task[u] \notin Reading
         /\ queue' \in Seq(Request) /\ Once(queue')
         /\ serving = None
         /\ \A u \in Task : Holds(queue', u) <=> u = t /\ task'[t] = "waiting"
         /\ \/ ready = "ok" /\ sourceOpen' = TRUE /\ task'[t] \in {"waiting", "failed"}
            \/ sourceOpen' = sourceOpen /\ task'[t] = "abandoning"
<1> USE ResourceAssumption DEF Inv, Types
<1>1. /\ task[t] = "opening" /\ ~sourceOpen /\ lock = t
      /\ UNCHANGED <<sync, owner, ready, session, serving, torn, lock, job, doomed, uses, runtimes, faults>>
  BY DEF Opened, Source, Locks, Reading
<1>2. \A u \in Task \ {t} : task[u] \notin Reading
  BY <1>1 DEF Locks
<1>3. serving = None /\ \A u \in Task : ~Holds(queue, u)
  BY <1>1 DEF Source
<1>4. CASE ready = "ok"
  <2>1. Ask(t) /\ sourceOpen' = TRUE
    BY <1>4 DEF Opened
  <2> QED BY <1>1, <1>2, <1>3, <1>4, <2>1, AskEffect
<1>5. CASE ready # "ok"
  <2>1. task' = [task EXCEPT ![t] = "abandoning"] /\ queue' = Append(queue, Close) /\ sourceOpen' = sourceOpen
    BY <1>5 DEF Opened, Goto
  <2> QED BY <1>1, <1>2, <1>3, <2>1, CloseEffect DEF Place
<1> QED BY <1>4, <1>5

LEMMA MoreEffect ==
  ASSUME Inv, NEW t \in Task, More(t)
  PROVE  /\ task[t] = "answered" /\ sourceOpen /\ lock = t
         /\ UNCHANGED <<sync, sourceOpen, owner, ready, session, serving, torn, job, doomed, uses, lock, runtimes, faults>>
         /\ task' \in [Task -> Place] /\ task'[t] \in {"waiting", "failed"}
         /\ \A u \in Task \ {t} : task'[u] = task[u] /\ task[u] \notin Reading
         /\ queue' \in Seq(Request) /\ Once(queue')
         /\ serving \notin Task
         /\ \A u \in Task : Holds(queue', u) <=> u = t /\ task'[t] = "waiting"
<1> USE ResourceAssumption DEF Inv, Types
<1>1. /\ task[t] = "answered" /\ sourceOpen /\ lock = t /\ Ask(t)
      /\ UNCHANGED <<sync, sourceOpen, owner, ready, session, serving, torn, job, doomed, uses, lock, runtimes, faults>>
  BY DEF More, Source, Locks, Reading
<1>2. \A u \in Task \ {t} : task[u] \notin Reading
  BY <1>1 DEF Locks
<1> QED BY <1>1, <1>2, AskEffect

-----------------------------------------------------------------------------
(* Every step *)

LEMMA TypesStep ==
  ASSUME Inv, [Next]_vars
  PROVE  Types'
<1> USE ResourceAssumption DEF Inv
<1>1. CASE Started
  BY <1>1, FailsEffect, EmptyHolds DEF Started, Place, Types, mail, tasks, runtimes
<1>2. CASE StartFails
  BY <1>2, FailsEffect, EmptyHolds DEF StartFails, Place, Types, mail, tasks, runtimes
<1>3. CASE Get
  BY <1>3, GetEffect DEF Place, Types, mail, tasks, runtimes
<1>4. CASE Answer
  BY <1>4 DEF Answer, Goto, Place, Types, mail, tasks, runtimes
<1>5. CASE SessionDies
  BY <1>5 DEF SessionDies, Place, Types, mail, tasks, runtimes
<1>6. CASE Tear
  BY <1>6, FailsEffect, EmptyHolds DEF Tear, Place, Types, mail, tasks, runtimes
<1>7. CASE OwnerLeaves
  BY <1>7 DEF OwnerLeaves, Place, Types, mail, tasks, runtimes
<1>8. ASSUME NEW t \in Task, Begin(t) PROVE Types'
  BY <1>8 DEF Begin, Goto, Place, Types, mail, tasks, runtimes
<1>9. ASSUME NEW t \in Task, Lock(t) PROVE Types'
  BY <1>9, LockEffect DEF Place, Types, mail, tasks, runtimes
<1>10. ASSUME NEW t \in Task, Opened(t) PROVE Types'
  BY <1>10, OpenedEffect DEF Place, Types, mail, tasks, runtimes
<1>11. ASSUME NEW t \in Task, Abandoned(t) PROVE Types'
  BY <1>11, EmptyHolds DEF Abandoned, Goto, Over, Place, Types, mail, tasks, runtimes
<1>12. ASSUME NEW t \in Task, More(t) PROVE Types'
  BY <1>12, MoreEffect DEF Place, Types, mail, tasks, runtimes
<1>13. ASSUME NEW t \in Task, Complete(t) PROVE Types'
  BY <1>13 DEF Complete, Goto, Over, Place, Types, mail, tasks, runtimes
<1>14. ASSUME NEW t \in Task, FetchFailed(t) PROVE Types'
  BY <1>14 DEF FetchFailed, Goto, Over, Place, Types, mail, tasks, runtimes
<1>15. ASSUME NEW t \in Task, NewClient(t) PROVE Types'
  BY <1>15 DEF NewClient, NotCreated, Goto, Over, Place, Types, mail, tasks, runtimes
<1>16. ASSUME NEW t \in Task, Model(t) PROVE Types'
  BY <1>16 DEF Model, Goto, Place, Types, mail, tasks, runtimes
<1>17. ASSUME NEW t \in Task, ModelFails(t) PROVE Types'
  BY <1>17 DEF ModelFails, Goto, Place, Types, mail, tasks, runtimes
<1>18. ASSUME NEW t \in Task, StopClient(t) PROVE Types'
  BY <1>18 DEF StopClient, Goto, Leave, Over, Release, Place, Types, mail, tasks, runtimes
<1>19. ASSUME NEW t \in Task, ForceStop(t) PROVE Types'
  BY <1>19 DEF ForceStop, Leave, Over, Goto, Release, Place, Types, mail, tasks, runtimes
<1>20. ASSUME NEW t \in Task, Cancel(t) PROVE Types'
  BY <1>20, CancelledEffect DEF Cancel, Place, Types, mail, tasks, runtimes
<1>21. CASE CloseSync
  BY <1>21 DEF CloseSync, Place, Types, mail, tasks, runtimes
<1>22. ASSUME NEW t \in Task, CloseCancels(t) PROVE Types'
  BY <1>22, CancelledEffect DEF CloseCancels, Place, Types, mail, tasks, runtimes
<1>23. CASE CloseSource
  BY <1>23, CloseEffect DEF CloseSource, Place, Types, mail, tasks, runtimes
<1>24. ASSUME NEW c \in Client, CloseClient(c) PROVE Types'
  BY <1>24 DEF CloseClient, Place, Types, mail, tasks, runtimes
<1>25. CASE Closed
  BY <1>25, EmptyHolds DEF Closed, Place, Types, mail, tasks, runtimes
<1>26. CASE Load
  BY <1>26 DEF Load, Place, Types, mail, tasks, runtimes
<1>27. CASE UNCHANGED vars
  BY <1>27 DEF vars, Place, Types, mail, tasks, runtimes
<1> QED
  BY <1>1, <1>2, <1>3, <1>4, <1>5, <1>6, <1>7, <1>8, <1>9, <1>10, <1>11, <1>12, <1>13, <1>14, <1>15,
     <1>16, <1>17, <1>18, <1>19, <1>20, <1>21, <1>22, <1>23, <1>24, <1>25, <1>26, <1>27
     DEF Next, Own, Run, Closing

LEMMA LocksStep ==
  ASSUME Inv, [Next]_vars
  PROVE  Locks'
<1> USE ResourceAssumption DEF Inv
<1>1. CASE Started
  BY <1>1, FailsEffect, EmptyHolds DEF Started, Locks, Reading, Types, mail, tasks, runtimes
<1>2. CASE StartFails
  BY <1>2, FailsEffect, EmptyHolds DEF StartFails, Locks, Reading, Types, mail, tasks, runtimes
<1>3. CASE Get
  BY <1>3, GetEffect DEF Locks, Reading, Types, mail, tasks, runtimes
<1>4. CASE Answer
  BY <1>4 DEF Answer, Goto, Locks, Reading, Types, mail, tasks, runtimes, Asked
<1>5. CASE SessionDies
  BY <1>5 DEF SessionDies, Locks, Reading, Types, mail, tasks, runtimes
<1>6. CASE Tear
  BY <1>6, FailsEffect, EmptyHolds DEF Tear, Locks, Reading, Types, mail, tasks, runtimes
<1>7. CASE OwnerLeaves
  BY <1>7 DEF OwnerLeaves, Locks, Reading, Types, mail, tasks, runtimes
<1>8. ASSUME NEW t \in Task, Begin(t) PROVE Locks'
  BY <1>8 DEF Begin, Goto, Locks, Reading, Types, mail, tasks, runtimes
<1>9. ASSUME NEW t \in Task, Lock(t) PROVE Locks'
  BY <1>9, LockEffect DEF Locks, Reading, Types, mail, tasks, runtimes
<1>10. ASSUME NEW t \in Task, Opened(t) PROVE Locks'
  BY <1>10, OpenedEffect DEF Locks, Reading, Types, mail, tasks, runtimes
<1>11. ASSUME NEW t \in Task, Abandoned(t) PROVE Locks'
  BY <1>11, EmptyHolds DEF Abandoned, Goto, Over, Locks, Reading, Types, mail, tasks, runtimes
<1>12. ASSUME NEW t \in Task, More(t) PROVE Locks'
  BY <1>12, MoreEffect DEF Locks, Reading, Types, mail, tasks, runtimes
<1>13. ASSUME NEW t \in Task, Complete(t) PROVE Locks'
  BY <1>13 DEF Complete, Goto, Over, Locks, Reading, Types, mail, tasks, runtimes
<1>14. ASSUME NEW t \in Task, FetchFailed(t) PROVE Locks'
  BY <1>14 DEF FetchFailed, Goto, Over, Locks, Reading, Types, mail, tasks, runtimes
<1>15. ASSUME NEW t \in Task, NewClient(t) PROVE Locks'
  BY <1>15 DEF NewClient, NotCreated, Goto, Over, Locks, Reading, Types, mail, tasks, runtimes
<1>16. ASSUME NEW t \in Task, Model(t) PROVE Locks'
  BY <1>16 DEF Model, Goto, Locks, Reading, Types, mail, tasks, runtimes
<1>17. ASSUME NEW t \in Task, ModelFails(t) PROVE Locks'
  BY <1>17 DEF ModelFails, Goto, Locks, Reading, Types, mail, tasks, runtimes
<1>18. ASSUME NEW t \in Task, StopClient(t) PROVE Locks'
  BY <1>18 DEF StopClient, Goto, Leave, Over, Release, Locks, Reading, Types, mail, tasks, runtimes
<1>19. ASSUME NEW t \in Task, ForceStop(t) PROVE Locks'
  BY <1>19 DEF ForceStop, Leave, Over, Goto, Release, Locks, Reading, Types, mail, tasks, runtimes
<1>20. ASSUME NEW t \in Task, Cancel(t) PROVE Locks'
  BY <1>20, CancelledEffect DEF Cancel, Locks, Reading, Types, mail, tasks, runtimes, Modelling
<1>21. CASE CloseSync
  BY <1>21 DEF CloseSync, Locks, Reading, Types, mail, tasks, runtimes
<1>22. ASSUME NEW t \in Task, CloseCancels(t) PROVE Locks'
  BY <1>22, CancelledEffect DEF CloseCancels, Locks, Reading, Types, mail, tasks, runtimes, Modelling
<1>23. CASE CloseSource
  BY <1>23, CloseEffect DEF CloseSource, Locks, Reading, Types, mail, tasks, runtimes
<1>24. ASSUME NEW c \in Client, CloseClient(c) PROVE Locks'
  BY <1>24 DEF CloseClient, Locks, Reading, Types, mail, tasks, runtimes
<1>25. CASE Closed
  BY <1>25, EmptyHolds DEF Closed, Locks, Reading, Types, mail, tasks, runtimes
<1>26. CASE Load
  BY <1>26 DEF Load, Locks, Reading, Types, mail, tasks, runtimes
<1>27. CASE UNCHANGED vars
  BY <1>27 DEF vars, Locks, Reading, Types, mail, tasks, runtimes
<1> QED
  BY <1>1, <1>2, <1>3, <1>4, <1>5, <1>6, <1>7, <1>8, <1>9, <1>10, <1>11, <1>12, <1>13, <1>14, <1>15,
     <1>16, <1>17, <1>18, <1>19, <1>20, <1>21, <1>22, <1>23, <1>24, <1>25, <1>26, <1>27
     DEF Next, Own, Run, Closing

LEMMA AskedStep ==
  ASSUME Inv, [Next]_vars
  PROVE  Asked'
<1> USE ResourceAssumption DEF Inv
<1>1. CASE Started
  BY <1>1, FailsEffect, EmptyHolds DEF Started, Asked, Reading, Locks, Types, mail, tasks, runtimes, Source
<1>2. CASE StartFails
  BY <1>2, FailsEffect, EmptyHolds DEF StartFails, Asked, Reading, Locks, Types, mail, tasks, runtimes, Source
<1>3. CASE Get
  BY <1>3, GetEffect DEF Asked, Reading, Locks, Types, mail, tasks, runtimes
<1>4. CASE Answer
  BY <1>4 DEF Answer, Goto, Asked, Reading, Locks, Types, mail, tasks, runtimes
<1>5. CASE SessionDies
  BY <1>5 DEF SessionDies, Asked, Reading, Locks, Types, mail, tasks, runtimes
<1>6. CASE Tear
  BY <1>6, FailsEffect, EmptyHolds DEF Tear, Asked, Reading, Locks, Types, mail, tasks, runtimes
<1>7. CASE OwnerLeaves
  BY <1>7 DEF OwnerLeaves, Asked, Reading, Locks, Types, mail, tasks, runtimes
<1>8. ASSUME NEW t \in Task, Begin(t) PROVE Asked'
  BY <1>8 DEF Begin, Goto, Asked, Reading, Locks, Types, mail, tasks, runtimes
<1>9. ASSUME NEW t \in Task, Lock(t) PROVE Asked'
  BY <1>9, LockEffect DEF Asked, Reading, Locks, Types, mail, tasks, runtimes
<1>10. ASSUME NEW t \in Task, Opened(t) PROVE Asked'
  BY <1>10, OpenedEffect DEF Asked, Reading, Locks, Types, mail, tasks, runtimes
<1>11. ASSUME NEW t \in Task, Abandoned(t) PROVE Asked'
  BY <1>11, EmptyHolds DEF Abandoned, Goto, Over, Asked, Reading, Locks, Types, mail, tasks, runtimes
<1>12. ASSUME NEW t \in Task, More(t) PROVE Asked'
  BY <1>12, MoreEffect DEF Asked, Reading, Locks, Types, mail, tasks, runtimes
<1>13. ASSUME NEW t \in Task, Complete(t) PROVE Asked'
  BY <1>13 DEF Complete, Goto, Over, Asked, Reading, Locks, Types, mail, tasks, runtimes
<1>14. ASSUME NEW t \in Task, FetchFailed(t) PROVE Asked'
  BY <1>14 DEF FetchFailed, Goto, Over, Asked, Reading, Locks, Types, mail, tasks, runtimes
<1>15. ASSUME NEW t \in Task, NewClient(t) PROVE Asked'
  BY <1>15 DEF NewClient, NotCreated, Goto, Over, Asked, Reading, Locks, Types, mail, tasks, runtimes
<1>16. ASSUME NEW t \in Task, Model(t) PROVE Asked'
  BY <1>16 DEF Model, Goto, Asked, Reading, Locks, Types, mail, tasks, runtimes
<1>17. ASSUME NEW t \in Task, ModelFails(t) PROVE Asked'
  BY <1>17 DEF ModelFails, Goto, Asked, Reading, Locks, Types, mail, tasks, runtimes
<1>18. ASSUME NEW t \in Task, StopClient(t) PROVE Asked'
  BY <1>18 DEF StopClient, Goto, Leave, Over, Release, Asked, Reading, Locks, Types, mail, tasks, runtimes
<1>19. ASSUME NEW t \in Task, ForceStop(t) PROVE Asked'
  BY <1>19 DEF ForceStop, Leave, Over, Goto, Release, Asked, Reading, Locks, Types, mail, tasks, runtimes
<1>20. ASSUME NEW t \in Task, Cancel(t) PROVE Asked'
  BY <1>20, CancelledEffect DEF Cancel, Asked, Reading, Locks, Types, mail, tasks, runtimes, Gone
<1>21. CASE CloseSync
  BY <1>21 DEF CloseSync, Asked, Reading, Locks, Types, mail, tasks, runtimes
<1>22. ASSUME NEW t \in Task, CloseCancels(t) PROVE Asked'
  BY <1>22, CancelledEffect DEF CloseCancels, Asked, Reading, Locks, Types, mail, tasks, runtimes, Gone
<1>23. CASE CloseSource
  BY <1>23, CloseEffect DEF CloseSource, Asked, Reading, Locks, Types, mail, tasks, runtimes
<1>24. ASSUME NEW c \in Client, CloseClient(c) PROVE Asked'
  BY <1>24 DEF CloseClient, Asked, Reading, Locks, Types, mail, tasks, runtimes
<1>25. CASE Closed
  BY <1>25, EmptyHolds DEF Closed, Asked, Reading, Locks, Types, mail, tasks, runtimes
<1>26. CASE Load
  BY <1>26 DEF Load, Asked, Reading, Locks, Types, mail, tasks, runtimes
<1>27. CASE UNCHANGED vars
  BY <1>27 DEF vars, Asked, Reading, Locks, Types, mail, tasks, runtimes
<1> QED
  BY <1>1, <1>2, <1>3, <1>4, <1>5, <1>6, <1>7, <1>8, <1>9, <1>10, <1>11, <1>12, <1>13, <1>14, <1>15,
     <1>16, <1>17, <1>18, <1>19, <1>20, <1>21, <1>22, <1>23, <1>24, <1>25, <1>26, <1>27
     DEF Next, Own, Run, Closing

LEMMA SourceStep ==
  ASSUME Inv, [Next]_vars
  PROVE  Source'
<1> USE ResourceAssumption DEF Inv
<1>1. CASE Started
  BY <1>1, FailsEffect, EmptyHolds DEF Started, Source, OpenWasReady, Locks, Reading, Types, mail, tasks, runtimes
<1>2. CASE StartFails
  BY <1>2, FailsEffect, EmptyHolds DEF StartFails, Source, OpenWasReady, Locks, Reading, Types, mail, tasks, runtimes
<1>3. CASE Get
  BY <1>3, GetEffect DEF Source, OpenWasReady, Locks, Reading, Types, mail, tasks, runtimes
<1>4. CASE Answer
  BY <1>4 DEF Answer, Goto, Source, OpenWasReady, Locks, Reading, Types, mail, tasks, runtimes
<1>5. CASE SessionDies
  BY <1>5 DEF SessionDies, Source, OpenWasReady, Locks, Reading, Types, mail, tasks, runtimes
<1>6. CASE Tear
  BY <1>6, FailsEffect, EmptyHolds DEF Tear, Source, OpenWasReady, Locks, Reading, Types, mail, tasks, runtimes
<1>7. CASE OwnerLeaves
  BY <1>7 DEF OwnerLeaves, Source, OpenWasReady, Locks, Reading, Types, mail, tasks, runtimes
<1>8. ASSUME NEW t \in Task, Begin(t) PROVE Source'
  BY <1>8 DEF Begin, Goto, Source, OpenWasReady, Locks, Reading, Types, mail, tasks, runtimes
<1>9. ASSUME NEW t \in Task, Lock(t) PROVE Source'
  BY <1>9, LockEffect DEF Source, OpenWasReady, Locks, Reading, Types, mail, tasks, runtimes
<1>10. ASSUME NEW t \in Task, Opened(t) PROVE Source'
  BY <1>10, OpenedEffect DEF Source, OpenWasReady, Locks, Reading, Types, mail, tasks, runtimes
<1>11. ASSUME NEW t \in Task, Abandoned(t) PROVE Source'
  BY <1>11, EmptyHolds DEF Abandoned, Goto, Over, Source, OpenWasReady, Locks, Reading, Types, mail, tasks, runtimes
<1>12. ASSUME NEW t \in Task, More(t) PROVE Source'
  BY <1>12, MoreEffect DEF Source, OpenWasReady, Locks, Reading, Types, mail, tasks, runtimes
<1>13. ASSUME NEW t \in Task, Complete(t) PROVE Source'
  BY <1>13 DEF Complete, Goto, Over, Source, OpenWasReady, Locks, Reading, Types, mail, tasks, runtimes
<1>14. ASSUME NEW t \in Task, FetchFailed(t) PROVE Source'
  BY <1>14 DEF FetchFailed, Goto, Over, Source, OpenWasReady, Locks, Reading, Types, mail, tasks, runtimes
<1>15. ASSUME NEW t \in Task, NewClient(t) PROVE Source'
  BY <1>15 DEF NewClient, NotCreated, Goto, Over, Source, OpenWasReady, Locks, Reading, Types, mail, tasks, runtimes
<1>16. ASSUME NEW t \in Task, Model(t) PROVE Source'
  BY <1>16 DEF Model, Goto, Source, OpenWasReady, Locks, Reading, Types, mail, tasks, runtimes
<1>17. ASSUME NEW t \in Task, ModelFails(t) PROVE Source'
  BY <1>17 DEF ModelFails, Goto, Source, OpenWasReady, Locks, Reading, Types, mail, tasks, runtimes
<1>18. ASSUME NEW t \in Task, StopClient(t) PROVE Source'
  BY <1>18 DEF StopClient, Goto, Leave, Over, Release, Source, OpenWasReady, Locks, Reading, Types, mail, tasks, runtimes
<1>19. ASSUME NEW t \in Task, ForceStop(t) PROVE Source'
  BY <1>19 DEF ForceStop, Leave, Over, Goto, Release, Source, OpenWasReady, Locks, Reading, Types, mail, tasks, runtimes
<1>20. ASSUME NEW t \in Task, Cancel(t) PROVE Source'
  BY <1>20, CancelledEffect DEF Cancel, Source, OpenWasReady, Locks, Reading, Types, mail, tasks, runtimes, Modelling
<1>21. CASE CloseSync
  BY <1>21 DEF CloseSync, Source, OpenWasReady, Locks, Reading, Types, mail, tasks, runtimes
<1>22. ASSUME NEW t \in Task, CloseCancels(t) PROVE Source'
  BY <1>22, CancelledEffect DEF CloseCancels, Source, OpenWasReady, Locks, Reading, Types, mail, tasks, runtimes, Modelling
<1>23. CASE CloseSource
  BY <1>23, CloseEffect DEF CloseSource, Source, OpenWasReady, Locks, Reading, Types, mail, tasks, runtimes
<1>24. ASSUME NEW c \in Client, CloseClient(c) PROVE Source'
  BY <1>24 DEF CloseClient, Source, OpenWasReady, Locks, Reading, Types, mail, tasks, runtimes
<1>25. CASE Closed
  BY <1>25, EmptyHolds DEF Closed, Source, OpenWasReady, Locks, Reading, Types, mail, tasks, runtimes
<1>26. CASE Load
  BY <1>26 DEF Load, Source, OpenWasReady, Locks, Reading, Types, mail, tasks, runtimes
<1>27. CASE UNCHANGED vars
  BY <1>27 DEF vars, Source, OpenWasReady, Locks, Reading, Types, mail, tasks, runtimes
<1> QED
  BY <1>1, <1>2, <1>3, <1>4, <1>5, <1>6, <1>7, <1>8, <1>9, <1>10, <1>11, <1>12, <1>13, <1>14, <1>15,
     <1>16, <1>17, <1>18, <1>19, <1>20, <1>21, <1>22, <1>23, <1>24, <1>25, <1>26, <1>27
     DEF Next, Own, Run, Closing

\* Attended, in the words of the effects.
Waits == \A t \in Task : task[t] = "waiting" => serving = t \/ t \in torn \/ Holds(queue, t)

LEMMA AttendedStep ==
  ASSUME Inv, [Next]_vars
  PROVE  Attended'
<1> USE ResourceAssumption DEF Inv
<1>0. Waits
  BY DEF Attended, Waits, Holds
<1>1. ASSUME Started PROVE Waits'
  BY <1>0, <1>1, FailsEffect, EmptyHolds DEF Started, Waits, Reading, Locks, Source, Types, mail, tasks, runtimes
<1>2. ASSUME StartFails PROVE Waits'
  BY <1>0, <1>2, FailsEffect, EmptyHolds DEF StartFails, Waits, Reading, Locks, Source, Types, mail, tasks, runtimes
<1>3. ASSUME Get PROVE Waits'
  BY <1>0, <1>3, GetEffect DEF Waits, Reading, Locks, Source, Types, mail, tasks, runtimes
<1>4. ASSUME Answer PROVE Waits'
  BY <1>0, <1>4 DEF Answer, Goto, Waits, Reading, Locks, Source, Types, mail, tasks, runtimes, Asked, Gone
<1>5. ASSUME SessionDies PROVE Waits'
  BY <1>0, <1>5 DEF SessionDies, Waits, Reading, Locks, Source, Types, mail, tasks, runtimes
<1>6. ASSUME Tear PROVE Waits'
  BY <1>0, <1>6, FailsEffect, EmptyHolds DEF Tear, Waits, Reading, Locks, Source, Types, mail, tasks, runtimes
<1>7. ASSUME OwnerLeaves PROVE Waits'
  BY <1>0, <1>7 DEF OwnerLeaves, Waits, Reading, Locks, Source, Types, mail, tasks, runtimes
<1>8. ASSUME NEW t \in Task, Begin(t) PROVE Waits'
  BY <1>0, <1>8 DEF Begin, Goto, Waits, Reading, Locks, Source, Types, mail, tasks, runtimes
<1>9. ASSUME NEW t \in Task, Lock(t) PROVE Waits'
  BY <1>0, <1>9, LockEffect DEF Waits, Reading, Locks, Source, Types, mail, tasks, runtimes
<1>10. ASSUME NEW t \in Task, Opened(t) PROVE Waits'
  BY <1>0, <1>10, OpenedEffect DEF Waits, Reading, Locks, Source, Types, mail, tasks, runtimes
<1>11. ASSUME NEW t \in Task, Abandoned(t) PROVE Waits'
  BY <1>0, <1>11, EmptyHolds DEF Abandoned, Goto, Over, Waits, Reading, Locks, Source, Types, mail, tasks, runtimes
<1>12. ASSUME NEW t \in Task, More(t) PROVE Waits'
  BY <1>0, <1>12, MoreEffect DEF Waits, Reading, Locks, Source, Types, mail, tasks, runtimes
<1>13. ASSUME NEW t \in Task, Complete(t) PROVE Waits'
  BY <1>0, <1>13 DEF Complete, Goto, Over, Waits, Reading, Locks, Source, Types, mail, tasks, runtimes
<1>14. ASSUME NEW t \in Task, FetchFailed(t) PROVE Waits'
  BY <1>0, <1>14 DEF FetchFailed, Goto, Over, Waits, Reading, Locks, Source, Types, mail, tasks, runtimes
<1>15. ASSUME NEW t \in Task, NewClient(t) PROVE Waits'
  BY <1>0, <1>15 DEF NewClient, NotCreated, Goto, Over, Waits, Reading, Locks, Source, Types, mail, tasks, runtimes
<1>16. ASSUME NEW t \in Task, Model(t) PROVE Waits'
  BY <1>0, <1>16 DEF Model, Goto, Waits, Reading, Locks, Source, Types, mail, tasks, runtimes
<1>17. ASSUME NEW t \in Task, ModelFails(t) PROVE Waits'
  BY <1>0, <1>17 DEF ModelFails, Goto, Waits, Reading, Locks, Source, Types, mail, tasks, runtimes
<1>18. ASSUME NEW t \in Task, StopClient(t) PROVE Waits'
  BY <1>0, <1>18 DEF StopClient, Goto, Leave, Over, Release, Waits, Reading, Locks, Source, Types, mail, tasks, runtimes
<1>19. ASSUME NEW t \in Task, ForceStop(t) PROVE Waits'
  BY <1>0, <1>19 DEF ForceStop, Leave, Over, Goto, Release, Waits, Reading, Locks, Source, Types, mail, tasks, runtimes
<1>20. ASSUME NEW t \in Task, Cancel(t) PROVE Waits'
  BY <1>0, <1>20, CancelledEffect DEF Cancel, Waits, Reading, Locks, Source, Types, mail, tasks, runtimes, Cancelled, Over, Goto, Modelling
<1>21. ASSUME CloseSync PROVE Waits'
  BY <1>0, <1>21 DEF CloseSync, Waits, Reading, Locks, Source, Types, mail, tasks, runtimes
<1>22. ASSUME NEW t \in Task, CloseCancels(t) PROVE Waits'
  BY <1>0, <1>22, CancelledEffect DEF CloseCancels, Waits, Reading, Locks, Source, Types, mail, tasks, runtimes, Cancelled, Over, Goto, Modelling
<1>23. ASSUME CloseSource PROVE Waits'
  BY <1>0, <1>23, CloseEffect DEF CloseSource, Waits, Reading, Locks, Source, Types, mail, tasks, runtimes
<1>24. ASSUME NEW c \in Client, CloseClient(c) PROVE Waits'
  BY <1>0, <1>24 DEF CloseClient, Waits, Reading, Locks, Source, Types, mail, tasks, runtimes
<1>25. ASSUME Closed PROVE Waits'
  BY <1>0, <1>25, EmptyHolds DEF Closed, Waits, Reading, Locks, Source, Types, mail, tasks, runtimes
<1>26. ASSUME Load PROVE Waits'
  BY <1>0, <1>26 DEF Load, Waits, Reading, Locks, Source, Types, mail, tasks, runtimes
<1>27. ASSUME UNCHANGED vars PROVE Waits'
  BY <1>0, <1>27 DEF vars, Waits, Reading, Locks, Source, Types, mail, tasks, runtimes
<1>28. Waits'
  BY <1>1, <1>2, <1>3, <1>4, <1>5, <1>6, <1>7, <1>8, <1>9, <1>10, <1>11, <1>12, <1>13, <1>14, <1>15,
     <1>16, <1>17, <1>18, <1>19, <1>20, <1>21, <1>22, <1>23, <1>24, <1>25, <1>26, <1>27
     DEF Next, Own, Run, Closing
<1> QED
  BY <1>28 DEF Attended, Waits, Holds

LEMMA RuntimesStep ==
  ASSUME Inv, [Next]_vars
  PROVE  Runtimes'
<1> USE ResourceAssumption DEF Inv
<1>1. CASE Started
  BY <1>1, FailsEffect, EmptyHolds DEF Started, Runtimes, Modelling, RuntimeKnown, NothingForgotten, Locks, Types, mail, tasks, runtimes
<1>2. CASE StartFails
  BY <1>2, FailsEffect, EmptyHolds DEF StartFails, Runtimes, Modelling, RuntimeKnown, NothingForgotten, Locks, Types, mail, tasks, runtimes
<1>3. CASE Get
  BY <1>3, GetEffect DEF Runtimes, Modelling, RuntimeKnown, NothingForgotten, Locks, Types, mail, tasks, runtimes
<1>4. CASE Answer
  BY <1>4 DEF Answer, Goto, Runtimes, Modelling, RuntimeKnown, NothingForgotten, Locks, Types, mail, tasks, runtimes, Asked
<1>5. CASE SessionDies
  BY <1>5 DEF SessionDies, Runtimes, Modelling, RuntimeKnown, NothingForgotten, Locks, Types, mail, tasks, runtimes
<1>6. CASE Tear
  BY <1>6, FailsEffect, EmptyHolds DEF Tear, Runtimes, Modelling, RuntimeKnown, NothingForgotten, Locks, Types, mail, tasks, runtimes
<1>7. CASE OwnerLeaves
  BY <1>7 DEF OwnerLeaves, Runtimes, Modelling, RuntimeKnown, NothingForgotten, Locks, Types, mail, tasks, runtimes
<1>8. ASSUME NEW t \in Task, Begin(t) PROVE Runtimes'
  BY <1>8 DEF Begin, Goto, Runtimes, Modelling, RuntimeKnown, NothingForgotten, Locks, Types, mail, tasks, runtimes
<1>9. ASSUME NEW t \in Task, Lock(t) PROVE Runtimes'
  <2>1. UNCHANGED <<uses, runtimes>> /\ task'[t] \notin Modelling
        /\ \A u \in Task \ {t} : task'[u] = task[u]
    BY <1>9, LockEffect DEF Modelling
  <2> QED BY <2>1 DEF Runtimes, Modelling, RuntimeKnown, NothingForgotten, runtimes
<1>10. ASSUME NEW t \in Task, Opened(t) PROVE Runtimes'
  <2>1. /\ task[t] = "opening" /\ UNCHANGED <<sync, uses, runtimes>>
        /\ task'[t] \in {"waiting", "failed", "abandoning"} /\ \A u \in Task \ {t} : task'[u] = task[u]
    BY <1>10, OpenedEffect
  <2> QED BY <2>1 DEF Runtimes, Modelling, RuntimeKnown, NothingForgotten, runtimes
<1>11. ASSUME NEW t \in Task, Abandoned(t) PROVE Runtimes'
  BY <1>11, EmptyHolds DEF Abandoned, Goto, Over, Runtimes, Modelling, RuntimeKnown, NothingForgotten, Locks, Types, mail, tasks, runtimes
<1>12. ASSUME NEW t \in Task, More(t) PROVE Runtimes'
  BY <1>12, MoreEffect DEF Runtimes, Modelling, RuntimeKnown, NothingForgotten, Locks, Types, mail, tasks, runtimes
<1>13. ASSUME NEW t \in Task, Complete(t) PROVE Runtimes'
  BY <1>13 DEF Complete, Goto, Over, Runtimes, Modelling, RuntimeKnown, NothingForgotten, Locks, Types, mail, tasks, runtimes
<1>14. ASSUME NEW t \in Task, FetchFailed(t) PROVE Runtimes'
  BY <1>14 DEF FetchFailed, Goto, Over, Runtimes, Modelling, RuntimeKnown, NothingForgotten, Locks, Types, mail, tasks, runtimes
<1>15. ASSUME NEW t \in Task, NewClient(t) PROVE Runtimes'
  <2>1. CASE task'[t] = "starting"
    <3>1. PICK c \in Client \ (clients \cup up \cup dirs) :
            clients' = clients \cup {c} /\ dirs' = dirs \cup {c} /\ uses' = [uses EXCEPT ![t] = c]
      BY <1>15, <2>1 DEF NewClient, Over, Goto, Types
    <3>2. task' = [task EXCEPT ![t] = "starting"] /\ UNCHANGED <<up, unclean, strays>>
      BY <1>15, <2>1 DEF NewClient, Over, Goto, Types
    <3> QED BY <3>1, <3>2 DEF Runtimes, Modelling, RuntimeKnown, NothingForgotten, Types
  <2>2. CASE task'[t] # "starting"
    <3>1. task' = [task EXCEPT ![t] = "idle"] /\ UNCHANGED <<uses, clients, up, unclean>> /\ NotCreated
      BY <1>15, <2>2 DEF NewClient, Over, Goto, Types
    <3>2. \/ UNCHANGED <<dirs, strays>>
          \/ \E c \in Client \ (clients \cup up \cup dirs) :
               dirs' = dirs \cup {c} /\ strays' = strays \cup {c}
      BY <3>1 DEF NotCreated
    <3> QED BY <3>1, <3>2 DEF Runtimes, Modelling, RuntimeKnown, NothingForgotten, Types
  <2> QED BY <2>1, <2>2
<1>16. ASSUME NEW t \in Task, Model(t) PROVE Runtimes'
  BY <1>16 DEF Model, Goto, Runtimes, Modelling, RuntimeKnown, NothingForgotten, Locks, Types, mail, tasks, runtimes
<1>17. ASSUME NEW t \in Task, ModelFails(t) PROVE Runtimes'
  BY <1>17 DEF ModelFails, Goto, Runtimes, Modelling, RuntimeKnown, NothingForgotten, Locks, Types, mail, tasks, runtimes
<1>18. ASSUME NEW t \in Task, StopClient(t) PROVE Runtimes'
  BY <1>18 DEF StopClient, Goto, Leave, Over, Release, Runtimes, Modelling, RuntimeKnown, NothingForgotten, Locks, Types, mail, tasks, runtimes
<1>19. ASSUME NEW t \in Task, ForceStop(t) PROVE Runtimes'
  BY <1>19 DEF ForceStop, Leave, Over, Goto, Release, Runtimes, Modelling, RuntimeKnown, NothingForgotten, Locks, Types, mail, tasks, runtimes
<1>20. ASSUME NEW t \in Task, Cancel(t) PROVE Runtimes'
  BY <1>20, CancelledEffect DEF Cancel, Runtimes, Modelling, RuntimeKnown, NothingForgotten, Locks, Types, mail, tasks, runtimes
<1>21. CASE CloseSync
  BY <1>21 DEF CloseSync, Runtimes, Modelling, RuntimeKnown, NothingForgotten, Locks, Types, mail, tasks, runtimes
<1>22. ASSUME NEW t \in Task, CloseCancels(t) PROVE Runtimes'
  BY <1>22, CancelledEffect DEF CloseCancels, Runtimes, Modelling, RuntimeKnown, NothingForgotten, Locks, Types, mail, tasks, runtimes
<1>23. CASE CloseSource
  BY <1>23, CloseEffect DEF CloseSource, Runtimes, Modelling, RuntimeKnown, NothingForgotten, Locks, Types, mail, tasks, runtimes
<1>24. ASSUME NEW c \in Client, CloseClient(c) PROVE Runtimes'
  BY <1>24 DEF CloseClient, Runtimes, Modelling, RuntimeKnown, NothingForgotten, Locks, Types, mail, tasks, runtimes
<1>25. CASE Closed
  BY <1>25, EmptyHolds DEF Closed, Runtimes, Modelling, RuntimeKnown, NothingForgotten, Locks, Types, mail, tasks, runtimes
<1>26. CASE Load
  BY <1>26 DEF Load, Runtimes, Modelling, RuntimeKnown, NothingForgotten, Locks, Types, mail, tasks, runtimes
<1>27. CASE UNCHANGED vars
  BY <1>27 DEF vars, Runtimes, Modelling, RuntimeKnown, NothingForgotten, Locks, Types, mail, tasks, runtimes
<1> QED
  BY <1>1, <1>2, <1>3, <1>4, <1>5, <1>6, <1>7, <1>8, <1>9, <1>10, <1>11, <1>12, <1>13, <1>14, <1>15,
     <1>16, <1>17, <1>18, <1>19, <1>20, <1>21, <1>22, <1>23, <1>24, <1>25, <1>26, <1>27
     DEF Next, Own, Run, Closing

-----------------------------------------------------------------------------
LEMMA Invariance == Spec => []Inv
<1>1. Inv /\ [Next]_vars => Inv'
  BY TypesStep, LocksStep, SourceStep, AskedStep, AttendedStep, RuntimesStep DEF Inv
<1> QED BY InitInv, <1>1, PTL DEF Spec

\* A running model process always has its directory and someone who can stop it.
THEOREM RuntimeKnownHolds == Spec => []RuntimeKnown
BY Invariance, PTL DEF Inv, Runtimes

\* No directory of a runtime is left that nobody can remove or has heard of; what is excused
\* never had one.
THEOREM NothingForgottenHolds == Spec => []NothingForgotten
BY Invariance, PTL DEF Inv, Runtimes

\* No task waits for mail that nobody will fetch, the torn request excepted.
THEOREM AttendedHoldsAlways == Spec => []Attended
BY Invariance, PTL DEF Inv

\* An open source has been ready and has the one owner it was opened with.
THEOREM OpenWasReadyHolds == Spec => []OpenWasReady
BY Invariance, PTL DEF Inv, Source
=============================================================================
