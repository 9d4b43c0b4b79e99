-------------------------- MODULE SessionCaptureProofs --------------------------
(***************************************************************************)
(* Where the transcript of a session may go and whether it may be saved,   *)
(* for any number of sessions, servers, terminals and commands, their      *)
(* failures and kills.  The record of a session is the authority: it       *)
(* permits saving from its start on or never, and loses the permission     *)
(* with the server it was made for.  The epochs in it are minted once, so  *)
(* that a state that has moved on never fits the record again.             *)
(***************************************************************************)
EXTENDS SessionCapture, TLAPS

\* The part of TypeOK a record is made from.
Types ==
  /\ service \in Service /\ repo \in Repository /\ server \in Server /\ minted \in Epoch
  /\ pinned \in [Session -> Pin \cup {None}]
  /\ hook = [s \in Session |-> hook[s]] /\ saved = [s \in Session |-> saved[s]]

CommandRecord ==
  [at : {"off", "starting", "resuming", "configuring", "writing", "registering", "connecting",
         "closing", "failed", "stopping"},
   local : BOOLEAN, previous : Service \cup {None}, from : Server \cup {None},
   to : Server \cup {None}, rotate : BOOLEAN]

\* What command d has in hand when it needs it.
HasInHand(d) ==
  /\ d.at = "off" => ~d.local /\ d.previous = None
  /\ d.at = "starting" /\ d.local => d.to \in Server
  /\ d.at = "configuring" => d.to \in Server
  /\ d.at \in {"writing", "registering"} => d.to \in Server
  /\ d.at \in {"writing", "registering", "connecting"} => d.from \in Server
  /\ d.at \in {"failed", "stopping"} => d.previous \in Service \ {None}

Commands == cli \in [Cli -> CommandRecord] /\ \A c \in Cli : HasInHand(cli[c])

\* A hook past its record has one; only one that permits it saves; what was saved went to the
\* server of the record, or the record permits nothing any more.
Fits(h, pin, last) ==
  /\ DOMAIN h = {"at", "event", "server", "repo", "service", "late"}
  /\ h.at # "off" => h.server \in Server
  /\ h.at = "pin" => pin = None /\ h.repo \in Repository
  /\ h.at \notin {"off", "record", "pin"} => pin \in Pin
  /\ h.at = "save" => pin.allowed
  /\ last # None => pin \in Pin /\ (pin.allowed => last.server = pin.server)

Recorded == \A s \in Session : Fits(hook[s], pinned[s], saved[s])

Inv == Types /\ Commands /\ Recorded

LEMMA InitInv == Init => Inv
<1> SUFFICES ASSUME Init PROVE Inv
  OBVIOUS
<1> USE CaptureAssumption
<1>1. 1 \in Epoch
  BY DEF Epoch
<1>2. Types
  BY <1>1 DEF Init, Types, Service, Repository
<1>3. Commands
  BY DEF Init, Commands, CommandRecord, HasInHand, NoCommand
<1>4. Recorded
  BY DEF Init, Recorded, Fits, NoHook
<1> QED BY <1>2, <1>3, <1>4 DEF Inv

LEMMA FreshEpoch ==
  ASSUME minted \in Epoch, NEW n \in {1, 2}, Mint(n)
  PROVE  minted' \in Epoch /\ minted' - 1 \in Epoch
BY CaptureAssumption DEF Mint, Epoch

\* Commands and switches write no record and save nothing.
LEMMA RecordedKept ==
  ASSUME Recorded, UNCHANGED <<pinned, hook, saved>>
  PROVE  Recorded'
BY DEF Recorded

LEMMA TypesKept ==
  ASSUME Types, UNCHANGED <<pinned, hook, saved>>,
         service' \in Service, repo' \in Repository, server' \in Server, minted' \in Epoch
  PROVE  Types'
BY DEF Types

\* A command that goes on with what it needs in hand.
LEMMA OneCommand ==
  ASSUME Commands, NEW c \in Cli, NEW d \in CommandRecord, HasInHand(d),
         cli' = [cli EXCEPT ![c] = d]
  PROVE  Commands'
<1>1. cli' \in [Cli -> CommandRecord]
  BY DEF Commands
<1>2. ASSUME NEW e \in Cli PROVE HasInHand(cli'[e])
  BY DEF Commands
<1> QED BY <1>1, <1>2 DEF Commands

LEMMA OneCommandEnds ==
  ASSUME Commands, NEW c \in Cli, Done(c)
  PROVE  Commands'
<1>1. NoCommand \in CommandRecord /\ HasInHand(NoCommand)
  BY DEF NoCommand, CommandRecord, HasInHand
<1> QED BY <1>1, OneCommand DEF Done

LEMMA OneCommandFails ==
  ASSUME Commands, NEW c \in Cli, Fail(c)
  PROVE  Commands'
<1>1. CASE cli[c].previous = None
  BY <1>1, OneCommandEnds DEF Fail
<1>2. CASE cli[c].previous # None
  <2> DEFINE d == [NoCommand EXCEPT !.at = "failed", !.previous = cli[c].previous]
  <2>1. cli[c].previous \in Service
    BY <1>2 DEF Commands, CommandRecord
  <2>2. d \in CommandRecord /\ HasInHand(d)
    BY <1>2, <2>1 DEF NoCommand, CommandRecord, HasInHand
  <2>3. cli' = [cli EXCEPT ![c] = d]
    BY <1>2 DEF Fail, Last
  <2> HIDE DEF d
  <2> QED BY <2>2, <2>3, OneCommand
<1> QED BY <1>1, <1>2

LEMMA CommandInv ==
  ASSUME Inv, NEW c \in Cli, Command(c)
  PROVE  Inv'
<1> USE DEF Inv
<1>1. Recorded'
  <2>1. UNCHANGED <<pinned, hook, saved>>
    BY DEF Command, Stop, Unshare, BeginStart, BeginLocal, BeginConnect, Started, Resumed,
       ReadConfiguration, Configure, Register, PutBack, Connect, RollBack, Restore, Killed, history
  <2> QED BY <2>1, RecordedKept
<1>2. Types'
  <2>1. UNCHANGED <<pinned, hook, saved, repo>>
    BY DEF Command, Stop, Unshare, BeginStart, BeginLocal, BeginConnect, Started, Resumed,
       ReadConfiguration, Configure, Register, PutBack, Connect, RollBack, Restore, Killed, history
  <2>2. service \in Service /\ repo \in Repository /\ server \in Server /\ minted \in Epoch
    BY DEF Types
  <2>3. CASE Stop(c) \/ RollBack(c)
    BY <2>1, <2>2, <2>3, FreshEpoch, TypesKept DEF Stop, RollBack, LifecycleStop, Service
  <2>4. CASE Unshare(c)
    BY <2>1, <2>2, <2>4, FreshEpoch, TypesKept DEF Unshare, LifecycleDisconnect, Service
  <2>5. CASE Connect(c)
    <3>1. service' \in Service /\ minted' \in Epoch
      <4>1. LifecycleConnected(cli[c].rotate)
        BY <2>5 DEF Connect
      <4>2. CASE cli[c].rotate
        <5>1. /\ Mint(2)
              /\ service' = [stopped |-> FALSE, disconnected |-> FALSE, capture |-> minted',
                             connection |-> minted' - 1]
          BY <4>1, <4>2 DEF LifecycleConnected
        <5>2. minted' \in Epoch /\ minted' - 1 \in Epoch
          BY <2>2, <5>1, FreshEpoch
        <5> QED BY <5>1, <5>2 DEF Service
      <4>3. CASE ~cli[c].rotate
        <5>1. /\ service' = [service EXCEPT !.stopped = FALSE, !.disconnected = FALSE]
              /\ minted' = minted
          BY <4>1, <4>3 DEF LifecycleConnected
        <5> QED BY <2>2, <5>1 DEF Service
      <4> QED BY <4>2, <4>3
    <3> QED BY <2>1, <2>2, <2>5, <3>1, TypesKept DEF Connect
  <2>6. CASE Started(c)
    <3>1. service' \in Service
      BY <2>2, <2>6 DEF Started, LifecycleStart, Service
    <3> QED BY <2>1, <2>2, <2>6, <3>1, TypesKept DEF Started
  <2>7. CASE Configure(c) \/ PutBack(c)
    <3>1. server' \in Server
      BY <2>2, <2>7 DEF Configure, PutBack, Commands, CommandRecord, HasInHand, Exchanging
    <3> QED BY <2>1, <2>2, <2>7, <3>1, TypesKept DEF Configure, PutBack
  <2>8. CASE Restore(c)
    <3>1. service' \in Service
      BY <2>8 DEF Restore, Commands, HasInHand
    <3> QED BY <2>1, <2>2, <2>8, <3>1, TypesKept DEF Restore
  <2>9. CASE \/ BeginStart(c) \/ BeginLocal(c) \/ BeginConnect(c) \/ Resumed(c) \/ Killed(c)
            \/ ReadConfiguration(c) \/ Register(c)
    BY <2>1, <2>2, <2>9, TypesKept DEF BeginStart, BeginLocal, BeginConnect, Resumed, Killed,
       ReadConfiguration, Register
  <2> QED BY <2>3, <2>4, <2>5, <2>6, <2>7, <2>8, <2>9 DEF Command
<1>3. Commands'
  <2>1. service \in Service /\ server \in Server
    BY DEF Types
  <2>2. cli[c] \in CommandRecord /\ HasInHand(cli[c])
    BY DEF Commands
  <2>3. Previous \in Service \cup {None}
    BY <2>1 DEF Previous
  <2>4. CASE Stop(c) \/ Unshare(c)
    BY <2>4 DEF Stop, Unshare, commands, Commands
  <2>5. CASE BeginStart(c)
    <3> DEFINE d == [cli[c] EXCEPT !.at = "starting", !.previous = Previous]
    <3>1. d \in CommandRecord /\ HasInHand(d)
      <4>1. cli[c].at = "off" /\ cli[c].local \in BOOLEAN
        BY <2>2, <2>5 DEF BeginStart, Idle, CommandRecord
      <4> QED BY <2>2, <2>3, <4>1 DEF CommandRecord, HasInHand
    <3>2. cli' = [cli EXCEPT ![c] = d]
      BY <2>5 DEF BeginStart, Commands
    <3> HIDE DEF d
    <3> QED BY <3>1, <3>2, OneCommand
  <2>6. CASE BeginLocal(c)
    <3>1. PICK s \in Server :
            cli' = [cli EXCEPT ![c].at = "starting", ![c].previous = Previous,
                               ![c].local = TRUE, ![c].to = s]
      BY <2>6 DEF BeginLocal
    <3> DEFINE d == [cli[c] EXCEPT !.at = "starting", !.previous = Previous, !.local = TRUE, !.to = s]
    <3>2. d \in CommandRecord /\ HasInHand(d)
      BY <2>2, <2>3 DEF CommandRecord, HasInHand
    <3>3. cli' = [cli EXCEPT ![c] = d]
      BY <3>1 DEF Commands
    <3> HIDE DEF d
    <3> QED BY <3>2, <3>3, OneCommand
  <2>7. CASE BeginConnect(c)
    <3>1. PICK s \in Server : cli' = [cli EXCEPT ![c].at = "configuring", ![c].to = s]
      BY <2>7 DEF BeginConnect
    <3> DEFINE d == [cli[c] EXCEPT !.at = "configuring", !.to = s]
    <3>2. d \in CommandRecord /\ HasInHand(d)
      BY <2>2 DEF CommandRecord, HasInHand
    <3>3. cli' = [cli EXCEPT ![c] = d]
      BY <3>1 DEF Commands
    <3> HIDE DEF d
    <3> QED BY <3>2, <3>3, OneCommand
  <2>8. CASE Started(c)
    <3>1. CASE cli[c].local /\ Goto(c, "configuring")
      <4> DEFINE d == [cli[c] EXCEPT !.at = "configuring"]
      <4>1. d \in CommandRecord /\ HasInHand(d)
        BY <2>2, <2>8, <3>1 DEF Started, CommandRecord, HasInHand
      <4>2. cli' = [cli EXCEPT ![c] = d]
        BY <3>1 DEF Goto, Commands
      <4> HIDE DEF d
      <4> QED BY <4>1, <4>2, OneCommand
    <3>2. CASE ~cli[c].local /\ Goto(c, "resuming")
      <4> DEFINE d == [cli[c] EXCEPT !.at = "resuming"]
      <4>1. d \in CommandRecord /\ HasInHand(d)
        BY <2>2 DEF CommandRecord, HasInHand
      <4>2. cli' = [cli EXCEPT ![c] = d]
        BY <3>2 DEF Goto, Commands
      <4> HIDE DEF d
      <4> QED BY <4>1, <4>2, OneCommand
    <3> QED BY <2>8, <3>1, <3>2, OneCommandFails DEF Started
  <2>9. CASE Resumed(c)
    BY <2>9, OneCommandEnds, OneCommandFails DEF Resumed
  <2>10. CASE ReadConfiguration(c)
    <3> DEFINE d == [cli[c] EXCEPT !.at = "writing", !.from = server]
    <3>1. d \in CommandRecord /\ HasInHand(d)
      BY <2>1, <2>2, <2>10 DEF ReadConfiguration, CommandRecord, HasInHand, Exchanging
    <3>2. cli' = [cli EXCEPT ![c] = d]
      BY <2>10 DEF ReadConfiguration, Commands
    <3> HIDE DEF d
    <3> QED BY <3>1, <3>2, OneCommand
  <2>11. CASE Configure(c)
    <3> DEFINE d == [cli[c] EXCEPT !.at = "registering"]
    <3>1. d \in CommandRecord /\ HasInHand(d)
      BY <2>2, <2>11 DEF Configure, CommandRecord, HasInHand, Exchanging
    <3>2. cli' = [cli EXCEPT ![c] = d]
      BY <2>11 DEF Configure, Goto, Commands
    <3> HIDE DEF d
    <3> QED BY <3>1, <3>2, OneCommand
  <2>15. CASE Register(c)
    <3> DEFINE r == (cli[c].from # cli[c].to) \/ service.disconnected
               d == [cli[c] EXCEPT !.at = "connecting", !.to = None, !.rotate = r]
    <3>1. r \in BOOLEAN
      BY <2>1 DEF Service
    <3>2. cli' = [cli EXCEPT ![c].at = "connecting", ![c].to = None, ![c].rotate = r]
      BY <2>15 DEF Register
    <3>3. cli[c].at = "registering"
      BY <2>15 DEF Register
    <3> HIDE DEF r
    <3>4. d \in CommandRecord /\ HasInHand(d)
      BY <2>2, <3>1, <3>3 DEF CommandRecord, HasInHand, Exchanging
    <3>5. cli' = [cli EXCEPT ![c] = d]
      BY <3>2 DEF Commands
    <3> HIDE DEF d
    <3> QED BY <3>4, <3>5, OneCommand
  <2>16. CASE PutBack(c)
    BY <2>16, OneCommandFails DEF PutBack
  <2>12. CASE Connect(c)
    <3>1. CASE Last(c, "closing")
      <4> DEFINE d == [NoCommand EXCEPT !.at = "closing", !.previous = cli[c].previous]
      <4>1. d \in CommandRecord /\ HasInHand(d)
        BY <2>2 DEF NoCommand, CommandRecord, HasInHand
      <4>2. cli' = [cli EXCEPT ![c] = d]
        BY <3>1 DEF Last
      <4> HIDE DEF d
      <4> QED BY <4>1, <4>2, OneCommand
    <3> QED BY <2>12, <3>1, OneCommandEnds DEF Connect
  <2>13. CASE RollBack(c)
    <3>1. CASE Goto(c, "stopping")
      <4> DEFINE d == [cli[c] EXCEPT !.at = "stopping"]
      <4>1. d \in CommandRecord /\ HasInHand(d)
        BY <2>2, <2>13 DEF RollBack, CommandRecord, HasInHand
      <4>2. cli' = [cli EXCEPT ![c] = d]
        BY <3>1 DEF Goto, Commands
      <4> HIDE DEF d
      <4> QED BY <4>1, <4>2, OneCommand
    <3> QED BY <2>13, <3>1, OneCommandEnds DEF RollBack
  <2>14. CASE Restore(c) \/ Killed(c)
    BY <2>14, OneCommandEnds DEF Restore, Killed
  <2> QED BY <2>4, <2>5, <2>6, <2>7, <2>8, <2>9, <2>10, <2>11, <2>12, <2>13, <2>14,
           <2>15, <2>16 DEF Command
<1> QED BY <1>1, <1>2, <1>3

LEMMA SwitchInv ==
  ASSUME Inv, Switch
  PROVE  Inv'
<1> USE DEF Inv
<1>1. UNCHANGED <<service, server, pinned, hook, cli, saved>>
  BY DEF Switch, MemoryOff, MemoryOn, RotateEpoch, Enable, SwitchKilled, history
<1>2. repo' \in Repository /\ minted' \in Epoch
  BY FreshEpoch DEF Switch, MemoryOff, MemoryOn, RotateEpoch, RotateRepository, Enable, SwitchKilled,
     Types, Repository
<1>3. Types'
  BY <1>1, <1>2, TypesKept DEF Types
<1>4. Commands'
  BY <1>1 DEF Commands
<1> QED BY <1>1, <1>3, <1>4, RecordedKept

\* session_config takes the permission away when it changes the server.
LEMMA RepinnedIsPin ==
  ASSUME NEW s \in Session, pinned[s] \in Pin, hook[s].server \in Server
  PROVE  /\ Repinned(s) \in Pin
         /\ Repinned(s).allowed => pinned[s].allowed /\ Repinned(s).server = pinned[s].server
BY DEF Repinned, Pin

\* A hook that goes on with a record that fits.
LEMMA OneHook ==
  ASSUME Types, Recorded, NEW s \in Session, NEW h, NEW p \in Pin \cup {None}, NEW v, Fits(h, p, v),
         hook' = [hook EXCEPT ![s] = h], pinned' = [pinned EXCEPT ![s] = p],
         saved' = [saved EXCEPT ![s] = v], UNCHANGED <<service, repo, server, minted>>
  PROVE  Types' /\ Recorded'
<1>1. Types'
  BY DEF Types
<1>2. ASSUME NEW t \in Session PROVE Fits(hook'[t], pinned'[t], saved'[t])
  BY DEF Types, Recorded
<1> QED BY <1>1, <1>2 DEF Recorded

LEMMA OneHookLeaves ==
  ASSUME Types, Recorded, NEW s \in Session, Leave(s), UNCHANGED <<pinned, saved>>,
         UNCHANGED <<service, repo, server, minted>>
  PROVE  Types' /\ Recorded'
<1>1. Fits(NoHook, pinned[s], saved[s])
  BY DEF Recorded, Fits, NoHook
<1>2. pinned' = [pinned EXCEPT ![s] = pinned[s]] /\ saved' = [saved EXCEPT ![s] = saved[s]]
  BY DEF Types
<1>3. pinned[s] \in Pin \cup {None}
  BY DEF Types
<1> QED BY <1>1, <1>2, <1>3, OneHook DEF Leave

LEMMA HookInv ==
  ASSUME Inv, NEW s \in Session, Hook(s)
  PROVE  Inv'
<1> USE DEF Inv
<1>1. UNCHANGED <<service, repo, server, minted, cli>>
  BY DEF Hook, Begin, Record, PinSession, ReadService, ReadRepository, Prepared,
     ReadRepositoryAgain, ReadServiceAgain, Save, commands
<1>2. Commands'
  BY <1>1 DEF Commands
<1>3. Types' /\ Recorded'
  <2>1. Fits(hook[s], pinned[s], saved[s]) /\ pinned[s] \in Pin \cup {None} /\ server \in Server
    BY DEF Types, Recorded
  <2>2. pinned = [pinned EXCEPT ![s] = pinned[s]] /\ saved = [saved EXCEPT ![s] = saved[s]]
    BY DEF Types
  <2>3. hook[s].at \notin {"off", "record", "pin"} => pinned[s] \in Pin /\ hook[s].server \in Server
    BY <2>1 DEF Fits
  <2>4. CASE Begin(s)
    <3>1. PICK event \in {"sessionStart", "agentStop"} :
            hook' = [hook EXCEPT ![s] = [NoHook EXCEPT !.at = "record", !.event = event,
                                                       !.server = server, !.late = spans[s]]]
      BY <2>4 DEF Begin
    <3> DEFINE h == [NoHook EXCEPT !.at = "record", !.event = event, !.server = server,
                                   !.late = spans[s]]
    <3>2. Fits(h, pinned[s], saved[s])
      BY <2>1 DEF Fits, NoHook
    <3>3. UNCHANGED <<pinned, saved>>
      BY <2>4 DEF Begin, history
    <3>4. hook' = [hook EXCEPT ![s] = h]
      BY <3>1
    <3> HIDE DEF h
    <3> QED BY <1>1, <2>1, <2>2, <3>2, <3>3, <3>4, OneHook
  <2>5. CASE Record(s) /\ pinned[s] = None
    <3> DEFINE h == [hook[s] EXCEPT !.at = "pin", !.repo = repo]
    <3>1. hook[s].server \in Server /\ repo \in Repository
      BY <2>1, <2>5 DEF Record, Fits, Types
    <3>2. Fits(h, pinned[s], saved[s])
      BY <2>1, <2>5, <3>1 DEF Fits
    <3>3. hook' = [hook EXCEPT ![s] = h] /\ UNCHANGED <<pinned, saved>>
      BY <2>5 DEF Record, Types
    <3> HIDE DEF h
    <3> QED BY <1>1, <2>1, <2>2, <3>2, <3>3, OneHook
  <2>6. CASE Record(s) /\ pinned[s] # None
    <3> DEFINE h == [hook[s] EXCEPT !.at = "service"]
    <3>1. pinned[s] \in Pin /\ hook[s].server \in Server
      BY <2>1, <2>6 DEF Record, Fits
    <3>2. Fits(h, Repinned(s), saved[s]) /\ Repinned(s) \in Pin
      BY <2>1, <3>1, RepinnedIsPin DEF Fits
    <3>3. /\ hook' = [hook EXCEPT ![s] = h] /\ pinned' = [pinned EXCEPT ![s] = Repinned(s)]
          /\ UNCHANGED saved
      BY <2>6 DEF Record, Move, Types
    <3> HIDE DEF h
    <3> QED BY <1>1, <2>2, <3>2, <3>3, OneHook
  <2>7. CASE PinSession(s)
    <3> DEFINE h == [hook[s] EXCEPT !.at = "service", !.repo = None, !.late = spans'[s]]
    <3>1. hook[s].server \in Server /\ hook[s].repo \in Repository /\ saved[s] = None
      BY <2>1, <2>7, CaptureAssumption DEF PinSession, Fits
    <3>2. NewPin(s) \in Pin
      <4>1. service \in Service
        BY DEF Types
      <4>2. (hook[s].event = "sessionStart") \in BOOLEAN
        OBVIOUS
      <4>3. (IF hook[s].repo.enabled THEN hook[s].repo.capture ELSE None) \in {0, None} \cup Epoch
        BY <3>1 DEF Repository
      <4>4. (IF Available(service) THEN service.capture ELSE None) \in Epoch \cup {None}
        BY <4>1 DEF Service
      <4>5. service.connection \in Epoch
        BY <4>1 DEF Service
      <4> QED BY <3>1, <4>2, <4>3, <4>4, <4>5 DEF NewPin, Pin
    <3>3. Fits(h, NewPin(s), saved[s])
      BY <2>1, <3>1, <3>2 DEF Fits
    <3>4. pinned' = [pinned EXCEPT ![s] = NewPin(s)] /\ UNCHANGED saved
      BY <2>7 DEF PinSession
    <3>5. hook' = [hook EXCEPT ![s].at = "service", ![s].repo = None, ![s].late = spans'[s]]
      BY <2>7 DEF PinSession
    <3>6. hook' = [hook EXCEPT ![s] = h]
      BY <3>5 DEF Types
    <3> HIDE DEF h
    <3> QED BY <1>1, <2>2, <3>2, <3>3, <3>4, <3>6, OneHook
  <2>8. CASE Leave(s) /\ UNCHANGED <<pinned, saved>>
    BY <1>1, <2>8, OneHookLeaves
  <2>9. CASE ReadService(s)
    <3> DEFINE h == [hook[s] EXCEPT !.at = "repo", !.service = service]
    <3>1. Fits(h, pinned[s], saved[s])
      BY <2>1, <2>3, <2>9 DEF ReadService, Fits
    <3>2. UNCHANGED <<pinned, saved>>
      BY <2>9 DEF ReadService, history
    <3>3. CASE ~Leave(s)
      <4>1. hook' = [hook EXCEPT ![s] = h]
        BY <2>9, <3>3 DEF ReadService, Types
      <4> HIDE DEF h
      <4> QED BY <1>1, <2>1, <2>2, <3>1, <3>2, <4>1, OneHook
    <3> QED BY <2>8, <3>2, <3>3
  <2>10. CASE ReadRepository(s)
    <3> DEFINE h == [hook[s] EXCEPT !.at = "again", !.event = "none", !.service = None]
    <3>1. Fits(h, pinned[s], saved[s])
      BY <2>1, <2>3, <2>10 DEF ReadRepository, Fits
    <3>2. UNCHANGED <<pinned, saved>>
      BY <2>10 DEF ReadRepository, history
    <3>3. CASE ~Leave(s)
      <4>1. hook' = [hook EXCEPT ![s] = h]
        BY <2>10, <3>3 DEF ReadRepository, Types
      <4> HIDE DEF h
      <4> QED BY <1>1, <2>1, <2>2, <3>1, <3>2, <4>1, OneHook
    <3> QED BY <2>8, <3>2, <3>3
  <2>11. CASE Prepared(s)
    <3> DEFINE h == [hook[s] EXCEPT !.at = "repo again"]
    <3>1. pinned[s] \in Pin /\ hook[s].server \in Server
      BY <2>3, <2>11 DEF Prepared
    <3>2. Fits(h, Repinned(s), saved[s]) /\ Repinned(s) \in Pin
      BY <2>1, <3>1, RepinnedIsPin DEF Fits
    <3>3. CASE Move(s, "repo again") /\ pinned' = [pinned EXCEPT ![s] = Repinned(s)]
      <4>1. hook' = [hook EXCEPT ![s] = h] /\ UNCHANGED saved
        BY <2>11, <3>3 DEF Prepared, Move, Types
      <4> HIDE DEF h
      <4> QED BY <1>1, <2>2, <3>2, <3>3, <4>1, OneHook
    <3> QED BY <2>8, <2>11, <3>3 DEF Prepared
  <2>12. CASE ReadRepositoryAgain(s)
    <3> DEFINE h == [hook[s] EXCEPT !.at = "service again", !.repo = repo]
    <3>1. Fits(h, pinned[s], saved[s])
      BY <2>1, <2>3, <2>12 DEF ReadRepositoryAgain, Fits
    <3>2. hook' = [hook EXCEPT ![s] = h] /\ UNCHANGED <<pinned, saved>>
      BY <2>12 DEF ReadRepositoryAgain, history, Types
    <3> HIDE DEF h
    <3> QED BY <1>1, <2>1, <2>2, <3>1, <3>2, OneHook
  <2>13. CASE ReadServiceAgain(s)
    <3> DEFINE h == [hook[s] EXCEPT !.at = "save", !.repo = None]
    <3>1. UNCHANGED <<pinned, saved>>
      BY <2>13 DEF ReadServiceAgain, history
    <3>2. CASE ~Leave(s)
      <4>1. pinned[s].allowed /\ hook' = [hook EXCEPT ![s] = h]
        BY <2>13, <3>2 DEF ReadServiceAgain, CanCapture, Types
      <4>2. Fits(h, pinned[s], saved[s])
        BY <2>1, <2>3, <2>13, <4>1 DEF ReadServiceAgain, Fits
      <4> HIDE DEF h
      <4> QED BY <1>1, <2>1, <2>2, <3>1, <4>1, <4>2, OneHook
    <3> QED BY <2>8, <3>1, <3>2
  <2>14. CASE Save(s)
    <3> DEFINE v == [server |-> pinned[s].server, late |-> hook[s].late, doubtful |-> doubtful[s]]
    <3>1. pinned[s] \in Pin
      BY <2>3, <2>14 DEF Save
    <3>2. Fits(NoHook, pinned[s], v)
      BY <3>1 DEF Fits, NoHook
    <3>3. hook' = [hook EXCEPT ![s] = NoHook] /\ saved' = [saved EXCEPT ![s] = v] /\ UNCHANGED pinned
      BY <2>14 DEF Save, Leave
    <3> HIDE DEF v
    <3> QED BY <1>1, <2>1, <2>2, <3>2, <3>3, OneHook
  <2>15. Record(s) => (pinned[s] = None \/ pinned[s] # None)
    OBVIOUS
  <2> QED BY <2>4, <2>5, <2>6, <2>7, <2>9, <2>10, <2>11, <2>12, <2>13, <2>14, <2>15 DEF Hook
<1> QED BY <1>2, <1>3

LEMMA InvStep == Inv /\ [Next]_vars => Inv'
<1> SUFFICES ASSUME Inv, [Next]_vars PROVE Inv'
  OBVIOUS
<1>1. CASE UNCHANGED vars
  BY <1>1 DEF vars, commands, history, Inv, Types, Commands, Recorded
<1> QED BY <1>1, CommandInv, SwitchInv, HookInv DEF Next

\* Only a hook that may save changes what was saved of its session, and nobody else's.
LEMMA SavedOnce ==
  ASSUME Inv, [Next]_vars, NEW s \in Session, saved[s] # None, saved'[s] # saved[s]
  PROVE  saved'[s].server = saved[s].server
<1>1. PICK t \in Session : Save(t)
  BY DEF Next, Command, Stop, Unshare, BeginStart, BeginLocal, BeginConnect, Started, Resumed,
     ReadConfiguration, Configure, Register, PutBack, Connect, RollBack, Restore, Killed, Switch, MemoryOff, MemoryOn, RotateEpoch, Enable,
     SwitchKilled, Hook, Begin, Record, PinSession, ReadService, ReadRepository, Prepared,
     ReadRepositoryAgain, ReadServiceAgain, vars, history
<1>2. Fits(hook[t], pinned[t], saved[t]) /\ Fits(hook[s], pinned[s], saved[s])
  BY DEF Inv, Recorded
<1>3. t = s
  BY <1>1 DEF Save, Inv, Types
<1>4. pinned[s].allowed /\ saved'[s].server = pinned[s].server
  BY <1>1, <1>2, <1>3 DEF Save, Inv, Types, Fits
<1> QED BY <1>2, <1>4 DEF Fits

\* Whatever connects, fails or is killed meanwhile, the transcript of one session never
\* reaches two servers.
THEOREM OneServerHolds == Spec => OneServer
<1>1. Inv /\ [Next]_vars => [\A s \in Session : (saved[s] # None /\ saved'[s] # saved[s])
                                => saved'[s].server = saved[s].server]_vars
  BY SavedOnce
<1> QED BY InitInv, InvStep, <1>1, PTL DEF Spec, OneServer

-----------------------------------------------------------------------------
(* NotRetroactive and FreshIsSaved.  Epochs are minted once, and what a     *)
(* command may restore was read after the session had begun.  So the epochs *)
(* of a record can only stop being the current ones, and they do so with    *)
(* whatever pauses memory or changes the server.                            *)

\* No epoch in use is ahead of the last one minted; what a command restores is a stop.
Bounded ==
  /\ service.capture <= minted /\ repo.capture <= minted
  /\ \A c \in Cli : cli[c].previous # None => /\ cli[c].previous.stopped
                                              /\ cli[c].previous.capture <= minted
  /\ \A s \in Session :
       /\ pinned[s] # None => /\ pinned[s].service # None => pinned[s].service <= minted
                              /\ pinned[s].repo # None => pinned[s].repo <= minted
       /\ hook[s].at = "pin" => hook[s].repo.capture <= minted

\* One command at a time exchanges the configuration ...
Alone(cs) == \A c, d \in Cli : cs[c].at \in Exchanging /\ cs[d].at \in Exchanging => c = d

\* ... and knows that the server of a record was the one before it.
Agreed(pin, cs, dest) ==
  /\ \A c \in Cli :
       /\ cs[c].at = "writing" => cs[c].from = pin.server /\ dest = pin.server
       /\ cs[c].at = "registering" => cs[c].from = pin.server /\ dest = cs[c].to
       /\ cs[c].at = "connecting" => /\ cs[c].from = pin.server
                                     /\ cs[c].rotate <=> dest # pin.server
  /\ (\A c \in Cli : cs[c].at \notin Exchanging) => dest = pin.server

SameService(pin, state) == pin.service = state.capture /\ pin.connection = state.connection

\* What a record that began in a quiet moment knows about the switches.
Sound(s) == pinned[s] # None /\ ~doubtful[s] =>
  /\ pinned[s].service = service.capture => Available(service)
  /\ pinned[s].repo = repo.capture => switch # "enabling"
  /\ \A c \in Cli : cli[c].previous # None => cli[c].previous.capture # pinned[s].service
  /\ Alone(cli)
  /\ pinned[s].allowed /\ SameService(pinned[s], service) => Agreed(pinned[s], cli, server)
  /\ spans[s] /\ CanCapture(pinned[s], repo, service) => ~repo.enabled
  /\ ~spans[s] => CanCapture(pinned[s], repo, service)

\* A hook that was called too late finds no reason to save.
Remembers(s) ==
  /\ hook[s].late => spans[s]
  /\ /\ hook[s].at = "service again" /\ hook[s].late /\ ~doubtful[s] /\ pinned[s].allowed
     /\ hook[s].repo.enabled /\ hook[s].repo.capture = pinned[s].repo
     => ~SameService(pinned[s], service)
  /\ hook[s].at = "save" => (hook[s].late => doubtful[s])
  /\ saved[s] # None => (saved[s].late => saved[s].doubtful)

\* An epoch of the repository is replaced only while memory is off.
Rotates == switch \in {"disabled", "rotating"} => ~repo.enabled

Histories == spans \in [Session -> BOOLEAN] /\ doubtful \in [Session -> BOOLEAN]

Honest == Histories /\ Bounded /\ Rotates /\ \A s \in Session : Sound(s) /\ Remembers(s)

Later == /\ minted \in Nat /\ minted' \in Nat /\ minted <= minted'
         /\ \A s \in Session : (spans[s] => spans'[s]) /\ (doubtful[s] => doubtful'[s])

\* The epochs stay, and memory is paused for nobody.
Calm == /\ service'.capture = service.capture /\ service'.connection = service.connection
        /\ Available(service) => Available(service')

LEMMA InitHonest == Init => Honest
<1> SUFFICES ASSUME Init PROVE Honest
  OBVIOUS
<1>1. Bounded
  BY DEF Init, Bounded, NoCommand, NoHook
<1>2. Rotates
  BY DEF Init, Rotates
<1>3. \A s \in Session : Sound(s)
  BY DEF Init, Sound
<1>4. \A s \in Session : Remembers(s)
  BY DEF Init, Remembers, NoHook
<1>5. Histories
  BY DEF Init, Histories
<1> QED BY <1>1, <1>2, <1>3, <1>4, <1>5 DEF Honest

LEMMA HistoriesKept ==
  ASSUME Histories, [Next]_vars
  PROVE  Histories'
<1>1. CASE UNCHANGED vars
  BY <1>1 DEF Histories, vars, history
<1>2. Observe /\ UNCHANGED doubtful => Histories'
  BY DEF Observe, Histories
<1>3. ASSUME NEW c \in Cli, Command(c) PROVE Histories'
  <2>1. CASE \/ Stop(c) \/ Unshare(c) \/ Started(c) \/ Configure(c) \/ Register(c) \/ PutBack(c)
             \/ Connect(c) \/ RollBack(c) \/ Restore(c)
    BY <1>2, <2>1 DEF Stop, Unshare, Started, Configure, Register, PutBack, Connect, RollBack, Restore
  <2>2. CASE BeginStart(c) \/ BeginLocal(c) \/ BeginConnect(c) \/ Resumed(c)
    BY <2>2 DEF BeginStart, BeginLocal, BeginConnect, Resumed, history, Histories
  <2>3. CASE ReadConfiguration(c) \/ Killed(c)
    BY <2>3 DEF ReadConfiguration, Killed, Histories
  <2> QED BY <1>3, <2>1, <2>2, <2>3 DEF Command
<1>4. CASE Switch
  BY <1>2, <1>4 DEF Switch, MemoryOff, MemoryOn, RotateEpoch, Enable, SwitchKilled, history, Histories
<1>5. ASSUME NEW s \in Session, Hook(s) PROVE Histories'
  <2>1. CASE PinSession(s)
    BY <2>1 DEF PinSession, Histories, Busy
  <2>2. CASE Record(s) \/ Prepared(s)
    BY <2>2 DEF Record, Prepared, Histories
  <2>3. CASE Begin(s) \/ ReadService(s) \/ ReadRepository(s) \/ ReadRepositoryAgain(s)
             \/ ReadServiceAgain(s) \/ Save(s)
    BY <2>3 DEF Begin, ReadService, ReadRepository, ReadRepositoryAgain, ReadServiceAgain, Save,
       history, Histories
  <2> QED BY <1>5, <2>1, <2>2, <2>3 DEF Hook
<1> QED BY <1>1, <1>3, <1>4, <1>5 DEF Next

LEMMA FreshIsLater ==
  ASSUME minted \in Epoch, NEW n \in {1, 2}, Mint(n)
  PROVE  minted' \in Nat /\ minted < minted'
BY DEF Mint, Epoch

\* A pause or a change of server is seen by every record it concerns.
LEMMA Seen ==
  ASSUME Observe, NEW s \in Session
  PROVE  /\ spans[s] => spans'[s]
         /\ spans'[s] /\ ~spans[s] => \/ ~Available(service') \/ ~repo'.enabled
                                      \/ /\ server' # pinned[s].server
                                         /\ \A c \in Cli : cli'[c].at \notin {"registering", "connecting"}
         /\ pinned[s] # None /\ (~Available(service') \/ ~repo'.enabled) => spans'[s]
         /\ /\ pinned[s] # None /\ server' # pinned[s].server
            /\ \A c \in Cli : cli'[c].at \notin {"registering", "connecting"}
            => spans'[s]
BY DEF Observe

\* A step that leaves the epochs alone.
LEMMA CalmSound ==
  ASSUME NEW s \in Session, Sound(s), pinned[s] # None, ~doubtful[s],
         UNCHANGED <<pinned, repo, switch>>, Calm, Observe \/ UNCHANGED spans,
         \A c \in Cli : cli'[c].previous # None => cli'[c].previous.capture # pinned[s].service,
         Alone(cli'),
         pinned[s].allowed /\ SameService(pinned[s], service) => Agreed(pinned[s], cli', server')
  PROVE  Sound(s)'
<1> DEFINE P == pinned[s]
<1>1. SameService(P, service') <=> SameService(P, service)
  BY DEF Calm, SameService
<1>2. CanCapture(P, repo, service') <=> CanCapture(P, repo, service)
  BY DEF Calm, CanCapture
<1>3. P.service = service'.capture => Available(service')
  BY DEF Calm, Sound
<1>4. ASSUME spans'[s], ~spans[s], CanCapture(P, repo, service') PROVE ~repo.enabled
  <2>1. P.allowed /\ SameService(P, service) /\ P.service = service'.capture
    BY <1>4 DEF CanCapture, SameService, Calm
  <2>2. Agreed(P, cli', server') /\ Available(service')
    BY <1>3, <2>1
  <2>3. Observe
    BY <1>4
  <2>4. SUFFICES ASSUME repo.enabled PROVE FALSE
    OBVIOUS
  <2>5. server' # P.server /\ \A c \in Cli : cli'[c].at \notin {"registering", "connecting"}
    BY <1>4, <2>2, <2>3, <2>4, Seen
  <2>6. CASE \E c \in Cli : cli'[c].at = "writing"
    BY <2>2, <2>5, <2>6 DEF Agreed
  <2>7. CASE \A c \in Cli : cli'[c].at # "writing"
    BY <2>2, <2>5, <2>7 DEF Agreed, Exchanging
  <2> QED BY <2>6, <2>7
<1>5. ~spans'[s] => ~spans[s]
  BY Seen
<1> QED BY <1>1, <1>2, <1>3, <1>4, <1>5 DEF Sound

\* A step after which the service has another epoch than the record.
LEMMA BrokenSound ==
  ASSUME NEW s \in Session, Sound(s), pinned[s] # None, ~doubtful[s],
         UNCHANGED <<pinned, repo, switch>>, service'.capture # pinned[s].service, spans'[s],
         \A c \in Cli : cli'[c].previous # None => cli'[c].previous.capture # pinned[s].service,
         Alone(cli')
  PROVE  Sound(s)'
BY DEF Sound, SameService, CanCapture

\* Whoever does not run the hooks leaves to them what they remember.
LEMMA RemembersKept ==
  ASSUME Recorded, NEW s \in Session, Remembers(s), UNCHANGED <<pinned, hook, saved>>,
         (spans[s] => spans'[s]) /\ (doubtful[s] => doubtful'[s]),
         /\ pinned[s] # None /\ ~doubtful[s] /\ SameService(pinned[s], service')
         => SameService(pinned[s], service)
  PROVE  Remembers(s)'
<1>1. hook[s].at = "service again" => pinned[s] # None
  BY CaptureAssumption DEF Recorded, Fits
<1> QED BY <1>1 DEF Remembers

\* Each command changes its own place only, and keeps what it may restore, drops it, or
\* has just read it from a stopped service.
LEMMA CommandPrevious ==
  ASSUME Inv, NEW c \in Cli, Command(c), NEW d \in Cli
  PROVE  /\ d # c => cli'[d] = cli[d]
         /\ \/ cli'[d].previous \in {None, cli[d].previous}
            \/ service.stopped /\ cli'[d].previous = service
<1>1. cli \in [Cli -> CommandRecord]
  BY DEF Inv, Commands
<1>2. CASE Stop(c) \/ Unshare(c)
  BY <1>2 DEF Stop, Unshare, commands
<1>3. CASE BeginStart(c) \/ BeginLocal(c) \/ BeginConnect(c)
  BY <1>1, <1>3 DEF BeginStart, BeginLocal, BeginConnect, Previous, CommandRecord
<1>4. CASE Done(c) \/ Fail(c) \/ Last(c, "closing")
  <2>1. CASE Done(c)
    BY <1>1, <2>1 DEF Done, NoCommand, CommandRecord
  <2>2. CASE Last(c, "closing") \/ Last(c, "failed")
    <3>1. PICK place \in {"closing", "failed"} : Last(c, place)
      BY <2>2
    <3> DEFINE r == [NoCommand EXCEPT !.at = place, !.previous = cli[c].previous]
    <3>2. cli' = [cli EXCEPT ![c] = r]
      BY <3>1 DEF Last
    <3>3. r.previous = cli[c].previous
      BY DEF NoCommand
    <3> HIDE DEF r
    <3> QED BY <1>1, <3>2, <3>3
  <2> QED BY <1>4, <2>1, <2>2 DEF Fail
<1>5. CASE \/ Goto(c, "configuring") \/ Goto(c, "resuming")
           \/ Goto(c, "registering") \/ Goto(c, "stopping")
  BY <1>1, <1>5 DEF Goto, CommandRecord
<1>6. CASE ReadConfiguration(c) \/ Register(c)
  BY <1>1, <1>6 DEF ReadConfiguration, Register, CommandRecord
<1>7. CASE Started(c)
  BY <1>4, <1>5, <1>7 DEF Started
<1>8. CASE Resumed(c) \/ PutBack(c) \/ Connect(c) \/ Restore(c) \/ Killed(c)
  BY <1>4, <1>8 DEF Resumed, PutBack, Connect, Restore, Killed
<1>9. CASE Configure(c) \/ RollBack(c)
  BY <1>4, <1>5, <1>9 DEF Configure, RollBack
<1> QED BY <1>2, <1>3, <1>6, <1>7, <1>8, <1>9 DEF Command

\* Histories and epochs only grow.
LEMMA CommandLater ==
  ASSUME Inv, NEW c \in Cli, Command(c)
  PROVE  Later /\ (Observe \/ UNCHANGED spans)
<1>1. minted \in Epoch /\ minted \in Nat
  BY DEF Inv, Types, Epoch
<1>2. CASE Stop(c) \/ RollBack(c)
  BY <1>1, <1>2, FreshIsLater, Seen DEF Stop, RollBack, LifecycleStop, Later
<1>3. CASE Unshare(c)
  BY <1>1, <1>3, FreshIsLater, Seen DEF Unshare, LifecycleDisconnect, Later
<1>4. CASE Connect(c)
  BY <1>1, <1>4, FreshIsLater, Seen DEF Connect, LifecycleConnected, Later
<1>5. CASE Started(c) \/ Configure(c) \/ Register(c) \/ PutBack(c) \/ Restore(c)
  BY <1>1, <1>5, Seen DEF Started, Configure, Register, PutBack, Restore, Later
<1>6. CASE BeginStart(c) \/ BeginLocal(c) \/ BeginConnect(c) \/ Resumed(c)
  BY <1>1, <1>6 DEF BeginStart, BeginLocal, BeginConnect, Resumed, Later, history
<1>7. CASE ReadConfiguration(c) \/ Killed(c)
  BY <1>1, <1>7 DEF ReadConfiguration, Killed, Later
<1> QED BY <1>2, <1>3, <1>4, <1>5, <1>6, <1>7 DEF Command

\* A command that pauses memory or changes the server for a record also replaces an epoch of it.
LEMMA CommandService ==
  ASSUME Inv, Honest, NEW c \in Cli, Command(c)
  PROVE  /\ service'.capture <= minted'
         /\ \/ Calm
            \/ Connect(c) /\ cli[c].rotate /\ minted < service'.capture
            \/ /\ ~Available(service') /\ Observe
               /\ minted < service'.capture \/ Restore(c)
<1>1. minted \in Epoch /\ minted \in Nat /\ service \in Service /\ service.capture <= minted
  BY DEF Inv, Types, Epoch, Honest, Bounded
<1>2. CASE Stop(c) \/ RollBack(c)
  <2>1. minted' \in Nat /\ minted < minted' /\ service' = [service EXCEPT !.stopped = TRUE, !.capture = minted']
    BY <1>1, <1>2, FreshIsLater DEF Stop, RollBack, LifecycleStop
  <2>2. Observe
    BY <1>2 DEF Stop, RollBack
  <2> QED BY <1>1, <2>1, <2>2 DEF Available, Service
<1>3. CASE Unshare(c)
  <2>1. minted' \in Nat /\ minted < minted'
    BY <1>1, <1>3, FreshIsLater DEF Unshare, LifecycleDisconnect
  <2>2. service'.disconnected /\ service'.capture = minted'
    BY <1>1, <1>3 DEF Unshare, LifecycleDisconnect, Service
  <2> QED BY <1>3, <2>1, <2>2 DEF Available, Unshare
<1>4. CASE Connect(c) /\ cli[c].rotate
  <2>1. minted' \in Nat /\ minted < minted' /\ service'.capture = minted'
    BY <1>1, <1>4, FreshIsLater DEF Connect, LifecycleConnected
  <2> QED BY <1>4, <2>1
<1>5. CASE Connect(c) /\ ~cli[c].rotate
  BY <1>1, <1>5 DEF Connect, LifecycleConnected, Calm, Available, Service
<1>6. CASE Restore(c)
  <2>1. cli[c].previous \in Service \ {None}
    BY <1>6 DEF Restore, Inv, Commands, HasInHand
  <2>2. cli[c].previous.stopped /\ cli[c].previous.capture <= minted
    BY <2>1 DEF Honest, Bounded
  <2> QED BY <1>6, <2>2 DEF Restore, Available
<1>7. CASE Started(c)
  <2>1. (service' = service \/ service' = [service EXCEPT !.stopped = FALSE]) /\ minted' = minted
    BY <1>7 DEF Started, LifecycleStart
  <2> QED BY <1>1, <2>1 DEF Calm, Available, Service
<1>8. UNCHANGED <<service, minted>> => service'.capture <= minted' /\ Calm
  BY <1>1 DEF Calm
<1>9. CASE \/ BeginStart(c) \/ BeginLocal(c) \/ BeginConnect(c) \/ Resumed(c) \/ Killed(c)
           \/ ReadConfiguration(c) \/ Configure(c) \/ Register(c) \/ PutBack(c)
  <2>1. UNCHANGED <<service, minted>>
    BY <1>9 DEF BeginStart, BeginLocal, BeginConnect, Resumed, Killed, ReadConfiguration, Configure,
       Register, PutBack
  <2> QED BY <1>8, <2>1
<1> QED BY <1>2, <1>3, <1>4, <1>5, <1>6, <1>7, <1>9 DEF Command

LEMMA CommandBounded ==
  ASSUME Inv, Honest, NEW c \in Cli, Command(c)
  PROVE  Bounded' /\ Rotates'
<1>1. UNCHANGED <<pinned, hook, repo, switch>>
  BY DEF Command, Stop, Unshare, BeginStart, BeginLocal, BeginConnect, Started, Resumed,
     ReadConfiguration, Configure, Register, PutBack, Connect, RollBack, Restore, Killed, commands
<1>2. Later /\ service'.capture <= minted'
  BY CommandLater, CommandService
<1>3. service \in Service /\ repo \in Repository /\ service.capture \in Nat /\ repo.capture \in Nat
  BY DEF Inv, Types, Service, Repository, Epoch
<1>4. ASSUME NEW d \in Cli, cli'[d].previous # None
      PROVE  cli'[d].previous.stopped /\ cli'[d].previous.capture <= minted'
  <2>1. cli[d].previous \in Service \cup {None}
    BY DEF Inv, Commands, CommandRecord
  <2>2. CASE cli'[d].previous = cli[d].previous
    <3>1. cli[d].previous.capture \in Nat
      BY <1>4, <2>1, <2>2 DEF Service, Epoch
    <3> QED BY <1>2, <1>4, <2>2, <3>1 DEF Honest, Bounded, Later
  <2>3. CASE service.stopped /\ cli'[d].previous = service
    BY <1>2, <1>3, <2>3 DEF Honest, Bounded, Later
  <2> QED BY <1>4, <2>2, <2>3, CommandPrevious
<1>5. ASSUME NEW s \in Session
      PROVE  /\ pinned[s] # None => /\ pinned[s].service # None => pinned[s].service <= minted'
                                    /\ pinned[s].repo # None => pinned[s].repo <= minted'
             /\ hook[s].at = "pin" => hook[s].repo.capture <= minted'
  <2>1. pinned[s] # None => /\ pinned[s].service # None => pinned[s].service \in Nat
                            /\ pinned[s].repo # None => pinned[s].repo \in Nat
    BY DEF Inv, Types, Pin, Epoch
  <2>2. hook[s].at = "pin" => hook[s].repo.capture \in Nat
    BY DEF Inv, Recorded, Fits, Repository, Epoch
  <2> QED BY <1>2, <2>1, <2>2 DEF Honest, Bounded, Later
<1>6. Bounded'
  BY <1>1, <1>2, <1>3, <1>4, <1>5 DEF Bounded, Honest, Later
<1> QED BY <1>1, <1>6 DEF Honest, Rotates

\* What an earlier command may restore was read after the record was made.
LEMMA PreviousKept ==
  ASSUME Inv, NEW c \in Cli, Command(c), NEW s \in Session, Sound(s), pinned[s] # None, ~doubtful[s]
  PROVE  \A d \in Cli : cli'[d].previous # None => cli'[d].previous.capture # pinned[s].service
<1> SUFFICES ASSUME NEW d \in Cli, cli'[d].previous # None
             PROVE  cli'[d].previous.capture # pinned[s].service
  OBVIOUS
<1>1. CASE cli'[d].previous = cli[d].previous
  BY <1>1 DEF Sound
<1>2. CASE service.stopped /\ cli'[d].previous = service
  <2>1. pinned[s].service # service.capture
    BY <1>2 DEF Sound, Available
  <2> QED BY <1>2, <2>1
<1> QED BY <1>1, <1>2, CommandPrevious

\* A command reads the configuration while another exchanges it: every record is doubtful.
LEMMA AloneKept ==
  ASSUME Inv, NEW c \in Cli, Command(c), NEW s \in Session, Sound(s), pinned[s] # None, ~doubtful'[s],
         ~doubtful[s]
  PROVE  /\ Alone(cli')
         /\ cli'[c].at \in Exchanging /\ cli[c].at \notin Exchanging
            => ReadConfiguration(c) /\ \A d \in Cli : cli[d].at \notin Exchanging
<1>1. cli \in [Cli -> CommandRecord]
  BY DEF Inv, Commands
<1>2. ASSUME cli'[c].at \in Exchanging, ~ReadConfiguration(c)
      PROVE  cli[c].at \in Exchanging
  <2>1. Done(c) => FALSE
    BY <1>1, <1>2 DEF Done, NoCommand, Exchanging
  <2>2. Last(c, "closing") \/ Last(c, "failed") => FALSE
    BY <1>1, <1>2 DEF Last, Exchanging, NoCommand
  <2>3. Goto(c, "configuring") \/ Goto(c, "resuming") \/ Goto(c, "stopping") => FALSE
    BY <1>1, <1>2 DEF Goto, Exchanging, CommandRecord
  <2>4. ~Fail(c)
    BY <2>1, <2>2 DEF Fail
  <2>5. ~(BeginStart(c) \/ BeginLocal(c) \/ BeginConnect(c))
    BY <1>1, <1>2 DEF BeginStart, BeginLocal, BeginConnect, Exchanging, CommandRecord
  <2>6. Configure(c) \/ Register(c) => cli[c].at \in Exchanging
    BY DEF Configure, Register, Exchanging
  <2>7. Stop(c) \/ Unshare(c) => cli[c].at \in Exchanging
    BY <1>2 DEF Stop, Unshare, commands
  <2> QED BY <1>2, <2>1, <2>2, <2>3, <2>4, <2>5, <2>6, <2>7
          DEF Command, Started, Resumed, PutBack, Connect, RollBack, Restore, Killed
<1>3. ReadConfiguration(c) => \A d \in Cli : cli[d].at \notin Exchanging
  BY DEF ReadConfiguration
<1>4. \A d \in Cli \ {c} : cli'[d] = cli[d]
  BY CommandPrevious
<1>5. Alone(cli)
  BY DEF Sound
<1> QED BY <1>2, <1>3, <1>4, <1>5 DEF Alone

\* A configuration that is exchanged comes from the server of the record, or goes back to it.
LEMMA AgreedKept ==
  ASSUME Inv, Honest, NEW c \in Cli, Command(c), NEW s \in Session, Sound(s), pinned[s] # None, ~doubtful'[s],
         ~doubtful[s], Calm, pinned[s].allowed, SameService(pinned[s], service)
  PROVE  Agreed(pinned[s], cli', server')
<1> DEFINE P == pinned[s]
<1>1. cli \in [Cli -> CommandRecord] /\ Alone(cli) /\ Agreed(P, cli, server) /\ Available(service)
  BY DEF Inv, Commands, Sound, SameService
<1>2. \A d \in Cli \ {c} : cli'[d] = cli[d]
  BY CommandPrevious
<1>3. ASSUME cli[c].at \notin Exchanging, cli'[c].at \notin Exchanging, server' = server
      PROVE  Agreed(P, cli', server')
  <2>1. \A d \in Cli : \/ cli'[d] = cli[d]
                       \/ cli[d].at \notin Exchanging /\ cli'[d].at \notin Exchanging
    BY <1>2, <1>3
  <2>2. \A d \in Cli : cli'[d].at \in {"writing", "registering", "connecting"} => cli'[d] = cli[d]
    BY <2>1 DEF Exchanging
  <2>3. (\A d \in Cli : cli'[d].at \notin Exchanging) => \A d \in Cli : cli[d].at \notin Exchanging
    BY <2>1
  <2> QED BY <1>1, <1>3, <2>2, <2>3 DEF Agreed
<1>4. cli[c].at \in Exchanging => \A d \in Cli \ {c} : cli'[d].at \notin Exchanging
  BY <1>1, <1>2 DEF Alone
<1>5. ASSUME cli[c].at \in Exchanging, cli'[c].at \notin Exchanging, server' = P.server
      PROVE  Agreed(P, cli', server')
  BY <1>4, <1>5 DEF Agreed, Exchanging
<1>6. ASSUME Done(c) \/ Fail(c) \/ Last(c, "closing")
      PROVE  cli'[c].at \notin Exchanging
  <2>1. Done(c) => cli'[c].at \notin Exchanging
    BY <1>1 DEF Done, NoCommand, Exchanging
  <2>2. ASSUME NEW place \in {"closing", "failed"}, Last(c, place)
        PROVE  cli'[c].at \notin Exchanging
    BY <1>1, <2>2 DEF Last, NoCommand, Exchanging
  <2> QED BY <1>6, <2>1, <2>2 DEF Fail
<1>7. CASE Stop(c) \/ Unshare(c)
  BY <1>1, <1>7 DEF Stop, Unshare, commands
<1>8. CASE BeginStart(c) \/ BeginLocal(c) \/ BeginConnect(c)
  BY <1>1, <1>3, <1>8 DEF BeginStart, BeginLocal, BeginConnect, Idle, Exchanging,
     CommandRecord
<1>9. CASE Started(c)
  BY <1>1, <1>3, <1>6, <1>9 DEF Started, Goto, Exchanging, CommandRecord
<1>10. CASE Resumed(c) \/ Restore(c)
  BY <1>3, <1>6, <1>10 DEF Resumed, Restore, Exchanging
<1>11. CASE RollBack(c)
  BY <1>1, <1>3, <1>6, <1>11 DEF RollBack, Goto, Exchanging, CommandRecord
<1>12. CASE ReadConfiguration(c)
  <2>1. \A d \in Cli : cli[d].at \notin Exchanging
    BY <1>12 DEF ReadConfiguration
  <2>2. server = P.server /\ server' = server
    BY <1>1, <1>12, <2>1 DEF Agreed, ReadConfiguration
  <2>3. cli'[c].at = "writing" /\ cli'[c].from = server
    BY <1>1, <1>12 DEF ReadConfiguration, CommandRecord
  <2>4. \A d \in Cli \ {c} : cli'[d].at \notin {"writing", "registering", "connecting"}
    BY <1>2, <2>1 DEF Exchanging
  <2> QED BY <2>2, <2>3, <2>4 DEF Agreed, Exchanging
<1>13. CASE Configure(c)
  <2>1. cli[c].from = P.server /\ server' = cli[c].to
    BY <1>1, <1>13 DEF Configure, Agreed
  <2>2. cli'[c].at = "registering" /\ cli'[c].from = cli[c].from /\ cli'[c].to = cli[c].to
    BY <1>1, <1>13 DEF Configure, Goto, CommandRecord
  <2>3. \A d \in Cli \ {c} : cli'[d].at \notin {"writing", "registering", "connecting"}
    BY <1>4, <1>13 DEF Configure, Exchanging
  <2> QED BY <2>1, <2>2, <2>3 DEF Agreed, Exchanging
<1>14. CASE Register(c)
  <2>1. cli[c].from = P.server /\ server = cli[c].to /\ server' = server
    BY <1>1, <1>14 DEF Register, Agreed
  <2>2. /\ cli'[c].at = "connecting" /\ cli'[c].from = cli[c].from
        /\ cli'[c].rotate = ((cli[c].from # cli[c].to) \/ service.disconnected)
    BY <1>1, <1>14 DEF Register, CommandRecord
  <2>3. ~service.disconnected
    BY <1>1 DEF Available
  <2>4. \A d \in Cli \ {c} : cli'[d].at \notin {"writing", "registering", "connecting"}
    BY <1>4, <1>14 DEF Register, Exchanging
  <2> QED BY <2>1, <2>2, <2>3, <2>4 DEF Agreed, Exchanging
<1>15. CASE PutBack(c)
  <2>1. cli'[c].at \notin Exchanging
    BY <1>6, <1>15 DEF PutBack
  <2>2. CASE cli[c].at = "configuring"
    BY <1>3, <1>15, <2>1, <2>2 DEF PutBack, Exchanging
  <2>3. CASE cli[c].at \in Exchanging
    <3>1. cli[c].from = P.server
      BY <1>1, <2>3 DEF Agreed, Exchanging
    <3> QED BY <1>5, <1>15, <2>1, <2>3, <3>1 DEF PutBack, Exchanging
  <2> QED BY <1>15, <2>2, <2>3 DEF PutBack
<1>16. CASE Connect(c)
  <2>1. cli'[c].at \notin Exchanging /\ cli[c].at \in Exchanging /\ server' = server
    BY <1>6, <1>16 DEF Connect, Exchanging
  <2>2. ~cli[c].rotate
    <3>1. SUFFICES ASSUME cli[c].rotate PROVE FALSE
      OBVIOUS
    <3>2. minted < service'.capture
      BY <1>16, <3>1, FreshIsLater DEF Connect, LifecycleConnected, Inv, Types
    <3>3. service.capture <= minted
      BY DEF Honest, Bounded
    <3>4. service.capture \in Nat /\ minted \in Nat
      BY DEF Inv, Types, Service, Epoch
    <3> QED BY <3>2, <3>3, <3>4 DEF Calm
  <2> QED BY <1>1, <1>5, <1>16, <2>1, <2>2 DEF Agreed, Connect
<1>17. CASE Killed(c)
  <2>1. cli'[c].at \notin Exchanging /\ server' = server
    BY <1>6, <1>17 DEF Killed
  <2>2. cli[c].at \notin {"registering", "connecting"}
    BY <1>17 DEF Killed
  <2>3. CASE cli[c].at = "writing"
    BY <1>1, <1>5, <2>1, <2>3 DEF Agreed, Exchanging
  <2>4. CASE cli[c].at # "writing"
    BY <1>3, <2>1, <2>2, <2>4 DEF Exchanging
  <2> QED BY <2>3, <2>4
<1> QED BY <1>7, <1>8, <1>9, <1>10, <1>11, <1>12, <1>13, <1>14, <1>15, <1>16, <1>17 DEF Command

LEMMA CommandHonest ==
  ASSUME Inv, Honest, NEW c \in Cli, Command(c)
  PROVE  Honest'
<1>1. UNCHANGED <<pinned, hook, saved, repo, switch>>
  BY DEF Command, Stop, Unshare, BeginStart, BeginLocal, BeginConnect, Started, Resumed,
     ReadConfiguration, Configure, Register, PutBack, Connect, RollBack, Restore, Killed, commands,
     history
<1>2. Later /\ (Observe \/ UNCHANGED spans)
  BY CommandLater
<1>3. ASSUME NEW s \in Session, pinned[s] # None, ~doubtful[s]
      PROVE  \/ Calm
             \/ service'.capture # pinned[s].service
  <2>1. Sound(s) /\ pinned[s] \in Pin
    BY <1>3 DEF Honest, Inv, Types
  <2>2. CASE minted < service'.capture
    <3>1. pinned[s].service # None => pinned[s].service <= minted /\ pinned[s].service \in Nat
      BY <1>3, <2>1 DEF Honest, Bounded, Pin, Epoch
    <3>2. minted \in Nat /\ minted' \in Nat
      BY <1>2 DEF Later
    <3>3. service'.capture \in Nat
      <4>1. Inv'
        BY CommandInv
      <4> QED BY <4>1 DEF Inv, Types, Service, Epoch
    <3> QED BY <2>2, <3>1, <3>2, <3>3, CaptureAssumption
  <2>3. CASE Restore(c)
    <3>1. service' = cli[c].previous /\ cli[c].previous # None
      BY <2>3 DEF Restore, Inv, Commands, HasInHand
    <3> QED BY <1>3, <2>1, <3>1 DEF Sound
  <2> QED BY <2>2, <2>3, CommandService
<1>4. ASSUME NEW s \in Session PROVE Sound(s)'
  <2>1. SUFFICES ASSUME pinned[s] # None, ~doubtful'[s] PROVE Sound(s)'
    BY <1>1 DEF Sound
  <2>2. ~doubtful[s] /\ Sound(s)
    BY <1>2, <2>1 DEF Later, Honest
  <2>3. \A d \in Cli : cli'[d].previous # None => cli'[d].previous.capture # pinned[s].service
    BY <2>1, <2>2, PreviousKept
  <2>4. Alone(cli')
    BY <2>1, <2>2, AloneKept
  <2>5. CASE Calm
    <3>1. pinned[s].allowed /\ SameService(pinned[s], service) => Agreed(pinned[s], cli', server')
      BY <2>1, <2>2, <2>5, AgreedKept
    <3> QED BY <1>1, <1>2, <2>1, <2>2, <2>3, <2>4, <2>5, <3>1, CalmSound
  <2>6. CASE ~Calm
    <3>1. service'.capture # pinned[s].service
      BY <1>3, <2>1, <2>2, <2>6
    <3>2. spans'[s]
      <4>1. CASE Observe /\ ~Available(service')
        BY <2>1, <4>1, Seen
      <4>2. CASE Connect(c) /\ cli[c].rotate
        <5>1. SUFFICES ASSUME ~spans[s] PROVE spans'[s]
          BY <1>2 DEF Later
        <5>2. CanCapture(pinned[s], repo, service)
          BY <2>1, <2>2, <5>1 DEF Sound
        <5>3. Agreed(pinned[s], cli, server) /\ Alone(cli)
          BY <2>1, <2>2, <5>2 DEF Sound, CanCapture, SameService
        <5>4. server' # pinned[s].server /\ Observe
          BY <4>2, <5>3 DEF Connect, Agreed
        <5>5. cli[c].at \in Exchanging /\ ~ReadConfiguration(c)
          BY <4>2 DEF Connect, Exchanging, ReadConfiguration
        <5>6. \A d \in Cli \ {c} : cli'[d].at \notin {"registering", "connecting"}
          BY <5>3, <5>5, CommandPrevious DEF Alone, Exchanging
        <5>7. cli'[c].at \notin {"registering", "connecting"}
          <6>1. cli \in [Cli -> CommandRecord]
            BY DEF Inv, Commands
          <6>2. Last(c, "closing") \/ Done(c)
            BY <4>2 DEF Connect
          <6>3. CASE Done(c)
            BY <6>1, <6>3 DEF Done, NoCommand
          <6>4. CASE Last(c, "closing")
            BY <6>1, <6>4 DEF Last, NoCommand
          <6> QED BY <6>2, <6>3, <6>4
        <5> QED BY <2>1, <5>4, <5>6, <5>7, Seen
      <4> QED BY <2>6, <4>1, <4>2, CommandService
    <3> QED BY <1>1, <2>1, <2>2, <2>3, <2>4, <3>1, <3>2, BrokenSound
  <2> QED BY <2>5, <2>6
<1>5. ASSUME NEW s \in Session PROVE Remembers(s)'
  <2>1. /\ pinned[s] # None /\ ~doubtful[s] /\ SameService(pinned[s], service')
        => SameService(pinned[s], service)
    BY <1>3 DEF SameService, Calm
  <2> QED BY <1>1, <1>2, <2>1, RemembersKept DEF Honest, Inv, Later
<1> QED BY <1>4, <1>5, CommandBounded, HistoriesKept DEF Honest, Next

LEMMA SwitchHonest ==
  ASSUME Inv, Honest, Switch
  PROVE  Honest'
<1>1. UNCHANGED <<service, server, pinned, hook, cli, saved, doubtful>>
  BY DEF Switch, MemoryOff, MemoryOn, RotateEpoch, Enable, SwitchKilled, history
<1>2. /\ minted \in Nat /\ minted' \in Nat /\ minted <= minted'
      /\ service.capture \in Nat /\ repo.capture \in Nat
      /\ repo' = [enabled |-> repo'.enabled, capture |-> repo'.capture]
      /\ \/ repo'.capture = repo.capture
         \/ minted < minted' /\ repo'.capture = minted'
  <2>1. /\ minted \in Epoch /\ minted \in Nat /\ service.capture \in Nat /\ repo.capture \in Nat
        /\ repo \in Repository
    BY DEF Inv, Types, Repository, Service, Epoch
  <2>2. CASE RotateEpoch
    <3>1. minted' \in Nat /\ minted < minted'
      BY <2>1, <2>2, FreshIsLater DEF RotateEpoch, RotateRepository
    <3>2. repo' = [repo EXCEPT !.capture = minted']
      BY <2>2 DEF RotateEpoch, RotateRepository
    <3> QED BY <2>1, <3>1, <3>2 DEF Repository
  <2>3. CASE MemoryOff \/ MemoryOn \/ Enable \/ SwitchKilled
    BY <2>1, <2>3 DEF MemoryOff, MemoryOn, Enable, SwitchKilled, Repository
  <2> QED BY <2>2, <2>3 DEF Switch
<1>3. (Observe \/ UNCHANGED spans) /\ (repo'.enabled # repo.enabled \/ repo'.capture # repo.capture => Observe)
  BY DEF Switch, MemoryOff, MemoryOn, RotateEpoch, Enable, SwitchKilled, history
<1>4. /\ repo'.enabled /\ ~repo.enabled => switch = "enabling"
      /\ repo'.capture # repo.capture => switch \in {"disabled", "rotating"} /\ repo'.enabled = repo.enabled
      /\ switch' = "enabling" => repo'.capture = minted' /\ minted < minted'
      /\ switch' = "rotating" => ~repo'.enabled
      /\ switch' = "disabled" => ~repo'.enabled
  BY FreshIsLater DEF Switch, MemoryOff, MemoryOn, RotateEpoch, RotateRepository, Enable, SwitchKilled,
     Inv, Types, Repository, Epoch
<1>5. Rotates'
  BY <1>4 DEF Rotates
<1>6. Bounded'
  <2>1. \A c \in Cli : cli[c].previous # None => cli[c].previous.capture \in Nat
    BY DEF Inv, Commands, CommandRecord, Service, Epoch
  <2>2. \A s \in Session :
          /\ pinned[s] # None => /\ pinned[s].service # None => pinned[s].service \in Nat
                                 /\ pinned[s].repo # None => pinned[s].repo \in Nat
          /\ hook[s].at = "pin" => hook[s].repo.capture \in Nat
    <3>1. ASSUME NEW s \in Session
          PROVE  /\ pinned[s] # None => /\ pinned[s].service # None => pinned[s].service \in Nat
                                        /\ pinned[s].repo # None => pinned[s].repo \in Nat
                 /\ hook[s].at = "pin" => hook[s].repo.capture \in Nat
      <4>1. pinned[s] # None => pinned[s] \in Pin
        BY DEF Inv, Types
      <4>2. hook[s].at = "pin" => hook[s].repo \in Repository
        BY DEF Inv, Recorded, Fits
      <4> QED BY <4>1, <4>2 DEF Pin, Repository, Epoch
    <3> QED BY <3>1
  <2>3. repo'.capture <= minted'
    BY <1>2 DEF Honest, Bounded
  <2> QED BY <1>1, <1>2, <2>1, <2>2, <2>3 DEF Honest, Bounded
<1>7. ASSUME NEW s \in Session PROVE Sound(s)'
  <2>1. SUFFICES ASSUME pinned[s] # None, ~doubtful[s] PROVE Sound(s)'
    BY <1>1 DEF Sound
  <2>2. Sound(s) /\ pinned[s] \in Pin
    BY <2>1 DEF Honest, Inv, Types
  <2>3. pinned[s].repo = repo'.capture => repo'.capture = repo.capture
    <3>1. pinned[s].repo # None => pinned[s].repo <= minted /\ pinned[s].repo \in Nat
      BY <2>1, <2>2 DEF Honest, Bounded, Pin, Epoch
    <3> QED BY <1>2, <3>1, CaptureAssumption
  <2>4. pinned[s].repo = repo'.capture => switch' # "enabling"
    <3>1. pinned[s].repo # None => pinned[s].repo <= minted /\ pinned[s].repo \in Nat
      BY <2>1, <2>2 DEF Honest, Bounded, Pin, Epoch
    <3> QED BY <1>2, <1>4, <3>1, CaptureAssumption
  <2>5. CanCapture(pinned[s], repo', service) => CanCapture(pinned[s], repo, service)
    BY <2>3 DEF CanCapture
  <2>6. ASSUME spans'[s], CanCapture(pinned[s], repo', service), repo'.enabled PROVE FALSE
    <3>1. repo'.capture = repo.capture /\ switch # "enabling" /\ repo.enabled
      BY <1>4, <2>1, <2>2, <2>3, <2>6 DEF CanCapture, Sound
    <3>2. ~spans[s]
      BY <2>1, <2>2, <2>5, <2>6, <3>1 DEF Sound
    <3>3. Agreed(pinned[s], cli, server) /\ Available(service)
      BY <2>1, <2>2, <2>6 DEF Sound, CanCapture, SameService
    <3>4. server # pinned[s].server /\ \A c \in Cli : cli[c].at \notin {"registering", "connecting"}
      BY <1>1, <1>3, <2>6, <3>2, <3>3, Seen
    <3>5. CASE \E c \in Cli : cli[c].at = "writing"
      BY <3>3, <3>4, <3>5 DEF Agreed
    <3>6. CASE \A c \in Cli : cli[c].at # "writing"
      BY <3>3, <3>4, <3>6 DEF Agreed, Exchanging
    <3> QED BY <3>5, <3>6
  <2>7. ASSUME ~spans'[s] PROVE CanCapture(pinned[s], repo', service)
    <3>1. ~spans[s]
      BY <1>3, <2>7, Seen
    <3>2. CanCapture(pinned[s], repo, service)
      BY <2>1, <2>2, <3>1 DEF Sound
    <3>3. repo'.capture = repo.capture
      <4>1. SUFFICES ASSUME repo'.capture # repo.capture PROVE FALSE
        OBVIOUS
      <4>2. Observe /\ ~repo'.enabled
        BY <1>3, <1>4, <4>1 DEF Honest, Rotates
      <4> QED BY <1>1, <2>1, <2>7, <4>2, Seen
    <3> QED BY <3>2, <3>3 DEF CanCapture
  <2> QED BY <1>1, <2>1, <2>2, <2>4, <2>6, <2>7 DEF Sound
<1>8. ASSUME NEW s \in Session PROVE Remembers(s)'
  BY <1>1, <1>3, Seen, RemembersKept DEF Honest, Inv
<1> QED BY <1>5, <1>6, <1>7, <1>8, HistoriesKept DEF Honest, Next

\* A hook writes the record of its own session only, and moves no switch.
LEMMA HookOthers ==
  ASSUME Inv, Histories, NEW s \in Session, Hook(s), NEW t \in Session \ {s}
  PROVE  /\ pinned'[t] = pinned[t] /\ hook'[t] = hook[t] /\ saved'[t] = saved[t]
         /\ spans'[t] = spans[t] /\ doubtful'[t] = doubtful[t]
BY DEF Hook, Begin, Record, PinSession, ReadService, ReadRepository, Prepared, ReadRepositoryAgain,
   ReadServiceAgain, Save, Move, Leave, history, Inv, Types, Histories

\* A record that is written again keeps its epochs, or loses its permission.
LEMMA RepinnedSound ==
  ASSUME NEW s \in Session, Inv, Sound(s), pinned[s] \in Pin, hook[s].server \in Server,
         pinned'[s] = Repinned(s), UNCHANGED <<service, repo, server, cli, switch>>,
         doubtful'[s] = doubtful[s],
         spans[s] \in BOOLEAN, spans'[s] = (spans[s] \/ pinned[s].server # hook[s].server)
  PROVE  Sound(s)'
<1>1. pinned[s] # None
  BY CaptureAssumption
<1>2. CASE pinned[s].server = hook[s].server
  <2>1. pinned'[s] = pinned[s] /\ spans'[s] = spans[s]
    <3>1. pinned'[s] = pinned[s]
      BY <1>2 DEF Repinned
    <3>2. spans'[s] = (spans[s] \/ FALSE)
      BY <1>2
    <3> QED BY <3>1, <3>2
  <2> QED BY <2>1 DEF Sound
<1>3. CASE pinned[s].server # hook[s].server
  <2>1. /\ ~pinned'[s].allowed /\ spans'[s]
        /\ pinned'[s].service = pinned[s].service /\ pinned'[s].repo = pinned[s].repo
    BY <1>3 DEF Repinned, Pin
  <2> QED BY <1>1, <2>1 DEF Sound, CanCapture
<1> QED BY <1>2, <1>3

\* A record that is made in a quiet moment is sound.
LEMMA PinnedSound ==
  ASSUME Inv, Honest, NEW s \in Session, PinSession(s)
  PROVE  Sound(s)'
<1>1. /\ hook[s].repo \in Repository /\ service \in Service /\ repo \in Repository
      /\ pinned'[s] = NewPin(s) /\ UNCHANGED <<service, repo, server, cli, switch>>
  BY DEF PinSession, Inv, Types, Recorded, Fits, commands
<1>2. /\ doubtful'[s] = (Busy \/ repo # hook[s].repo \/ server # hook[s].server)
      /\ spans'[s] = (\/ hook[s].event # "sessionStart"
                      \/ ~Available(service) \/ ~repo.enabled
                      \/ server # hook[s].server)
  BY DEF PinSession, Honest, Histories
<1>3. SUFFICES ASSUME ~doubtful'[s] PROVE Sound(s)'
  BY DEF Sound
<1>4. ~Busy /\ repo = hook[s].repo /\ server = hook[s].server
  BY <1>2, <1>3
<1>5. switch = "off" /\ \A c \in Cli : cli[c].at = "off" /\ cli[c].previous = None
  BY <1>4 DEF Busy, Idle, Inv, Commands, HasInHand
<1> DEFINE P == NewPin(s)
<1>6. /\ P.server = server /\ P.allowed = (hook[s].event = "sessionStart")
      /\ P.repo = (IF repo.enabled THEN repo.capture ELSE None)
      /\ P.service = (IF Available(service) THEN service.capture ELSE None)
      /\ P.connection = service.connection
  BY <1>4 DEF NewPin
<1>7. service.capture # None /\ repo.capture # None
  BY <1>1, CaptureAssumption DEF Service, Repository, Epoch
<1> HIDE DEF P
<1>8. /\ P.service = service.capture => Available(service)
      /\ Alone(cli) /\ Agreed(P, cli, server)
  BY <1>5, <1>6, <1>7 DEF Alone, Agreed, Exchanging
<1>9. spans'[s] /\ CanCapture(P, repo, service) => ~repo.enabled
  BY <1>2, <1>4, <1>6, <1>7 DEF CanCapture
<1>10. ~spans'[s] => CanCapture(P, repo, service)
  BY <1>2, <1>6 DEF CanCapture
<1> QED BY <1>1, <1>5, <1>8, <1>9, <1>10 DEF Sound, P

\* A hook that goes on with its record or finds one.
LEMMA HookGoesOn ==
  ASSUME Inv, Honest, NEW s \in Session,
         (Record(s) /\ pinned[s] # None) \/ (Prepared(s) /\ ~Leave(s))
  PROVE  /\ pinned[s] \in Pin /\ hook[s].server \in Server /\ pinned'[s] = Repinned(s)
         /\ doubtful' = doubtful /\ spans'[s] = (spans[s] \/ pinned[s].server # hook[s].server)
         /\ hook'[s].at \in {"service", "repo again"} /\ hook'[s].late = hook[s].late
         /\ saved' = saved
<1>1. /\ Fits(hook[s], pinned[s], saved[s]) /\ pinned \in [Session -> Pin \cup {None}]
      /\ hook = [t \in Session |-> hook[t]] /\ spans \in [Session -> BOOLEAN]
  BY DEF Inv, Recorded, Types, Honest, Histories
<1>2. CASE Record(s) /\ pinned[s] # None
  <2>1. hook' = [hook EXCEPT ![s].at = "service"] /\ hook[s].at = "record"
    BY <1>2 DEF Record, Move
  <2>2. hook'[s].at = "service" /\ hook'[s].late = hook[s].late /\ hook[s].server \in Server
    BY <1>1, <2>1 DEF Fits
  <2>3. pinned' = [pinned EXCEPT ![s] = Repinned(s)] /\ doubtful' = doubtful /\ saved' = saved
    BY <1>2 DEF Record
  <2>4. spans' = [spans EXCEPT ![s] = @ \/ pinned[s].server # hook[s].server]
    BY <1>2 DEF Record
  <2> QED BY <1>1, <1>2, <2>2, <2>3, <2>4
<1>3. CASE Prepared(s) /\ ~Leave(s)
  <2>1. hook' = [hook EXCEPT ![s].at = "repo again"] /\ hook[s].at = "again"
    BY <1>3 DEF Prepared, Move
  <2>2. /\ hook'[s].at = "repo again" /\ hook'[s].late = hook[s].late /\ hook[s].server \in Server
        /\ pinned[s] \in Pin
    BY <1>1, <2>1 DEF Fits
  <2>3. pinned' = [pinned EXCEPT ![s] = Repinned(s)] /\ doubtful' = doubtful /\ saved' = saved
    BY <1>3 DEF Prepared
  <2>4. spans' = [spans EXCEPT ![s] = @ \/ pinned[s].server # hook[s].server]
    BY <1>3 DEF Prepared
  <2> QED BY <1>1, <2>2, <2>3, <2>4
<1> QED BY <1>2, <1>3

\* The checks of a hook, each at its own moment, together see what a late one has missed.
LEMMA HookRemembers ==
  ASSUME Inv, Honest, NEW s \in Session, Hook(s)
  PROVE  Remembers(s)'
<1>1. /\ Remembers(s) /\ Sound(s) /\ Fits(hook[s], pinned[s], saved[s])
      /\ hook = [t \in Session |-> hook[t]] /\ saved = [t \in Session |-> saved[t]]
  BY DEF Honest, Inv, Types, Recorded
<1>2. CASE Begin(s)
  <2>1. /\ hook'[s].at = "record" /\ hook'[s].late = spans[s]
        /\ UNCHANGED <<pinned, spans, doubtful, saved>>
    BY <1>1, <1>2 DEF Begin, history, NoHook
  <2> QED BY <1>1, <2>1 DEF Remembers
<1>3. CASE Leave(s) /\ UNCHANGED <<spans, saved>>
  BY <1>1, <1>3 DEF Remembers, Leave, NoHook
<1>4. CASE (Record(s) /\ pinned[s] # None) \/ (Prepared(s) /\ ~Leave(s))
  <2>1. /\ hook'[s].at \in {"service", "repo again"} /\ hook'[s].late = hook[s].late
        /\ saved' = saved /\ spans'[s] = (spans[s] \/ pinned[s].server # hook[s].server)
    BY <1>4, HookGoesOn
  <2> QED BY <1>1, <2>1 DEF Remembers
<1>12. CASE Record(s) /\ pinned[s] = None
  <2>1. /\ hook'[s].at = "pin" /\ hook'[s].late = hook[s].late
        /\ UNCHANGED <<spans, saved>>
    BY <1>1, <1>12 DEF Record, Fits
  <2> QED BY <1>1, <2>1 DEF Remembers
<1>5. CASE Prepared(s) /\ Leave(s)
  <2>1. hook'[s].at = "off"
    BY <1>1, <1>5 DEF Leave, NoHook
  <2>2. ~Move(s, "repo again")
    BY <1>1, <2>1 DEF Move, Fits
  <2>3. UNCHANGED <<spans, saved>>
    BY <1>5, <2>2 DEF Prepared
  <2> QED BY <1>3, <1>5, <2>3
<1>6. CASE PinSession(s)
  <2>1. hook'[s].at = "service" /\ hook'[s].late = spans'[s] /\ saved' = saved
    BY <1>1, <1>6 DEF PinSession, Fits
  <2> QED BY <1>1, <2>1 DEF Remembers
<1>7. CASE (ReadService(s) \/ ReadRepository(s)) /\ ~Leave(s)
  <2>1. /\ hook'[s].at \in {"repo", "again"} /\ hook'[s].late = hook[s].late
        /\ UNCHANGED <<spans, saved>>
    BY <1>1, <1>7 DEF ReadService, ReadRepository, history, Fits
  <2> QED BY <1>1, <2>1 DEF Remembers
<1>8. CASE ReadRepositoryAgain(s)
  <2>1. /\ hook'[s].at = "service again" /\ hook'[s].late = hook[s].late /\ hook'[s].repo = repo
        /\ UNCHANGED <<spans, saved, pinned, doubtful, service>>
    BY <1>1, <1>8 DEF ReadRepositoryAgain, history, Fits
  <2>2. ASSUME hook[s].late, ~doubtful[s], pinned[s].allowed, repo.enabled,
               repo.capture = pinned[s].repo, SameService(pinned[s], service)
        PROVE  FALSE
    <3>1. spans[s] /\ pinned[s] # None
      BY <1>1, <1>8, <2>2, CaptureAssumption DEF Remembers, Fits, ReadRepositoryAgain
    <3>2. CanCapture(pinned[s], repo, service)
      BY <2>2 DEF CanCapture, SameService
    <3> QED BY <1>1, <2>2, <3>1, <3>2 DEF Sound
  <2> QED BY <1>1, <2>1, <2>2 DEF Remembers
<1>9. CASE ReadServiceAgain(s) /\ ~Leave(s)
  <2>1. /\ hook[s].at = "service again" /\ hook[s].repo.enabled
        /\ CanCapture(pinned[s], hook[s].repo, service)
        /\ UNCHANGED <<spans, saved, pinned, doubtful, service>>
    BY <1>9 DEF ReadServiceAgain, history
  <2>2. hook'[s].at = "save" /\ hook'[s].late = hook[s].late
    BY <1>1, <1>9 DEF ReadServiceAgain, Fits
  <2>3. hook[s].late => doubtful[s]
    BY <1>1, <2>1 DEF Remembers, CanCapture, SameService
  <2> QED BY <1>1, <2>1, <2>2, <2>3 DEF Remembers
<1>10. CASE Save(s)
  <2>1. /\ hook'[s].at = "off" /\ hook'[s].late = FALSE
        /\ saved'[s].late = hook[s].late /\ saved'[s].doubtful = doubtful[s]
    BY <1>1, <1>10 DEF Save, Leave, NoHook
  <2>2. hook[s].late => doubtful[s]
    BY <1>1, <1>10 DEF Save, Remembers
  <2> QED BY <2>1, <2>2 DEF Remembers
<1>11. (ReadService(s) \/ ReadRepository(s) \/ ReadServiceAgain(s)) => UNCHANGED <<spans, saved>>
  BY DEF ReadService, ReadRepository, ReadServiceAgain, history
<1>13. CASE Record(s)
  BY <1>4, <1>12, <1>13
<1>14. CASE Prepared(s)
  BY <1>4, <1>5, <1>14
<1>15. CASE ReadService(s)
  BY <1>3, <1>7, <1>11, <1>15
<1>16. CASE ReadRepository(s)
  BY <1>3, <1>7, <1>11, <1>16
<1>17. CASE ReadServiceAgain(s)
  BY <1>3, <1>9, <1>11, <1>17
<1> QED BY <1>2, <1>6, <1>8, <1>10, <1>13, <1>14, <1>15, <1>16, <1>17 DEF Hook

LEMMA OthersHonest ==
  ASSUME Inv, Honest, NEW s \in Session, Hook(s), NEW t \in Session \ {s},
         UNCHANGED <<service, repo, server, minted, cli, switch>>
  PROVE  Sound(t)' /\ Remembers(t)'
<1>1. /\ pinned'[t] = pinned[t] /\ hook'[t] = hook[t] /\ saved'[t] = saved[t]
      /\ spans'[t] = spans[t] /\ doubtful'[t] = doubtful[t]
  BY HookOthers DEF Honest
<1>2. Sound(t)'
  BY <1>1 DEF Honest, Sound
<1>3. Remembers(t)'
  BY <1>1 DEF Honest, Remembers
<1> QED BY <1>2, <1>3

LEMMA HookHonest ==
  ASSUME Inv, Honest, NEW s \in Session, Hook(s)
  PROVE  Honest'
<1>1. UNCHANGED <<service, repo, server, minted, cli, switch>>
  BY DEF Hook, Begin, Record, PinSession, ReadService, ReadRepository, Prepared,
     ReadRepositoryAgain, ReadServiceAgain, Save, commands
<1>2. Fits(hook[s], pinned[s], saved[s]) /\ hook = [t \in Session |-> hook[t]]
  BY DEF Inv, Recorded, Types
<1>3. CASE PinSession(s)
  <2>1. /\ pinned'[s].service # None => pinned'[s].service <= minted
        /\ pinned'[s].repo # None => pinned'[s].repo <= minted
    BY <1>2, <1>3 DEF PinSession, NewPin, Honest, Bounded, Inv, Types
  <2>2. hook'[s].at = "service"
    BY <1>2, <1>3 DEF PinSession, Fits
  <2>3. Bounded'
    BY <1>1, <2>1, <2>2, HookOthers DEF Honest, Bounded
  <2>4. \A t \in Session : Sound(t)' /\ Remembers(t)'
    BY <1>1, <1>3, PinnedSound, HookRemembers, OthersHonest
  <2> QED BY <1>1, HistoriesKept, <2>3, <2>4 DEF Honest, Rotates, Next
<1>4. CASE (Record(s) /\ pinned[s] # None) \/ (Prepared(s) /\ ~Leave(s))
  <2>1. /\ pinned[s] \in Pin /\ hook[s].server \in Server /\ pinned'[s] = Repinned(s)
        /\ doubtful' = doubtful /\ spans'[s] = (spans[s] \/ pinned[s].server # hook[s].server)
        /\ hook'[s].at \in {"service", "repo again"}
    BY <1>4, HookGoesOn
  <2>2. pinned'[s].service = pinned[s].service /\ pinned'[s].repo = pinned[s].repo /\ pinned[s] # None
    BY <2>1, CaptureAssumption DEF Repinned, Pin
  <2>3. Bounded'
    <3>1. minted' = minted /\ service' = service /\ repo' = repo /\ cli' = cli
      BY <1>1
    <3>2. ASSUME NEW t \in Session, pinned'[t] # None
          PROVE  /\ pinned'[t].service # None => pinned'[t].service <= minted
                 /\ pinned'[t].repo # None => pinned'[t].repo <= minted
      <4>1. CASE t = s
        BY <2>2, <4>1 DEF Honest, Bounded
      <4>2. CASE t # s
        <5>1. pinned'[t] = pinned[t]
          BY <4>2, HookOthers DEF Honest
        <5> QED BY <3>2, <5>1 DEF Honest, Bounded
      <4> QED BY <4>1, <4>2
    <3>3. ASSUME NEW t \in Session, hook'[t].at = "pin"
          PROVE  hook'[t].repo.capture <= minted
      <4>1. t # s
        BY <2>1, <3>3
      <4>2. hook'[t] = hook[t]
        BY <4>1, HookOthers DEF Honest
      <4> QED BY <3>3, <4>2 DEF Honest, Bounded
    <3> QED BY <3>1, <3>2, <3>3 DEF Honest, Bounded
  <2>4. Sound(s)'
    BY <1>1, <2>1, RepinnedSound DEF Honest, Histories
  <2>5. \A t \in Session : Sound(t)' /\ Remembers(t)'
    BY <1>1, <2>4, HookRemembers, OthersHonest
  <2> QED BY <1>1, HistoriesKept, <2>3, <2>5 DEF Honest, Rotates, Next
<1>5. CASE pinned' = pinned /\ spans' = spans /\ doubtful' = doubtful
           /\ (hook'[s].at = "pin" => hook'[s].repo = repo)
  <2>1. Bounded'
    BY <1>1, <1>5, HookOthers DEF Honest, Bounded
  <2>2. \A t \in Session : Sound(t)' /\ Remembers(t)'
    <3>1. Sound(s)'
      BY <1>1, <1>5 DEF Honest, Sound
    <3> QED BY <1>1, <3>1, HookRemembers, OthersHonest
  <2> QED BY <1>1, HistoriesKept, <2>1, <2>2 DEF Honest, Rotates, Next
<1>6. CASE Leave(s) /\ pinned' = pinned /\ spans' = spans /\ doubtful' = doubtful
  BY <1>2, <1>5, <1>6 DEF Leave, NoHook
<1>7. CASE Record(s) /\ pinned[s] = None
  BY <1>2, <1>5, <1>7 DEF Record, Fits
<1>8. CASE Prepared(s) /\ Leave(s)
  <2>1. hook'[s].at = "off"
    BY <1>2, <1>8 DEF Leave, NoHook
  <2>2. hook'[s].at # "repo again"
    BY <2>1
  <2>3. ~Move(s, "repo again")
    BY <1>2, <2>2 DEF Move, Fits
  <2> QED BY <1>6, <1>8, <2>3 DEF Prepared
<1>9. CASE Begin(s) \/ ReadRepositoryAgain(s) \/ Save(s) \/ ReadService(s) \/ ReadRepository(s)
           \/ ReadServiceAgain(s)
  <2>1. pinned' = pinned /\ spans' = spans /\ doubtful' = doubtful
    BY <1>9 DEF Begin, ReadRepositoryAgain, Save, ReadService, ReadRepository, ReadServiceAgain, history
  <2>2. hook'[s].at # "pin"
    <3>1. Leave(s) => hook'[s].at # "pin"
      BY <1>2 DEF Leave, NoHook
    <3>2. CASE Begin(s)
      BY <1>2, <3>2 DEF Begin, NoHook
    <3>3. CASE ReadRepositoryAgain(s)
      BY <1>2, <3>3 DEF ReadRepositoryAgain, Fits
    <3>4. CASE ReadService(s)
      BY <1>2, <3>1, <3>4 DEF ReadService, Fits
    <3>5. CASE ReadRepository(s)
      BY <1>2, <3>1, <3>5 DEF ReadRepository, Fits
    <3>6. CASE ReadServiceAgain(s)
      BY <1>2, <3>1, <3>6 DEF ReadServiceAgain, Fits
    <3>7. CASE Save(s)
      BY <3>1, <3>7 DEF Save
    <3> QED BY <1>9, <3>2, <3>3, <3>4, <3>5, <3>6, <3>7
  <2> QED BY <1>5, <2>1, <2>2
<1>10. CASE Record(s)
  BY <1>4, <1>7, <1>10
<1>11. CASE Prepared(s)
  BY <1>4, <1>8, <1>11
<1> QED BY <1>3, <1>9, <1>10, <1>11 DEF Hook

LEMMA HonestStep == Inv /\ Honest /\ [Next]_vars => Honest'
<1> SUFFICES ASSUME Inv, Honest, [Next]_vars PROVE Honest'
  OBVIOUS
<1>1. CASE UNCHANGED vars
  <2>1. UNCHANGED <<service, repo, server, minted, pinned, hook, cli, switch, spans, doubtful, saved>>
    BY <1>1 DEF vars, commands, history
  <2>2. Histories' /\ Bounded' /\ Rotates'
    BY <2>1 DEF Honest, Histories, Bounded, Rotates
  <2>3. ASSUME NEW s \in Session PROVE Sound(s)'
    BY <2>1 DEF Honest, Sound, Agreed, Alone
  <2>4. ASSUME NEW s \in Session PROVE Remembers(s)'
    BY <2>1 DEF Honest, Remembers
  <2> QED BY <2>2, <2>3, <2>4 DEF Honest
<1>2. CASE \E c \in Cli : Command(c)
  BY <1>2, CommandHonest
<1>3. CASE Switch
  BY <1>3, SwitchHonest
<1>4. CASE \E s \in Session : Hook(s)
  BY <1>4, HookHonest
<1> QED BY <1>1, <1>2, <1>3, <1>4 DEF Next

LEMMA HonestInvariant == Spec => []Honest
BY InitInv, InvStep, InitHonest, HonestStep, PTL DEF Spec

\* No hook that was called after its session has seen a pause, or a change of server, saves a
\* transcript: not whichever commands, switches and hooks are interleaved, fail or are killed
\* (hooks.py checks the record against each file at a moment of its own).
THEOREM NotRetroactiveHolds == Spec => []NotRetroactive
<1>1. Honest => NotRetroactive
  BY DEF Honest, Remembers, NotRetroactive
<1> QED BY <1>1, HonestInvariant, PTL

\* A session that has seen neither is saved as long as it lasts: no command that fails, starts
\* again or connects to the same server takes its permission away.
THEOREM FreshIsSavedHolds == Spec => []FreshIsSaved
<1>1. Honest => FreshIsSaved
  BY DEF Honest, Sound, FreshIsSaved
<1> QED BY <1>1, HonestInvariant, PTL

=============================================================================
