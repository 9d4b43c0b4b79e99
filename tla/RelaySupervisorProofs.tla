------------------------- MODULE RelaySupervisorProofs -------------------------
(***************************************************************************)
(* The supervisor of a relay worker, for any number of CLI processes,      *)
(* ports, forwarded connections and failures.  One CLI runs at a time, and *)
(* it is the one the supervisor remembers; a line counts only for it, and  *)
(* reset() cuts every connection before the next one is started.           *)
(***************************************************************************)
EXTENDS RelaySupervisor, TLAPS

\* The part of TypeOK the arguments below need.
Types ==
  /\ child \in Child \cup {None} /\ current \in Child \cup {None}
  /\ upstream \in Port \cup {None}
  /\ alive \subseteq Child
  /\ listener \in [Port -> Child \cup {None, Other}]
  /\ conn \in [Conn -> [at : {"idle", "dialing", "connected", "pumping"},
                        child : Child \cup {None}, port : Port \cup {None},
                        peer : Child \cup {None, Other}]]
  /\ failures \in 0..ProbeFailures - 1 /\ bad \in 0..ProbeFailures

Printed == lines \in [Child -> Seq(Port \cup {None})]

\* The supervisor has at most one CLI, the one it remembers, and none between two.
Supervised ==
  /\ child \in {None, current}
  /\ alive \subseteq {current}
  /\ sup \in {"spawn", "close", "delay"} => alive = {}
  /\ sup = "done" /\ ~crashed => alive = {}
  /\ worker = "left" => sup = "done"
  /\ \A p \in Port : listener[p] \in Child => listener[p] \in alive

\* A probe is about a line, and what is reported came from one.
Reported ==
  /\ sup = "probe" => seen # None \/ heard
  /\ source # None => upstream # None \/ announced
  /\ ReadyIsCurrent

\* The supervisor never counts more failures than there were.
Counts ==
  /\ sup \in {"look", "decide", "probe"} => failures <= bad
  /\ sup = "count" /\ answer = "down" => failures < bad

\* A connection that is made has reached the CLI it was accepted for, unless another
\* program has taken the port, for good.
Dialed ==
  \A f \in Conn :
    /\ conn[f].at \in {"dialing", "connected"} => conn[f].port \in Port
    /\ conn[f].at = "connected" /\ conn[f].child = current =>
         conn[f].peer = current \/ (conn[f].peer = Other /\ listener[conn[f].port] = Other)

Inv == Types /\ Printed /\ Supervised /\ Reported /\ Counts /\ Dialed /\ ForwardsToCurrent

-----------------------------------------------------------------------------
LEMMA InitInv == Init => Inv
BY SupervisorAssumption
   DEF Init, Inv, Types, Printed, Supervised, Reported, ReadyIsCurrent, Counts, Dialed, ForwardsToCurrent, Idle

\* Whatever the condition, the connections that are left keep their form.
LEMMA ResetTypes ==
  ASSUME Types, Reset
  PROVE  /\ conn' \in [Conn -> [at : {"idle", "dialing", "connected", "pumping"},
                                child : Child \cup {None}, port : Port \cup {None},
                                peer : Child \cup {None, Other}]]
         /\ upstream' = None
         /\ \A f \in Conn : IF f \in sockets THEN conn'[f] = Idle ELSE conn'[f] = conn[f]
BY DEF Reset, Types, Idle

LEMMA EndsTypes ==
  ASSUME Types, NEW c, Ends(c)
  PROVE  /\ alive' \subseteq Child
         /\ listener' \in [Port -> Child \cup {None, Other}]
BY DEF Ends, Types

LEMMA TypesStep ==
  ASSUME Inv, [Next]_vars
  PROVE  Types'
<1> USE SupervisorAssumption DEF Inv
<1>1. CASE Spawn
  BY <1>1, ResetTypes DEF Spawn, Forget, Types, Free
<1>2. CASE Look
  BY <1>2, ResetTypes DEF Look, Leave, Forget, Types, cli
<1>3. CASE Decide
  BY <1>3 DEF Decide, Types, state, cli
<1>4. CASE Probe
  BY <1>4 DEF Probe, Types, cli, Least
<1>5. CASE Count
  <2>1. child' \in Child \cup {None} /\ current' = current
    BY <1>5 DEF Count, Types, Leave, state
  <2>6. upstream' \in Port \cup {None}
    BY <1>5 DEF Count, Types, Leave, Reset, state
  <2>2. failures' \in 0..ProbeFailures - 1
    BY <1>5 DEF Count, Types, Leave, Forget, Enough, Counted
  <2>3. bad' \in 0..ProbeFailures
    BY <1>5 DEF Count, Types, Leave, Forget
  <2>4. conn' \in [Conn -> [at : {"idle", "dialing", "connected", "pumping"},
                            child : Child \cup {None}, port : Port \cup {None},
                            peer : Child \cup {None, Other}]]
    <3>1. CASE Enough(Counted)
      BY <1>5, <3>1, ResetTypes DEF Count, Leave
    <3>2. CASE ~Enough(Counted)
      BY <1>5, <3>2 DEF Count, Types
    <3> QED BY <3>1, <3>2
  <2>5. alive' = alive /\ listener' = listener
    BY <1>5 DEF Count, cli
  <2> QED BY <2>1, <2>2, <2>3, <2>4, <2>5, <2>6 DEF Types
<1>6. CASE Kill
  BY <1>6, EndsTypes DEF Kill, Types, state, locals, history
<1>7. CASE CloseChild
  BY <1>7, ResetTypes DEF CloseChild, Types, locals
<1>8. CASE Delay
  BY <1>8 DEF Delay, Types, state, cli, locals, history
<1>9. CASE SpawnFails
  BY <1>9, ResetTypes DEF SpawnFails, Types, cli, locals
<1>10. CASE Silent
  BY <1>10, ResetTypes DEF Silent, Leave, Forget, Types, cli
<1>11. CASE GraceOver
  BY <1>11 DEF GraceOver, Types, state, cli, history
<1>12. CASE Crash
  BY <1>12 DEF Crash, Types, state, cli, locals
<1>13. ASSUME NEW c \in Child, Announce(c) PROVE Types'
  BY <1>13 DEF Announce, Types, state, locals, history
<1>14. ASSUME NEW c \in Child, Line(c) PROVE Types'
  <2>1. Head(lines[c]) \in Port \cup {None}
    BY <1>14 DEF Line, Printed
  <2> QED BY <1>14, <2>1 DEF Line, Types, locals
<1>15. ASSUME NEW c \in Child, CliExits(c) PROVE Types'
  BY <1>15, EndsTypes DEF CliExits, Types, state, locals, history
<1>16. ASSUME NEW p \in Port, Stranger(p) PROVE Types'
  BY <1>16 DEF Stranger, Types, state, locals, history
<1>17. ASSUME NEW f \in Conn, Accept(f) PROVE Types'
  <2>1. upstream \in Port /\ child \in Child
    BY <1>17 DEF Accept, Usable, Owned, Types, Supervised, Reported
  <2> QED BY <1>17, <2>1 DEF Accept, Types, state, cli, locals, history
<1>18. ASSUME NEW f \in Conn, Dial(f) PROVE Types'
  <2>1. listener[conn[f].port] \in Child \cup {None, Other}
    BY <1>18 DEF Dial, Types, Dialed
  <2> QED BY <1>18, <2>1 DEF Dial, Types, Idle, state, cli, locals, history
<1>19. ASSUME NEW f \in Conn, Register(f) PROVE Types'
  BY <1>19 DEF Register, Types, Idle, cli, locals, history
<1>20. ASSUME NEW f \in Conn, HangUp(f) PROVE Types'
  BY <1>20 DEF HangUp, Types, Idle, cli, locals, history
<1>21. CASE Stop
  BY <1>21 DEF Stop, Types, state, cli, locals, history
<1>22. CASE WakeUp
  BY <1>22, ResetTypes DEF WakeUp, Types, cli, locals
<1>23. CASE Exit
  BY <1>23 DEF Exit, Types, Idle, cli, locals, history
<1>24. CASE UNCHANGED vars
  BY <1>24 DEF vars, Types, state, cli, locals, history
<1> QED
  BY <1>1, <1>2, <1>3, <1>4, <1>5, <1>6, <1>7, <1>8, <1>9, <1>10, <1>11, <1>12, <1>13, <1>14, <1>15,
     <1>16, <1>17, <1>18, <1>19, <1>20, <1>21, <1>22, <1>23, <1>24
     DEF Next, Supervise, Serve

LEMMA PrintedStep ==
  ASSUME Inv, [Next]_vars
  PROVE  Printed'
<1> USE SupervisorAssumption DEF Inv
<1>1. ASSUME NEW c \in Child, Announce(c) PROVE Printed'
  <2>1. /\ lines[c] \in Seq(Port \cup {None})
        /\ \E p \in Port \cup {None} : lines' = [lines EXCEPT ![c] = Append(lines[c], p)]
    BY <1>1 DEF Announce, Printed
  <2>2. \A p \in Port \cup {None} : Append(lines[c], p) \in Seq(Port \cup {None})
    BY <2>1
  <2> QED BY <2>1, <2>2 DEF Printed
<1>2. ASSUME NEW c \in Child, Line(c) PROVE Printed'
  <2>1. Tail(lines[c]) \in Seq(Port \cup {None}) /\ lines' = [lines EXCEPT ![c] = Tail(lines[c])]
    BY <1>2 DEF Line, Printed
  <2> QED BY <2>1 DEF Printed
<1>3. CASE CloseChild
  <2>1. PICK n \in 0..Least(1, Len(lines[current])) :
          lines' = [lines EXCEPT ![current] = SubSeq(lines[current], 1, n)]
    BY <1>3 DEF CloseChild
  <2>2. ASSUME current \in Child
        PROVE  SubSeq(lines[current], 1, n) \in Seq(Port \cup {None})
    <3>1. lines[current] \in Seq(Port \cup {None}) /\ n <= Len(lines[current]) /\ n \in Nat
      BY <2>1, <2>2 DEF Printed, Least
    <3> QED BY <3>1
  <2> QED BY <2>1, <2>2 DEF Printed
<1>4. CASE Supervise /\ ~CloseChild
  BY <1>4 DEF Supervise, Spawn, Look, Decide, Probe, Count, Kill, Delay, Printed, cli
<1>5. CASE SpawnFails \/ Silent \/ GraceOver \/ Crash \/ Stop \/ WakeUp \/ Exit
  BY <1>5 DEF SpawnFails, Silent, GraceOver, Crash, Stop, WakeUp, Exit, Printed, cli
<1>6. ASSUME NEW c \in Child, CliExits(c) PROVE Printed'
  BY <1>6 DEF CliExits, Printed
<1>7. ASSUME NEW p \in Port, Stranger(p) PROVE Printed'
  BY <1>7 DEF Stranger, Printed
<1>8. ASSUME NEW f \in Conn, Serve(f) PROVE Printed'
  BY <1>8 DEF Serve, Accept, Dial, Register, HangUp, Printed, cli
<1>9. CASE UNCHANGED vars
  BY <1>9 DEF vars, cli, Printed
<1> QED
  BY <1>1, <1>2, <1>3, <1>4, <1>5, <1>6, <1>7, <1>8, <1>9 DEF Next

LEMMA SupervisedStep ==
  ASSUME Inv, [Next]_vars
  PROVE  Supervised'
<1> USE SupervisorAssumption DEF Inv, Types
<1>1. CASE Spawn
  BY <1>1 DEF Spawn, Supervised
<1>2. CASE Look
  BY <1>2 DEF Look, Leave, Supervised, cli
<1>3. CASE Decide
  BY <1>3 DEF Decide, Supervised, state, cli, history
<1>4. CASE Probe
  BY <1>4 DEF Probe, Supervised, cli
<1>5. CASE Count
  BY <1>5 DEF Count, Leave, Supervised, state, cli
<1>6. CASE Kill
  BY <1>6 DEF Kill, Ends, Supervised, state, locals, history
<1>7. CASE CloseChild
  BY <1>7 DEF CloseChild, Supervised, locals
<1>8. CASE Delay
  BY <1>8 DEF Delay, Supervised, state, cli, locals, history
<1>9. CASE SpawnFails
  BY <1>9 DEF SpawnFails, Supervised, cli, locals
<1>10. CASE Silent
  BY <1>10 DEF Silent, Leave, Supervised, cli
<1>11. CASE GraceOver
  BY <1>11 DEF GraceOver, Supervised, state, cli, history
<1>12. CASE Crash
  BY <1>12 DEF Crash, Supervised, state, cli, locals
<1>13. ASSUME NEW c \in Child, Announce(c) PROVE Supervised'
  BY <1>13 DEF Announce, Supervised, state, locals, history
<1>14. ASSUME NEW c \in Child, Line(c) PROVE Supervised'
  BY <1>14 DEF Line, Supervised, locals
<1>15. ASSUME NEW c \in Child, CliExits(c) PROVE Supervised'
  BY <1>15 DEF CliExits, Ends, Supervised, state, locals, history
<1>16. ASSUME NEW p \in Port, Stranger(p) PROVE Supervised'
  BY <1>16 DEF Stranger, Supervised, state, locals, history
<1>17. ASSUME NEW f \in Conn, Serve(f) PROVE Supervised'
  BY <1>17 DEF Serve, Accept, Dial, Register, HangUp, Supervised, state, cli, locals, history
<1>18. CASE Stop \/ WakeUp \/ Exit
  BY <1>18 DEF Stop, WakeUp, Exit, Supervised, state, cli, locals, history
<1>19. CASE UNCHANGED vars
  BY <1>19 DEF vars, Supervised, state, cli, locals, history
<1> QED
  BY <1>1, <1>2, <1>3, <1>4, <1>5, <1>6, <1>7, <1>8, <1>9, <1>10, <1>11, <1>12, <1>13, <1>14, <1>15,
     <1>16, <1>17, <1>18, <1>19 DEF Next, Supervise

LEMMA ReportedStep ==
  ASSUME Inv, [Next]_vars
  PROVE  Reported'
<1> USE SupervisorAssumption DEF Inv, Types
<1>1. CASE Spawn
  BY <1>1 DEF Spawn, Reset, Reported, ReadyIsCurrent
<1>2. CASE Look
  BY <1>2 DEF Look, Leave, Reset, Reported, ReadyIsCurrent
<1>3. CASE Decide
  BY <1>3 DEF Decide, Reported, ReadyIsCurrent, state
<1>4. CASE Probe
  BY <1>4 DEF Probe, Fresh, Reported, ReadyIsCurrent
<1>5. CASE Count
  BY <1>5 DEF Count, Leave, Reset, Reported, ReadyIsCurrent, state
<1>6. CASE Kill \/ Delay
  BY <1>6 DEF Kill, Delay, Reported, ReadyIsCurrent, state, locals, history
<1>7. CASE CloseChild \/ SpawnFails
  BY <1>7 DEF CloseChild, SpawnFails, Reset, Reported, ReadyIsCurrent, locals
<1>8. CASE Silent
  BY <1>8 DEF Silent, Leave, Reset, Reported, ReadyIsCurrent
<1>9. CASE GraceOver \/ Crash \/ Stop
  BY <1>9 DEF GraceOver, Crash, Stop, Reported, ReadyIsCurrent, state, locals, history
<1>10. ASSUME NEW c \in Child, Line(c) PROVE Reported'
  BY <1>10 DEF Line, Active, Supervised, Reported, ReadyIsCurrent, locals
<1>11. ASSUME NEW c \in Child, Announce(c) \/ CliExits(c) PROVE Reported'
  BY <1>11 DEF Announce, CliExits, Reported, ReadyIsCurrent, state, locals, history
<1>12. ASSUME NEW p \in Port, Stranger(p) PROVE Reported'
  BY <1>12 DEF Stranger, Reported, ReadyIsCurrent, state, locals, history
<1>13. ASSUME NEW f \in Conn, Serve(f) PROVE Reported'
  BY <1>13 DEF Serve, Accept, Dial, Register, HangUp, Reported, ReadyIsCurrent, state, locals, history
<1>14. CASE WakeUp
  BY <1>14 DEF WakeUp, Reset, Reported, ReadyIsCurrent, locals
<1>15. CASE Exit
  BY <1>15 DEF Exit, Reported, ReadyIsCurrent, locals, history
<1>16. CASE UNCHANGED vars
  BY <1>16 DEF vars, Reported, ReadyIsCurrent, state, locals, history
<1> QED
  BY <1>1, <1>2, <1>3, <1>4, <1>5, <1>6, <1>7, <1>8, <1>9, <1>10, <1>11, <1>12, <1>13, <1>14, <1>15,
     <1>16 DEF Next, Supervise

LEMMA CountsStep ==
  ASSUME Inv, [Next]_vars
  PROVE  Counts'
<1> USE SupervisorAssumption DEF Inv, Types
<1>1. CASE Spawn
  BY <1>1 DEF Spawn, Forget, Counts
<1>2. CASE Look
  BY <1>2 DEF Look, Leave, Forget, Counts
<1>3. CASE Decide
  BY <1>3 DEF Decide, Counts
<1>4. CASE Probe
  BY <1>4 DEF Probe, Least, Counts
<1>5. CASE Count
  BY <1>5 DEF Count, Counted, Leave, Forget, Counts
<1>6. CASE Kill \/ Delay
  BY <1>6 DEF Kill, Delay, Counts, locals, history
<1>7. CASE CloseChild \/ SpawnFails
  BY <1>7 DEF CloseChild, SpawnFails, Counts, locals
<1>8. CASE Silent
  BY <1>8 DEF Silent, Leave, Forget, Counts
<1>9. CASE GraceOver \/ Crash \/ Stop \/ WakeUp \/ Exit
  BY <1>9 DEF GraceOver, Crash, Stop, WakeUp, Exit, Counts, locals, history
<1>10. ASSUME NEW c \in Child, Line(c) \/ Announce(c) \/ CliExits(c) PROVE Counts'
  BY <1>10 DEF Line, Announce, CliExits, Counts, locals, history
<1>11. ASSUME NEW p \in Port, Stranger(p) PROVE Counts'
  BY <1>11 DEF Stranger, Counts, locals, history
<1>12. ASSUME NEW f \in Conn, Serve(f) PROVE Counts'
  BY <1>12 DEF Serve, Accept, Dial, Register, HangUp, Counts, locals, history
<1>13. CASE UNCHANGED vars
  BY <1>13 DEF vars, Counts, locals, history
<1> QED
  BY <1>1, <1>2, <1>3, <1>4, <1>5, <1>6, <1>7, <1>8, <1>9, <1>10, <1>11, <1>12, <1>13
     DEF Next, Supervise

\* reset() keeps what is being made, and cuts what carries data.
LEMMA ResetForwards ==
  ASSUME Inv, Reset, listener' = listener, current' = current
  PROVE  Dialed' /\ ForwardsToCurrent'
BY SupervisorAssumption, ResetTypes DEF Inv, Dialed, ForwardsToCurrent, Idle

LEMMA ForwardsStep ==
  ASSUME Inv, [Next]_vars
  PROVE  Dialed' /\ ForwardsToCurrent'
<1> USE SupervisorAssumption DEF Inv, Types
<1>1. CASE Spawn
  <2>1. \A f \in Conn : conn'[f].child # current'
    BY <1>1, ResetTypes DEF Spawn, Free, Idle
  <2>2. \A f \in Conn : conn'[f].at # "pumping"
    BY <1>1, ResetTypes DEF Spawn, ForwardsToCurrent, Idle
  <2>3. \A f \in Conn : conn'[f].at \in {"dialing", "connected"} => conn'[f].port \in Port
    BY <1>1, ResetTypes DEF Spawn, Dialed, Idle
  <2> QED BY <2>1, <2>2, <2>3 DEF Dialed, ForwardsToCurrent
<1>2. CASE Look /\ sup' = "end"
  BY <1>2, ResetForwards DEF Look, Leave, cli
<1>3. CASE Look /\ sup' # "end"
  BY <1>3 DEF Look, Leave, cli, Dialed, ForwardsToCurrent
<1>4. CASE Decide \/ Probe \/ Delay
  BY <1>4 DEF Decide, Probe, Delay, state, cli, locals, Dialed, ForwardsToCurrent
<1>5. CASE Count /\ Enough(Counted)
  BY <1>5, ResetForwards DEF Count, Leave, cli
<1>6. CASE Count /\ ~Enough(Counted)
  BY <1>6 DEF Count, state, cli, Dialed, ForwardsToCurrent
<1>7. CASE Kill
  BY <1>7 DEF Kill, Ends, Supervised, state, locals, Dialed, ForwardsToCurrent
<1>8. CASE CloseChild \/ SpawnFails \/ WakeUp
  BY <1>8, ResetForwards DEF CloseChild, SpawnFails, WakeUp, cli, locals
<1>9. CASE Silent
  BY <1>9, ResetForwards DEF Silent, Leave, cli
<1>10. CASE GraceOver \/ Crash \/ Stop
  BY <1>10 DEF GraceOver, Crash, Stop, state, cli, locals, Dialed, ForwardsToCurrent
<1>11. ASSUME NEW c \in Child, Announce(c) PROVE Dialed' /\ ForwardsToCurrent'
  BY <1>11 DEF Announce, state, locals, Dialed, ForwardsToCurrent
<1>12. ASSUME NEW c \in Child, Line(c) PROVE Dialed' /\ ForwardsToCurrent'
  BY <1>12 DEF Line, locals, Dialed, ForwardsToCurrent
<1>13. ASSUME NEW c \in Child, CliExits(c) PROVE Dialed' /\ ForwardsToCurrent'
  BY <1>13 DEF CliExits, Ends, state, locals, Dialed, ForwardsToCurrent
<1>14. ASSUME NEW p \in Port, Stranger(p) PROVE Dialed' /\ ForwardsToCurrent'
  BY <1>14 DEF Stranger, state, locals, Dialed, ForwardsToCurrent
<1>15. ASSUME NEW f \in Conn, Accept(f) PROVE Dialed' /\ ForwardsToCurrent'
  <2>1. upstream \in Port
    BY <1>15 DEF Accept, Usable, Owned
  <2> QED BY <1>15, <2>1 DEF Accept, state, cli, locals, Dialed, ForwardsToCurrent
<1>16. ASSUME NEW f \in Conn, Dial(f) PROVE Dialed' /\ ForwardsToCurrent'
  <2>1. listener[conn[f].port] \in {None, Other, current}
    BY <1>16 DEF Dial, Dialed, Supervised
  <2> QED BY <1>16, <2>1 DEF Dial, Idle, state, cli, locals, Dialed, ForwardsToCurrent
<1>17. ASSUME NEW f \in Conn, Register(f) PROVE Dialed' /\ ForwardsToCurrent'
  <2>1. CASE upstream = conn[f].port /\ child = conn[f].child /\ Usable
    <3>1. conn[f].child = current /\ conn[f].peer = current
      BY <1>17, <2>1 DEF Register, Usable, Owned, Supervised, Dialed
    <3> QED BY <1>17, <2>1, <3>1 DEF Register, cli, locals, Dialed, ForwardsToCurrent
  <2>2. CASE ~(upstream = conn[f].port /\ child = conn[f].child /\ Usable)
    BY <1>17, <2>2 DEF Register, Idle, cli, locals, Dialed, ForwardsToCurrent
  <2> QED BY <2>1, <2>2
<1>18. ASSUME NEW f \in Conn, HangUp(f) PROVE Dialed' /\ ForwardsToCurrent'
  BY <1>18 DEF HangUp, Idle, cli, locals, Dialed, ForwardsToCurrent
<1>19. CASE Exit
  BY <1>19 DEF Exit, Idle, cli, locals, Dialed, ForwardsToCurrent
<1>20. CASE UNCHANGED vars
  BY <1>20 DEF vars, state, cli, locals, Dialed, ForwardsToCurrent
<1> QED
  BY <1>1, <1>2, <1>3, <1>4, <1>5, <1>6, <1>7, <1>8, <1>9, <1>10, <1>11, <1>12, <1>13, <1>14, <1>15,
     <1>16, <1>17, <1>18, <1>19, <1>20 DEF Next, Supervise, Serve

-----------------------------------------------------------------------------
LEMMA InvStep == Inv /\ [Next]_vars => Inv'
BY TypesStep, PrintedStep, SupervisedStep, ReportedStep, CountsStep, ForwardsStep DEF Inv

\* In every state of the worker one CLI is supervised, and what is remembered of it agrees.
LEMMA Invariance == Spec => []Inv
BY InitInv, InvStep, PTL DEF Spec

\* The relay is only reported ready on the word of the CLI that is supervised now,
\* however late the line of another is read.
THEOREM ReadyHolds == Spec => []ReadyIsCurrent
BY Invariance, PTL DEF Inv, Reported

\* What an agent sends never reaches a CLI that was replaced, nor a program that took
\* over its port.
THEOREM ForwardsHolds == Spec => []ForwardsToCurrent
BY Invariance, PTL DEF Inv

\* A worker that ends in order leaves no CLI behind.
THEOREM LeavesHolds == Spec => []LeavesNothing
<1>1. Inv => LeavesNothing
  BY DEF Inv, Supervised, LeavesNothing
<1> QED BY <1>1, Invariance, PTL

\* Each step that gives up a running CLI which has announced itself.
LEMMA GivesUp ==
  ASSUME Inv, [Next]_vars, child \in alive, child' = None, source # None
  PROVE  bad >= ProbeFailures /\ (mode = "host" => confirmed \/ ~grace)
<1> USE SupervisorAssumption DEF Inv, Types
<1>0. child # None /\ sup \notin {"spawn", "close", "delay"} /\ (upstream # None \/ announced)
  BY DEF Supervised, Reported
<1>1. CASE Count
  <2>1. Counted >= ProbeFailures /\ Counted # 0
    BY <1>0, <1>1 DEF Count, Enough, state
  <2>2. answer = "down" /\ ~Excused /\ Counted = failures + 1
    BY <2>1 DEF Counted
  <2>3. failures < bad
    BY <1>1, <2>2 DEF Count, Counts
  <2> QED BY <2>1, <2>2, <2>3 DEF Excused
<1>2. ~Spawn /\ ~SpawnFails /\ ~CloseChild /\ ~Delay /\ ~Silent
  BY <1>0 DEF Spawn, SpawnFails, CloseChild, Delay, Silent, state
<1>3. CASE ~Count
  <2>1. child' = child
    BY <1>0, <1>2, <1>3
       DEF Next, vars, Supervise, Look, Decide, Probe, Kill, GraceOver, Crash, Announce, Line,
           CliExits, Stranger, Serve, Accept, Dial, Register, HangUp, Stop, WakeUp, Exit, state, locals
  <2> QED BY <1>0, <2>1
<1> QED BY <1>1, <1>3

\* Only a CLI that has really failed that often in a row is replaced.
THEOREM PatientHolds == Spec => Patient
<1>1. Inv /\ [Next]_vars =>
        [(child \in alive /\ child' = None /\ source # None)
           => bad >= ProbeFailures /\ (mode = "host" => confirmed \/ ~grace)]_vars
  BY GivesUp
<1> QED BY <1>1, Invariance, PTL DEF Spec, Patient
=============================================================================
