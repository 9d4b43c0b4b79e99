----------------------------- MODULE ServicesProofs -----------------------------
(***************************************************************************)
(* The commands of the services, for any number of processes, hosts and    *)
(* failures.  Three arguments, each on the one before:                     *)
(*                                                                         *)
(* The port of the connector host admits one host at a time, so that the   *)
(* one which writes its receipt overwrites nobody's who serves; and while  *)
(* one is about to remove its receipt, every host that serves is exposed.  *)
(*                                                                         *)
(* A stop stays effective: whatever runs on a stopped installation has a   *)
(* command that will stop it, or that will look at the flag again.         *)
(*                                                                         *)
(* The keys agree: settings are written only once nothing runs, because    *)
(* whatever runs while a share or an unshare has still to write them is    *)
(* something it has still to stop.                                         *)
(***************************************************************************)
EXTENDS Services, SequenceTheorems, TLAPS

Phase == {"absent", "spawned", "bound", "serving", "closing", "removing"}

Types == phase \in [Host -> Phase]

\* The port belongs to one host.
OnePort == \A h, g \in Host : phase[h] \in Listening /\ phase[g] \in Listening => h = g

\* Whoever serves while another has found the receipt its own and is to remove it, has replaced
\* that receipt since.
Overlap == \A g, h \in Host : phase[g] = "removing" /\ phase[h] = "serving" => h \in exposed

Inv == Types /\ OnePort /\ Overlap /\ HostReachable

LEMMA InitInv == Init => Inv
BY DEF Init, Inv, Types, Phase, OnePort, Listening, Overlap, HostReachable

\* Hosts that leave their phase without taking the port, and with the receipt as it was,
\* break nothing.
LEMMA Quieter ==
  ASSUME Inv, Types', receipt' = receipt,
         \A h \in Host : \/ phase'[h] = phase[h] /\ (h \in exposed => h \in exposed')
                         \/ phase'[h] \in {"absent", "spawned", "closing"}
  PROVE  Inv'
BY DEF Inv, Types, OnePort, Listening, Overlap, HostReachable

LEMMA UnchangedInv ==
  ASSUME Inv, UNCHANGED <<phase, receipt, exposed>>
  PROVE  Inv'
BY DEF Inv, Types, OnePort, Overlap, HostReachable

LEMMA EndedInv ==
  ASSUME Inv, NEW h, Ended(h), receipt' = receipt
  PROVE  Inv'
<1>1. /\ Types'
      /\ \A g \in Host : (phase'[g] = phase[g] /\ (g \in exposed => g \in exposed')) \/ phase'[g] = "absent"
  BY DEF Ended, Inv, Types, Phase
<1> QED BY <1>1, Quieter

\* A command spawns a host, or gives one up; it writes no receipt.
LEMMA WorkInv ==
  ASSUME Inv, NEW p \in Proc, Work(p)
  PROVE  Inv'
<1>1. CASE LaunchHost(p)
  <2>1. /\ Types' /\ UNCHANGED <<receipt, exposed>>
        /\ \A h \in Host : phase'[h] = phase[h] \/ phase'[h] = "spawned"
    BY <1>1 DEF LaunchHost, Inv, Types, Phase
  <2> QED BY <2>1, Quieter
<1>2. CASE AwaitHost(p)
  <2>1. CASE UNCHANGED <<phase, exposed>>
    BY <1>2, <2>1, UnchangedInv DEF AwaitHost
  <2>2. CASE Ended(job[p].mine)
    BY <1>2, <2>2, EndedInv DEF AwaitHost
  <2> QED BY <1>2, <2>1, <2>2 DEF AwaitHost
<1>3. CASE ~LaunchHost(p) /\ ~AwaitHost(p)
  <2>1. CASE Remember(p) \/ Unstop(p) \/ Flag(p) \/ Restore(p) \/ Resume(p) \/ Ask(p) \/ Finally(p) \/ Recheck(p)
    BY <2>1, UnchangedInv DEF Remember, Unstop, Flag, Restore, Resume, Ask, Finally, Recheck, hosts
  <2>2. CASE OpenApi(p) \/ Look(p) \/ Write(p) \/ Again(p) \/ Health(p) \/ StartDb(p) \/ CheckRuntime(p)
    BY <2>2, UnchangedInv DEF OpenApi, Look, Write, Again, Health, StartDb, CheckRuntime, hosts
  <2>3. CASE LaunchApi(p) \/ AwaitApi(p) \/ LaunchUi(p) \/ AwaitUi(p)
    BY <2>3, UnchangedInv DEF LaunchApi, AwaitApi, LaunchUi, AwaitUi, hosts
  <2>4. CASE StopRelays(p) \/ AskHost(p) \/ HostGone(p) \/ HostLate(p) \/ StopUi(p) \/ StopApi(p) \/ StopDb(p)
    BY <2>4, UnchangedInv DEF StopRelays, AskHost, HostGone, HostLate, StopUi, StopApi, StopDb, hosts
  <2> QED BY <1>3, <2>1, <2>2, <2>3, <2>4 DEF Work
<1> QED BY <1>1, <1>2, <1>3

\* A host takes the port if it is free; it only removes a receipt while whoever serves is
\* exposed.
LEMMA HostInv ==
  ASSUME Inv, NEW h \in Host, HostStep(h)
  PROVE  Inv'
<1>1. CASE Bind(h)
  <2>1. CASE PortTaken
    BY <1>1, <2>1, EndedInv DEF Bind
  <2>2. CASE ~PortTaken
    BY <1>1, <2>2 DEF Bind, PortTaken, Inv, Types, Phase, OnePort, Listening, Overlap, HostReachable
  <2> QED BY <2>1, <2>2
<1>2. CASE Serve(h)
  <2>1. /\ phase[h] = "bound" /\ phase' = [phase EXCEPT ![h] = "serving"] /\ receipt' = h
        /\ exposed \subseteq exposed' /\ \A g \in Host : phase[g] = "removing" => h \in exposed'
    BY <1>2 DEF Serve
  <2>2. \A g \in Host : phase'[g] = "serving" => g = h
    BY <2>1 DEF Inv, Types, OnePort, Listening
  <2> QED BY <2>1, <2>2 DEF Inv, Types, Phase, OnePort, Listening, Overlap, HostReachable
<1>3. CASE Shut(h)
  <2>1. /\ Types' /\ receipt' = receipt /\ exposed' = exposed \ {h} /\ phase' = [phase EXCEPT ![h] = "closing"]
    BY <1>3 DEF Shut, Inv, Types, Phase
  <2>2. \A g \in Host : \/ phase'[g] = phase[g] /\ (g \in exposed => g \in exposed')
                        \/ phase'[g] = "closing"
    BY <2>1 DEF Inv, Types
  <2> QED BY <2>1, <2>2, Quieter
<1>4. CASE Closed(h)
  <2>1. CASE Ended(h)
    BY <1>4, <2>1, EndedInv DEF Closed
  <2>2. CASE receipt = h /\ phase' = [phase EXCEPT ![h] = "removing"] /\ UNCHANGED exposed
    BY <1>4, <2>2 DEF Closed, Inv, Types, Phase, OnePort, Listening, Overlap, HostReachable
  <2> QED BY <1>4, <2>1, <2>2 DEF Closed
<1>5. CASE Unlink(h)
  <2>1. CASE receipt' = receipt
    BY <1>5, <2>1, EndedInv DEF Unlink
  <2>2. CASE receipt' = None
    <3>1. phase[h] = "removing" /\ phase' = [phase EXCEPT ![h] = "absent"] /\ exposed' = exposed \ {h}
      BY <1>5 DEF Unlink, Ended
    <3>2. \A g \in Host : phase'[g] = "serving" => g \in exposed'
      BY <3>1 DEF Inv, Types, Overlap
    <3> QED BY <2>2, <3>1, <3>2 DEF Inv, Types, Phase, OnePort, Listening, Overlap, HostReachable
  <2> QED BY <1>5, <2>1, <2>2 DEF Unlink
<1> QED BY <1>1, <1>2, <1>3, <1>4, <1>5 DEF HostStep

LEMMA InvStep == Inv /\ [Next]_vars => Inv'
<1> SUFFICES ASSUME Inv, [Next]_vars PROVE Inv'
  OBVIOUS
<1>1. CASE \E p \in Proc : Work(p)
  BY <1>1, WorkInv
<1>2. CASE \E h \in Host : HostStep(h)
  BY <1>2, HostInv
<1>3. CASE \E p \in Proc : (\E c \in Asked : Begin(p, c)) \/ Kill(p)
  BY <1>3, UnchangedInv DEF Begin, Kill, hosts
<1>4. CASE ApiUp \/ UiUp
  BY <1>4, UnchangedInv DEF ApiUp, UiUp, hosts
<1>5. CASE Dies \/ Reboot
  <2>1. CASE UNCHANGED <<phase, exposed>>
    BY <1>5, <2>1, UnchangedInv DEF Dies, Reboot
  <2>2. CASE \E h \in Host : Ended(h)
    BY <1>5, <2>2, EndedInv DEF Dies, Reboot
  <2>3. CASE phase' = [h \in Host |-> "absent"]
    BY <1>5, <2>3, Quieter DEF Dies, Reboot, Types, Phase
  <2> QED BY <1>5, <2>1, <2>2, <2>3 DEF Dies, Reboot
<1>6. CASE UNCHANGED vars
  BY <1>6, UnchangedInv DEF vars, hosts
<1> QED BY <1>1, <1>2, <1>3, <1>4, <1>5, <1>6 DEF Next

\* However many commands run at once, and whatever dies, a connector host that serves is the
\* one its receipt names, unless it wrote it while another was between its look at the receipt
\* and the removal.
THEOREM HostReachableHolds == Spec => []HostReachable
<1>1. Inv => HostReachable
  BY DEF Inv
<1> QED BY InitInv, InvStep, <1>1, PTL DEF Spec

-----------------------------------------------------------------------------
(* What is left of a plan.  The invariants speak of the steps a command has still to take; what  *)
(* they need of them is that some steps are there, and come before others.  Each of the shapes   *)
(* below keeps what it says when the first step is taken off.                                     *)

\* The steps that are left.
Left(seq) == {seq[i] : i \in 1..Len(seq)}

\* All of them are in S; after a step of S there is a t; after a step of S there is none of T;
\* a t follows at once on every s, and on nothing else.
Only(seq, S) == \A i \in 1..Len(seq) : seq[i] \in S
Leads(seq, S, t) == \A i \in 1..Len(seq) : seq[i] \in S => \E j \in i + 1..Len(seq) : seq[j] = t
Bars(seq, S, T) == \A i, j \in 1..Len(seq) : i < j /\ seq[i] \in S => seq[j] \notin T
Follows(seq, s, t) ==
  /\ \A i \in 1..Len(seq) : seq[i] = s => i < Len(seq) /\ seq[i + 1] = t
  /\ \A i \in 2..Len(seq) : seq[i] = t => seq[i - 1] = s

\* Steps nothing comes before, steps nothing comes after, what starts, and what stops services.
Opening == {"ask", "health", "share", "remember"}
Closing == {"finally", "recheck", "again", "restore"}
Early == {"db", "runtime", "api", "api-up", "ui", "ui-up", "host", "host-up"}
Outer == {"host-off", "ui-off", "api-off"}
Off == Outer \cup {"db-off"}
Fall == Off \cup {"relays", "host-wait"}

\* What holds of every plan.
Ordered(seq) == /\ seq \in Seq(Step)
                /\ Follows(seq, "api", "api-up") /\ Follows(seq, "ui", "ui-up")
                /\ Follows(seq, "host", "host-up") /\ Follows(seq, "host-off", "host-wait")
                /\ Bars(seq, Step, Opening) /\ Bars(seq, Closing, Step)

\* What is left of a stop; of a start; of a start that has failed and cleans up; of a login
\* task; of a share; of an unshare.
Stops(seq) == Only(seq, {"flag"} \cup Fall) /\ \A s \in Off : Leads(seq, {"flag"}, s)
Starts(seq) == Only(seq, {"remember", "unstop", "resume"} \cup Early)
Restores(seq) == /\ Only(seq, {"flag", "restore"} \cup Fall)
                 /\ Leads(seq, {"flag"} \cup Fall, "restore") /\ \A s \in Off : Leads(seq, {"flag"}, s)
Logs(seq) == /\ Only(seq, {"ask", "finally", "recheck", "resume"} \cup Early \cup Fall)
             /\ Leads(seq, {"ask"} \cup Early, "finally") /\ Bars(seq, {"ask"}, Off)
Shares(seq) == /\ Only(seq, {"share", "resume", "unstop", "relays", "write", "host-wait"} \cup Early \cup Outer)
               /\ Bars(seq, {"write"} \cup Early, {"write"} \cup Outer)
               /\ "share" \in Left(seq) => seq = Share
Unshares(seq) == /\ Only(seq, {"relays", "look", "write", "again", "host-wait"} \cup Early \cup Outer)
                 /\ Bars(seq, {"write"} \cup Early, {"write"} \cup Outer)
                 /\ \A s \in Outer : Leads(seq, {"look"}, s)

\* What is left of command c.
Shape(c, seq) ==
  /\ Ordered(seq)
  /\ c = "none" => seq = <<>>
  /\ c = "stop" => Stops(seq)
  /\ c = "start" => Starts(seq) \/ Restores(seq)
  /\ c = "login" => Logs(seq)
  /\ c = "share" => Shares(seq)
  /\ c = "unshare" => Unshares(seq)
  /\ c = "connectors" => Only(seq, {"health", "host", "host-up"})

\* The first step of a sequence, and the rest.
LEMMA Tailed ==
  ASSUME NEW seq \in Seq(Step), seq # <<>>
  PROVE  /\ Len(seq) \in Nat \ {0} /\ Tail(seq) \in Seq(Step) /\ Len(Tail(seq)) = Len(seq) - 1
         /\ \A i \in 1..Len(Tail(seq)) : Tail(seq)[i] = seq[i + 1]
         /\ Head(seq) = seq[1] /\ Head(seq) \in Step
OBVIOUS

LEMMA TailLeft ==
  ASSUME NEW seq \in Seq(Step), seq # <<>>
  PROVE  Left(seq) = Left(Tail(seq)) \cup {Head(seq)}
<1> DEFINE t == Tail(seq)
<1>1. /\ Len(seq) \in Nat \ {0} /\ t \in Seq(Step) /\ Len(t) = Len(seq) - 1
      /\ \A i \in 1..Len(t) : t[i] = seq[i + 1]
      /\ Head(seq) = seq[1]
  BY Tailed
<1> HIDE DEF t
<1>2. ASSUME NEW i \in 1..Len(seq) PROVE seq[i] \in Left(t) \cup {Head(seq)}
  <2>1. CASE i = 1
    BY <1>1, <2>1
  <2>2. CASE i # 1
    <3>1. i - 1 \in 1..Len(t) /\ t[i - 1] = seq[i]
      BY <1>1, <2>2
    <3> QED BY <3>1 DEF Left
  <2> QED BY <2>1, <2>2
<1>3. ASSUME NEW i \in 1..Len(t) PROVE t[i] \in Left(seq)
  <2>1. i + 1 \in 1..Len(seq) /\ t[i] = seq[i + 1]
    BY <1>1
  <2> QED BY <2>1 DEF Left
<1>4. Head(seq) \in Left(seq)
  BY <1>1 DEF Left
<1>5. Left(seq) = Left(t) \cup {Head(seq)}
  BY <1>2, <1>3, <1>4 DEF Left
<1> QED BY <1>5 DEF t

\* What the shapes are made of is kept by the rest of a sequence.
LEMMA Suffix ==
  ASSUME NEW seq \in Seq(Step), seq # <<>>, NEW S, NEW T, NEW s
  PROVE  /\ Only(seq, S) => Only(Tail(seq), S)
         /\ Leads(seq, S, s) => Leads(Tail(seq), S, s)
         /\ Bars(seq, S, T) => Bars(Tail(seq), S, T)
<1> DEFINE t == Tail(seq)
<1>1. /\ Len(seq) \in Nat \ {0} /\ t \in Seq(Step) /\ Len(t) = Len(seq) - 1
      /\ \A i \in 1..Len(t) : t[i] = seq[i + 1]
  BY Tailed
<1> HIDE DEF t
<1>2. Only(seq, S) => Only(t, S)
  BY <1>1 DEF Only
<1>3. Bars(seq, S, T) => Bars(t, S, T)
  BY <1>1 DEF Bars
<1>4. ASSUME Leads(seq, S, s), NEW i \in 1..Len(t), t[i] \in S
      PROVE  \E j \in i + 1..Len(t) : t[j] = s
  <2>1. PICK j \in i + 2..Len(seq) : seq[j] = s
    BY <1>1, <1>4 DEF Leads
  <2>2. j - 1 \in i + 1..Len(t) /\ t[j - 1] = s
    BY <1>1, <2>1
  <2> QED BY <2>2
<1>5. Leads(seq, S, s) => Leads(t, S, s)
  BY <1>4 DEF Leads
<1> QED BY <1>2, <1>3, <1>5 DEF t

LEMMA SuffixFollows ==
  ASSUME NEW seq \in Seq(Step), seq # <<>>, NEW s, NEW u, Follows(seq, s, u)
  PROVE  Follows(Tail(seq), s, u)
<1> DEFINE t == Tail(seq)
<1>1. /\ Len(seq) \in Nat \ {0} /\ t \in Seq(Step) /\ Len(t) = Len(seq) - 1
      /\ \A i \in 1..Len(t) : t[i] = seq[i + 1]
  BY Tailed
<1> HIDE DEF t
<1>2. ASSUME NEW i \in 1..Len(t), t[i] = s PROVE i < Len(t) /\ t[i + 1] = u
  <2>1. i + 1 \in 1..Len(seq) /\ seq[i + 1] = s
    BY <1>1, <1>2
  <2>2. i + 1 < Len(seq) /\ seq[(i + 1) + 1] = u
    BY <2>1 DEF Follows
  <2>3. i + 1 \in 1..Len(t)
    BY <1>1, <2>2
  <2> QED BY <1>1, <2>2, <2>3
<1>3. ASSUME NEW i \in 2..Len(t), t[i] = u PROVE t[i - 1] = s
  <2>1. i + 1 \in 2..Len(seq) /\ seq[i + 1] = u /\ i \in 1..Len(t) /\ i - 1 \in 1..Len(t)
    BY <1>1, <1>3
  <2>2. seq[(i + 1) - 1] = s
    BY <2>1 DEF Follows
  <2>3. t[i - 1] = seq[(i - 1) + 1] /\ (i - 1) + 1 = i /\ (i + 1) - 1 = i
    BY <1>1, <2>1
  <2> QED BY <2>2, <2>3
<1>4. Follows(t, s, u)
  BY <1>2, <1>3 DEF Follows
<1> QED BY <1>4 DEF t

\* A command that takes a step is left with the shape it had.
LEMMA ShapeTail ==
  ASSUME NEW c, NEW seq, Shape(c, seq), seq # <<>>
  PROVE  Shape(c, Tail(seq))
<1>1. seq \in Seq(Step) /\ Tail(seq) \in Seq(Step)
  BY DEF Shape, Ordered
<1>2. Ordered(Tail(seq))
  BY <1>1, Suffix, SuffixFollows DEF Shape, Ordered
<1>3. c = "stop" => Stops(Tail(seq))
  BY <1>1, Suffix DEF Shape, Stops
<1>4. Starts(seq) => Starts(Tail(seq))
  BY <1>1, Suffix DEF Starts
<1>5. Restores(seq) => Restores(Tail(seq))
  BY <1>1, Suffix DEF Restores
<1>6. c = "login" => Logs(Tail(seq))
  BY <1>1, Suffix DEF Shape, Logs
<1>7. "share" \notin Left(Tail(seq))
  <2>1. ASSUME NEW i \in 1..Len(Tail(seq)) PROVE Tail(seq)[i] # "share"
    <3>1. /\ 1 \in 1..Len(seq) /\ i + 1 \in 1..Len(seq) /\ 1 < i + 1 /\ Tail(seq)[i] = seq[i + 1]
          /\ seq[1] \in Step
      BY <1>1, Tailed
    <3> QED BY <3>1 DEF Shape, Ordered, Bars, Opening
  <2> QED BY <2>1 DEF Left
<1>8. c = "share" => Shares(Tail(seq))
  BY <1>1, <1>7, Suffix DEF Shape, Shares
<1>9. c = "unshare" => Unshares(Tail(seq))
  BY <1>1, Suffix DEF Shape, Unshares
<1>10. c = "connectors" => Only(Tail(seq), {"health", "host", "host-up"})
  BY <1>1, Suffix DEF Shape
<1> QED BY <1>2, <1>3, <1>4, <1>5, <1>6, <1>8, <1>9, <1>10 DEF Shape

-----------------------------------------------------------------------------
\* c is a followed by b, compared step by step: the provers do not concatenate tuples.
Joins(a, b, c) ==
  /\ a \in Seq(Step) /\ b \in Seq(Step) /\ c \in Seq(Step) /\ Len(c) = Len(a) + Len(b)
  /\ \A i \in 1..Len(a) : c[i] = a[i]
  /\ \A i \in 1..Len(b) : c[i + Len(a)] = b[i]

LEMMA Joined ==
  ASSUME NEW a, NEW b, NEW c, Joins(a, b, c)
  PROVE  a \o b = c
<1>0. a \in Seq(Step) /\ b \in Seq(Step) /\ c \in Seq(Step) /\ Len(c) = Len(a) + Len(b)
  BY DEF Joins
<1>1. /\ a \o b \in Seq(Step) /\ Len(a \o b) = Len(a) + Len(b)
      /\ \A i \in 1 .. Len(a) + Len(b) : (a \o b)[i] = IF i <= Len(a) THEN a[i] ELSE b[i - Len(a)]
  BY <1>0, ConcatProperties
<1>2. ASSUME NEW i \in 1..Len(c) PROVE (a \o b)[i] = c[i]
  <2>1. CASE i <= Len(a)
    BY <1>0, <1>1, <2>1 DEF Joins
  <2>2. CASE i > Len(a)
    <3>1. i - Len(a) \in 1..Len(b) /\ i = (i - Len(a)) + Len(a)
      BY <1>0, <2>2
    <3> QED BY <1>0, <1>1, <2>2, <3>1 DEF Joins
  <2> QED BY <1>0, <2>1, <2>2
<1> QED BY <1>0, <1>1, <1>2, SeqEqual

\* The steps, one by one.
Word == {"remember", "unstop", "resume", "flag", "restore", "ask", "finally", "recheck", "relays",
         "share", "look", "write", "again", "db-off", "health"} \cup Early \cup Fall

LEMMA StepIsWord == Step = Word
<1>1. DOMAIN Up = 1..8 /\ DOMAIN Profile = 1..4
  BY DEF Up, Profile
<1>2. {Up[i] : i \in DOMAIN Up} = Early
  BY <1>1 DEF Up, Early
<1>3. {Profile[i] : i \in DOMAIN Profile} = {"host-off", "host-wait", "ui-off", "api-off"}
  BY <1>1 DEF Profile
<1> QED BY <1>2, <1>3 DEF Step, Word, Fall, Off, Outer

\* The plans, and the parts they are joined of, step by step.
StartUp == <<"remember", "db", "runtime", "api", "api-up", "ui", "ui-up", "host", "host-up">>
StartSteps == <<"remember", "db", "runtime", "api", "api-up", "ui", "ui-up", "host", "host-up", "unstop",
                "resume">>
AfterHealth == <<"remember", "db", "runtime", "api", "api-up", "ui", "ui-up", "host", "host-up", "unstop",
                 "resume", "host", "host-up">>
DownProfile == <<"relays", "host-off", "host-wait", "ui-off", "api-off">>
DownSteps == <<"relays", "host-off", "host-wait", "ui-off", "api-off", "db-off">>
DownAgain == <<"relays", "host-off", "host-wait", "ui-off", "api-off", "db-off", "recheck">>
StopSteps == <<"flag", "relays", "host-off", "host-wait", "ui-off", "api-off", "db-off">>
CleanUp == <<"flag", "relays", "host-off", "host-wait", "ui-off", "api-off", "db-off", "restore">>
LoginUp == <<"ask", "db", "runtime", "api", "api-up", "ui", "ui-up", "host", "host-up">>
LoginSteps == <<"ask", "db", "runtime", "api", "api-up", "ui", "ui-up", "host", "host-up", "finally">>
ShareUp == <<"share", "db", "runtime", "api", "api-up", "ui", "ui-up", "host", "host-up">>
ShareSteps == <<"share", "db", "runtime", "api", "api-up", "ui", "ui-up", "host", "host-up", "resume",
                "unstop">>
Shared == <<"db", "runtime", "api", "api-up", "ui", "ui-up", "host", "host-up", "resume", "unstop">>
OpenDown == <<"relays", "host-off", "host-wait", "ui-off", "api-off", "write">>
OpenSteps == <<"relays", "host-off", "host-wait", "ui-off", "api-off", "write", "db", "runtime", "api",
               "api-up", "ui", "ui-up", "host", "host-up", "resume", "unstop">>
LookDown == <<"relays", "look", "host-off", "host-wait", "ui-off", "api-off">>
UnshareSteps == <<"relays", "look", "host-off", "host-wait", "ui-off", "api-off", "write", "again">>

\* The plans of the commands, and those they change to, are these.
LEMMA Plans ==
  /\ Start = StartSteps /\ Stop = StopSteps /\ Down = DownSteps /\ Share = ShareSteps /\ Unshare = UnshareSteps
  /\ Start \o <<"host", "host-up">> = AfterHealth /\ Stop \o <<"restore">> = CleanUp
  /\ <<"ask">> \o Up \o <<"finally">> = LoginSteps
  /\ Down \o <<"recheck">> = DownAgain /\ <<>> \o <<"recheck">> = <<"recheck">>
  /\ <<"relays">> \o Profile \o <<"write">> \o Tail(Share) = OpenSteps
<1> USE StepIsWord DEF Joins, Word, Fall, Off, Outer, Early
<1>1. Joins(<<"remember">>, Up, StartUp)
  BY DEF Up, StartUp
<1>2. Joins(StartUp, <<"unstop", "resume">>, StartSteps)
  BY DEF StartUp, StartSteps
<1>3. Joins(StartSteps, <<"host", "host-up">>, AfterHealth)
  BY DEF StartSteps, AfterHealth
<1>4. Joins(<<"relays">>, Profile, DownProfile)
  BY DEF Profile, DownProfile
<1>5. Joins(DownProfile, <<"db-off">>, DownSteps)
  BY DEF DownProfile, DownSteps
<1>6. Joins(DownSteps, <<"recheck">>, DownAgain)
  BY DEF DownSteps, DownAgain
<1>7. Joins(<<>>, <<"recheck">>, <<"recheck">>)
  OBVIOUS
<1>8. Joins(<<"flag">>, DownSteps, StopSteps)
  BY DEF DownSteps, StopSteps
<1>9. Joins(StopSteps, <<"restore">>, CleanUp)
  BY DEF StopSteps, CleanUp
<1>10. Joins(<<"ask">>, Up, LoginUp)
  BY DEF Up, LoginUp
<1>11. Joins(LoginUp, <<"finally">>, LoginSteps)
  BY DEF LoginUp, LoginSteps
<1>12. Joins(<<"share">>, Up, ShareUp)
  BY DEF Up, ShareUp
<1>13. Joins(ShareUp, <<"resume", "unstop">>, ShareSteps)
  BY DEF ShareUp, ShareSteps
<1>14. Joins(DownProfile, <<"write">>, OpenDown)
  BY DEF DownProfile, OpenDown
<1>15. Joins(OpenDown, Shared, OpenSteps)
  BY DEF OpenDown, Shared, OpenSteps
<1>16. Joins(<<"relays", "look">>, Profile, LookDown)
  BY DEF Profile, LookDown
<1>17. Joins(LookDown, <<"write", "again">>, UnshareSteps)
  BY DEF LookDown, UnshareSteps
<1>18. Tail(ShareSteps) = Shared
  BY DEF ShareSteps, Shared
<1> HIDE StepIsWord DEF Joins
<1>19. Start = StartSteps /\ Down = DownSteps /\ Share = ShareSteps /\ Unshare = UnshareSteps
  <2>1. Start = StartUp \o <<"unstop", "resume">>
    BY <1>1, Joined DEF Start
  <2>2. Down = DownProfile \o <<"db-off">>
    BY <1>4, Joined DEF Down
  <2>3. Share = ShareUp \o <<"resume", "unstop">>
    BY <1>12, Joined DEF Share
  <2>4. Unshare = LookDown \o <<"write", "again">>
    BY <1>16, Joined DEF Unshare
  <2>5. StartUp \o <<"unstop", "resume">> = StartSteps /\ DownProfile \o <<"db-off">> = DownSteps
    BY <1>2, <1>5, Joined
  <2>6. ShareUp \o <<"resume", "unstop">> = ShareSteps /\ LookDown \o <<"write", "again">> = UnshareSteps
    BY <1>13, <1>17, Joined
  <2> QED BY <2>1, <2>2, <2>3, <2>4, <2>5, <2>6
<1>20. Stop = StopSteps
  BY <1>8, <1>19, Joined DEF Stop
<1>21. <<"relays">> \o Profile \o <<"write">> \o Tail(Share) = OpenSteps
  <2>1. <<"relays">> \o Profile = DownProfile
    BY <1>4, Joined
  <2>2. DownProfile \o <<"write">> = OpenDown
    BY <1>14, Joined
  <2>3. OpenDown \o Shared = OpenSteps
    BY <1>15, Joined
  <2> QED BY <1>18, <1>19, <2>1, <2>2, <2>3
<1>22. /\ Start \o <<"host", "host-up">> = AfterHealth /\ Stop \o <<"restore">> = CleanUp
            /\ Down \o <<"recheck">> = DownAgain
       /\ <<"ask">> \o Up \o <<"finally">> = LoginSteps /\ <<>> \o <<"recheck">> = <<"recheck">>
  BY <1>3, <1>6, <1>7, <1>9, <1>10, <1>11, <1>19, <1>20, Joined
<1> QED BY <1>19, <1>20, <1>21, <1>22

\* Every plan has the shape of its command, and so has what is left of it.
LEMMA Shapes ==
  /\ Shape("start", StartSteps) /\ Shape("start", AfterHealth) /\ Shape("start", CleanUp)
  /\ Shape("stop", StopSteps)
  /\ Shape("login", LoginSteps) /\ Shape("login", <<"finally">>) /\ Shape("login", DownAgain)
  /\ Shape("login", <<"recheck">>) /\ Shape("login", <<"resume">>)
  /\ Shape("share", ShareSteps) /\ Shape("share", OpenSteps)
  /\ Shape("unshare", UnshareSteps) /\ Shape("unshare", Up)
  /\ Shape("connectors", <<"health", "host", "host-up">>)
  /\ \A c : Shape(c, <<>>)
<1> USE StepIsWord DEF Word, Fall, Off, Outer, Early, Opening, Closing
<1>1. Ordered(StartSteps) /\ Ordered(AfterHealth) /\ Ordered(CleanUp)
  BY DEF StartSteps, AfterHealth, CleanUp, Ordered, Follows, Bars
<1>2. Ordered(StopSteps) /\ Ordered(LoginSteps) /\ Ordered(<<"finally">>) /\ Ordered(DownAgain)
  BY DEF StopSteps, LoginSteps, DownAgain, Ordered, Follows, Bars
<1>3. Ordered(<<"recheck">>) /\ Ordered(<<"resume">>) /\ Ordered(<<"health", "host", "host-up">>)
        /\ Ordered(<<>>)
  BY DEF Ordered, Follows, Bars
<1>4. Ordered(ShareSteps) /\ Ordered(OpenSteps) /\ Ordered(UnshareSteps) /\ Ordered(Up)
  BY DEF ShareSteps, OpenSteps, UnshareSteps, Up, Ordered, Follows, Bars
<1>5. Starts(StartSteps) /\ Starts(AfterHealth)
  BY DEF Starts, Only, StartSteps, AfterHealth
<1>6. Restores(CleanUp)
  BY DEF Restores, Only, Leads, CleanUp
<1>7. Stops(StopSteps)
  BY DEF Stops, Only, Leads, StopSteps
<1>8. Logs(LoginSteps) /\ Logs(<<"finally">>) /\ Logs(DownAgain) /\ Logs(<<"recheck">>) /\ Logs(<<"resume">>)
  BY DEF Logs, Only, Leads, Bars, LoginSteps, DownAgain
<1>9. Shares(ShareSteps)
  BY Plans DEF Shares, Only, Bars, ShareSteps
<1>13. "share" \notin Left(OpenSteps)
  BY DEF Left, OpenSteps
<1>14. Shares(OpenSteps)
  BY <1>13 DEF Shares, Only, Bars, OpenSteps
<1>10. Unshares(UnshareSteps) /\ Unshares(Up)
  BY DEF Unshares, Only, Leads, Bars, UnshareSteps, Up
<1>11. Only(<<"health", "host", "host-up">>, {"health", "host", "host-up"})
  BY DEF Only
<1>12. \A c : Shape(c, <<>>)
  BY <1>3 DEF Shape, Only, Stops, Starts, Restores, Logs, Shares, Unshares, Leads, Bars, Left
<1> QED BY <1>1, <1>2, <1>3, <1>4, <1>5, <1>6, <1>7, <1>8, <1>9, <1>10, <1>11, <1>12, <1>14 DEF Shape


-----------------------------------------------------------------------------
Cmd == {"none", "start", "stop", "login", "share", "unshare", "connectors"}

\* What a process has still to do has the shape of its command.
Shaped == \A p \in Proc : Shape(job[p].cmd, todo[p])

\* The step a command is at tells which command it is.
LEMMA Whose ==
  ASSUME NEW c \in Cmd, NEW seq, Shape(c, seq), seq # <<>>
  PROVE  /\ Head(seq) \in {"ask", "finally", "recheck"} => c = "login"
         /\ Head(seq) = "share" => c = "share" /\ seq = Share
         /\ Head(seq) = "again" => c = "unshare"
         /\ Head(seq) = "health" => c = "connectors"
         /\ Head(seq) = "restore" => c = "start" /\ Restores(seq)
         /\ Head(seq) = "write" => c \in {"share", "unshare"}
         /\ Head(seq) \in {"look", "again"} => c = "unshare"
         /\ Head(seq) = "remember" => c = "start" /\ Starts(seq)
         /\ Head(seq) = "unstop" => c = "share" \/ (c = "start" /\ Starts(seq))
         /\ Head(seq) = "resume" => c \in {"share", "login"} \/ (c = "start" /\ Starts(seq))
         /\ Head(seq) = "flag" => c = "stop" \/ (c = "start" /\ Restores(seq))
<1>1. seq \in Seq(Step) /\ c # "none"
  BY DEF Shape, Ordered
<1>2. Head(seq) = seq[1] /\ 1 \in 1..Len(seq)
  BY <1>1, Tailed
<1>3. Head(seq) \in Left(seq)
  BY <1>2 DEF Left
<1> USE DEF Fall, Off, Outer, Early
<1>4. c = "stop" => Head(seq) \in {"flag"} \cup Fall
  BY <1>2 DEF Shape, Stops, Only
<1>5. c = "start" => \/ Starts(seq) /\ Head(seq) \in {"remember", "unstop", "resume"} \cup Early
                     \/ Restores(seq) /\ Head(seq) \in {"flag", "restore"} \cup Fall
  BY <1>2 DEF Shape, Starts, Restores, Only
<1>6. c = "login" => Head(seq) \in {"ask", "finally", "recheck", "resume"} \cup Early \cup Fall
  BY <1>2 DEF Shape, Logs, Only
<1>7. c = "share" => Head(seq) \in {"share", "resume", "unstop", "relays", "write", "host-wait"}
        \cup Early \cup Outer
  BY <1>2 DEF Shape, Shares, Only
<1>8. c = "unshare" => Head(seq) \in {"relays", "look", "write", "again", "host-wait"} \cup Early \cup Outer
  BY <1>2 DEF Shape, Unshares, Only
<1>9. c = "connectors" => Head(seq) \in {"health", "host", "host-up"}
  BY <1>2 DEF Shape, Only
<1>10. c = "share" /\ Head(seq) = "share" => seq = Share
  BY <1>3 DEF Shape, Shares
<1> QED BY <1>1, <1>4, <1>5, <1>6, <1>7, <1>8, <1>9, <1>10 DEF Cmd

\* Whatever is launched is waited for next, and nothing is waited for that was not launched.
LEMMA Pairs ==
  ASSUME NEW c, NEW seq, Shape(c, seq), seq # <<>>
  PROVE  /\ Head(seq) = "api" <=> Tail(seq) # <<>> /\ Head(Tail(seq)) = "api-up"
         /\ Head(seq) = "ui" <=> Tail(seq) # <<>> /\ Head(Tail(seq)) = "ui-up"
         /\ Head(seq) = "host" <=> Tail(seq) # <<>> /\ Head(Tail(seq)) = "host-up"
         /\ Head(seq) = "host-off" <=> Tail(seq) # <<>> /\ Head(Tail(seq)) = "host-wait"
<1>1. /\ seq \in Seq(Step) /\ Follows(seq, "api", "api-up") /\ Follows(seq, "ui", "ui-up")
      /\ Follows(seq, "host", "host-up") /\ Follows(seq, "host-off", "host-wait")
  BY DEF Shape, Ordered
<1>2. /\ Len(seq) \in Nat \ {0} /\ Tail(seq) \in Seq(Step) /\ Len(Tail(seq)) = Len(seq) - 1
           /\ Head(seq) = seq[1]
      /\ \A i \in 1..Len(Tail(seq)) : Tail(seq)[i] = seq[i + 1]
  BY <1>1, Tailed
<1>3. Tail(seq) # <<>> => Len(Tail(seq)) >= 1 /\ Head(Tail(seq)) = seq[2]
  BY <1>2
<1>4. Len(seq) > 1 => Tail(seq) # <<>>
  <2>1. Len(seq) > 1 => Len(Tail(seq)) # 0
    <3> DEFINE n == Len(seq)
    <3>1. n \in Nat /\ Len(Tail(seq)) = n - 1
      BY <1>2
    <3> HIDE DEF n
    <3>2. n > 1 => n - 1 # 0
      BY <3>1
    <3> QED BY <3>1, <3>2 DEF n
  <2>2. ASSUME NEW t, t = <<>> PROVE Len(t) = 0
    BY <2>2
  <2> QED BY <2>1, <2>2
<1>5. ASSUME NEW s, NEW t, Follows(seq, s, t) PROVE Head(seq) = s <=> Tail(seq) # <<>> /\ Head(Tail(seq)) = t
  <2>1. Head(seq) = s => Len(seq) > 1 /\ seq[2] = t
    BY <1>2, <1>5 DEF Follows
  <2>2. Len(seq) > 1 /\ seq[2] = t => Head(seq) = s
    BY <1>2, <1>5 DEF Follows
  <2> QED BY <1>2, <1>3, <1>4, <2>1, <2>2
<1> QED BY <1>1, <1>5

\* A process keeps its command; it gives up while it starts something.
Same(p) == job'[p].cmd = job[p].cmd
Raised(p) == Raise(p) /\ (\E s \in Early \cup {"resume"} : At(p, s))

\* The ways a command goes on: to the next step, past one, to the end, or to another plan.
Moves(p) ==
  \/ Next1(p) /\ Same(p)
  \/ Skip2(p) /\ Same(p) /\ (At(p, "host") \/ At(p, "host-off"))
  \/ Raised(p)
  \/ Turn(p, <<>>) /\ Same(p)
  \/ At(p, "finally") /\ Same(p) /\ (Turn(p, DownAgain) \/ Turn(p, <<"recheck">>))
  \/ At(p, "recheck") /\ Same(p) /\ Turn(p, <<"resume">>)
  \/ At(p, "share") /\ Same(p) /\ Turn(p, OpenSteps)
  \/ At(p, "again") /\ Same(p) /\ Turn(p, Up)
  \/ At(p, "health") /\ job'[p].cmd = "start" /\ Turn(p, AfterHealth)

LEMMA JobCmd == TypeOK => \A p \in Proc : job[p].cmd \in Cmd
BY ServicesAssumption DEF TypeOK, Cmd

\* Every step of a process is one of them, and leaves the other processes alone.
LEMMA WorkMoves ==
  ASSUME TypeOK, Shaped, NEW p \in Proc, Work(p)
  PROVE  /\ Busy(p) /\ Moves(p)
         /\ \A q \in Proc : q # p => todo'[q] = todo[q] /\ job'[q] = job[q]
<1> USE DEF Next1, Skip2, Turn, Plain, Fails, Keep, Raise, Raised, At, Same, Moves, Early
<1> DEFINE Rest == \A q \in Proc : q # p => todo'[q] = todo[q] /\ job'[q] = job[q]
<1>1. CASE Remember(p) \/ Unstop(p) \/ Flag(p) \/ Restore(p) \/ Look(p)
  BY <1>1 DEF TypeOK, Remember, Unstop, Flag, Restore, Look
<1>2. CASE Resume(p) \/ CheckRuntime(p) \/ StartDb(p)
  BY <1>2 DEF TypeOK, Resume, CheckRuntime, StartDb
<1>3. CASE Ask(p) \/ Write(p)
  BY <1>3 DEF TypeOK, Ask, Write
<1>4. CASE Finally(p)
  <2>1. Turn(p, IF stopped THEN DownAgain ELSE <<"recheck">>)
    BY <1>4, Plans DEF Finally
  <2> QED BY <1>4, <2>1 DEF TypeOK, Finally
<1>5. CASE Recheck(p) \/ Again(p)
  BY <1>5 DEF TypeOK, Recheck, Again
<1>6. CASE OpenApi(p)
  <2>1. todo[p] = Share
    BY <1>6, JobCmd, Whose DEF OpenApi, Shaped, Busy
  <2>2. Next1(p) \/ Turn(p, OpenSteps)
    BY <1>6, <2>1, Plans DEF OpenApi
  <2> QED BY <1>6, <2>2 DEF TypeOK, OpenApi
<1>7. CASE Health(p)
  <2>1. api.st # "on" => Turn(p, AfterHealth)
    BY <1>7, Plans DEF Health
  <2> QED BY <1>7, <2>1 DEF TypeOK, Health
<1>8. CASE LaunchApi(p) \/ AwaitApi(p)
  BY <1>8 DEF TypeOK, LaunchApi, AwaitApi
<1>9. CASE LaunchUi(p) \/ AwaitUi(p)
  BY <1>9 DEF TypeOK, LaunchUi, AwaitUi
<1>10. CASE LaunchHost(p) \/ AwaitHost(p)
  BY <1>10 DEF TypeOK, LaunchHost, AwaitHost
<1>11. CASE StopRelays(p) \/ AskHost(p) \/ HostGone(p) \/ HostLate(p)
  BY <1>11 DEF TypeOK, StopRelays, AskHost, HostGone, HostLate
<1>12. CASE StopUi(p) \/ StopApi(p) \/ StopDb(p)
  BY <1>12 DEF TypeOK, StopUi, StopApi, StopDb
<1> QED BY <1>1, <1>2, <1>3, <1>4, <1>5, <1>6, <1>7, <1>8, <1>9, <1>10, <1>11, <1>12 DEF Work

\* Each of them leaves the process with a shape of its command.
LEMMA MovesShape ==
  ASSUME TypeOK, Shaped, NEW p \in Proc, Busy(p), Moves(p)
  PROVE  Shape(job'[p].cmd, todo'[p])
<1>1. todo[p] # <<>> /\ Shape(job[p].cmd, todo[p]) /\ job[p].cmd \in Cmd
  BY JobCmd DEF Shaped, Busy
<1>2. Shape(job[p].cmd, Tail(todo[p]))
  BY <1>1, ShapeTail
<1>3. CASE Next1(p) /\ Same(p)
  BY <1>2, <1>3 DEF Next1, Same, TypeOK
<1>4. CASE Skip2(p) /\ Same(p) /\ (At(p, "host") \/ At(p, "host-off"))
  <2>1. Tail(todo[p]) # <<>>
    BY <1>1, <1>4, Pairs DEF At
  <2>2. Shape(job[p].cmd, Tail(Tail(todo[p])))
    BY <1>2, <2>1, ShapeTail
  <2> QED BY <1>4, <2>2 DEF Skip2, Same, TypeOK
<1>5. CASE Raised(p)
  <2>1. todo'[p] = Handler(job[p]) /\ job'[p].cmd = job[p].cmd
    BY <1>5 DEF Raised, Raise, Turn, TypeOK
  <2> QED BY <2>1, Shapes, Plans DEF Handler
<1>6. CASE Turn(p, <<>>) /\ Same(p)
  BY <1>6, Shapes DEF Turn, TypeOK
<1>7. CASE \/ At(p, "finally") /\ Same(p) /\ (Turn(p, DownAgain) \/ Turn(p, <<"recheck">>))
           \/ At(p, "recheck") /\ Same(p) /\ Turn(p, <<"resume">>)
  <2>1. job[p].cmd = "login"
    BY <1>1, <1>7, Whose DEF At
  <2> QED BY <1>7, <2>1, Shapes DEF Turn, Same, TypeOK
<1>8. CASE \/ At(p, "share") /\ Same(p) /\ Turn(p, OpenSteps)
           \/ At(p, "again") /\ Same(p) /\ Turn(p, Up)
  <2>1. (At(p, "share") => job[p].cmd = "share") /\ (At(p, "again") => job[p].cmd = "unshare")
    BY <1>1, Whose DEF At
  <2> QED BY <1>8, <2>1, Shapes DEF Turn, Same, TypeOK
<1>9. CASE At(p, "health") /\ job'[p].cmd = "start" /\ Turn(p, AfterHealth)
  BY <1>9, Shapes DEF Turn, TypeOK
<1> QED BY <1>3, <1>4, <1>5, <1>6, <1>7, <1>8, <1>9 DEF Moves

-----------------------------------------------------------------------------
\* The shape and the types of the state are kept by every step.
LEMMA WorkShaped ==
  ASSUME TypeOK, Shaped, NEW p \in Proc, Work(p)
  PROVE  Shaped' /\ todo' \in [Proc -> Seq(Step)]
<1>1. /\ Busy(p) /\ Moves(p)
      /\ \A q \in Proc : q # p => todo'[q] = todo[q] /\ job'[q] = job[q]
  BY WorkMoves
<1>2. Shape(job'[p].cmd, todo'[p])
  BY <1>1, MovesShape
<1>3. Shaped'
  BY <1>1, <1>2 DEF Shaped
<1>4. \A q \in Proc : todo'[q] \in Seq(Step)
  BY <1>3 DEF Shaped, Shape, Ordered
<1>5. todo' = [q \in Proc |-> todo'[q]]
  BY <1>1 DEF Moves, Next1, Skip2, Turn, Raised, Raise, TypeOK
<1> QED BY <1>3, <1>4, <1>5

\* What a process remembers of its command.
Jobs == [cmd : Asked \cup {"none", "start"}, was : BOOLEAN, raised : BOOLEAN, errors : BOOLEAN,
         running : BOOLEAN, watch : Host \cup {None}, mine : Host \cup {None}]

LEMMA JobFields ==
  ASSUME NEW j \in Jobs
  PROVE  /\ \A b \in BOOLEAN : /\ [j EXCEPT !.was = b] \in Jobs /\ [j EXCEPT !.raised = b] \in Jobs
                              /\ [j EXCEPT !.errors = b] \in Jobs
                              /\ \A d \in BOOLEAN : [j EXCEPT !.errors = b, !.running = d] \in Jobs
         /\ \A h \in Host \cup {None} : /\ [j EXCEPT !.watch = h] \in Jobs /\ [j EXCEPT !.mine = h] \in Jobs
                                       /\ [j EXCEPT !.errors = TRUE, !.watch = h] \in Jobs
         /\ [j EXCEPT !.cmd = "start"] \in Jobs
BY DEF Jobs

LEMMA WorkTypes ==
  ASSUME TypeOK, Shaped, Types', NEW p \in Proc, Work(p)
  PROVE  TypeOK'
<1> USE DEF hosts, services, state
<1>10. /\ job \in [Proc -> Jobs] /\ job[p] \in Jobs /\ lock \in [{"api", "ui", "host"} -> Proc \cup {None}]
      /\ stopped \in BOOLEAN /\ shared \in BOOLEAN /\ key \in Nat /\ db \in BOOLEAN /\ api \in Server
           /\ ui \in Server
      /\ asked \subseteq Host /\ hostKey \in [Host -> Nat] /\ receipt \in Host \cup {None}
      /\ exposed \subseteq Host
      /\ history \in [undone : BOOLEAN, mixed : BOOLEAN]
      /\ runs \in 0..MaxRuns /\ faults \in 0..MaxFaults
  BY DEF TypeOK, Jobs
<1>1. job' = [q \in Proc |-> job'[q]] /\ job'[p] \in Jobs
  <2>1. CASE Remember(p) \/ Look(p)
    BY <1>10, <2>1, JobFields DEF Remember, Look, Plain, Fails, Keep, Raise
  <2>2. CASE Unstop(p) \/ Flag(p) \/ Restore(p)
    BY <1>10, <2>2, JobFields DEF Unstop, Flag, Restore, Plain, Fails, Keep, Raise
  <2>3. CASE Resume(p) \/ CheckRuntime(p)
    BY <1>10, <2>3, JobFields DEF Resume, CheckRuntime, Plain, Fails, Keep, Raise
  <2>4. CASE Ask(p) \/ Finally(p) \/ Recheck(p) \/ OpenApi(p) \/ Write(p) \/ Again(p)
    BY <1>10, <2>4, JobFields DEF Ask, Finally, Recheck, OpenApi, Write, Again, Plain, Fails, Keep, Raise
  <2>5. CASE Health(p)
    BY <1>10, <2>5, JobFields DEF Health, Plain, Fails, Keep, Raise
  <2>6. CASE LaunchApi(p) \/ AwaitApi(p) \/ StartDb(p)
    BY <1>10, <2>6, JobFields DEF LaunchApi, AwaitApi, StartDb, Plain, Fails, Keep, Raise, StopLauncher, Free
  <2>7. CASE LaunchUi(p) \/ AwaitUi(p)
    BY <1>10, <2>7, JobFields DEF LaunchUi, AwaitUi, Plain, Fails, Keep, Raise, Free
  <2>8. CASE LaunchHost(p)
    <3>1. job' = job \/ \E h \in Host \cup {None} : job' = [job EXCEPT ![p].mine = h]
      BY <2>8 DEF LaunchHost
    <3> QED BY <1>10, <3>1, JobFields
  <2>9. CASE AwaitHost(p)
    BY <1>10, <2>9, JobFields DEF AwaitHost, Plain, Fails, Keep, Raise, Free
  <2>10. CASE StopRelays(p) \/ AskHost(p)
    BY <1>10, <2>10, JobFields DEF StopRelays, AskHost, Plain, Fails, Keep, Raise, Answers
  <2>11. CASE HostGone(p) \/ HostLate(p)
    <3>1. CASE HostGone(p)
      BY <1>10, <3>1, JobFields DEF HostGone
    <3>2. CASE HostLate(p)
      <4>1. job' = [job EXCEPT ![p] = [job[p] EXCEPT !.errors = TRUE, !.watch = None]]
        BY <1>10, <3>2 DEF HostLate
      <4> QED BY <1>10, <4>1, JobFields
    <3> QED BY <2>11, <3>1, <3>2
  <2>12. CASE StopUi(p) \/ StopApi(p) \/ StopDb(p)
    BY <1>10, <2>12, JobFields DEF StopUi, StopApi, StopDb, Plain, Fails, Keep, Raise
  <2> QED BY <2>1, <2>2, <2>3, <2>4, <2>5, <2>6, <2>7, <2>8, <2>9, <2>10, <2>11, <2>12 DEF Work
<1>2. lock' \in [{"api", "ui", "host"} -> Proc \cup {None}]
  <2>1. CASE Remember(p) \/ Unstop(p) \/ Flag(p) \/ Restore(p) \/ Look(p) \/ Resume(p) \/ CheckRuntime(p)
    BY <1>10, <2>1 DEF Remember, Unstop, Flag, Restore, Look, Resume, CheckRuntime
  <2>2. CASE Ask(p) \/ Finally(p) \/ Recheck(p) \/ OpenApi(p) \/ Write(p) \/ Again(p) \/ Health(p)
    BY <1>10, <2>2 DEF Ask, Finally, Recheck, OpenApi, Write, Again, Health
  <2>3. CASE LaunchApi(p) \/ AwaitApi(p) \/ StartDb(p)
    BY <1>10, <2>3 DEF LaunchApi, AwaitApi, StartDb, StopLauncher, Free
  <2>4. CASE LaunchUi(p) \/ AwaitUi(p)
    BY <1>10, <2>4 DEF LaunchUi, AwaitUi, Free
  <2>5. CASE LaunchHost(p) \/ AwaitHost(p)
    BY <1>10, <2>5 DEF LaunchHost, AwaitHost, Free
  <2>6. CASE StopRelays(p) \/ AskHost(p) \/ HostGone(p) \/ HostLate(p)
    BY <1>10, <2>6 DEF StopRelays, AskHost, HostGone, HostLate, Answers
  <2>7. CASE StopUi(p) \/ StopApi(p) \/ StopDb(p)
    BY <1>10, <2>7 DEF StopUi, StopApi, StopDb
  <2> QED BY <2>1, <2>2, <2>3, <2>4, <2>5, <2>6, <2>7 DEF Work
<1>3. stopped' \in BOOLEAN /\ shared' \in BOOLEAN /\ key' \in Nat /\ db' \in BOOLEAN
  <2>1. CASE Remember(p) \/ Unstop(p) \/ Flag(p) \/ Restore(p) \/ Look(p) \/ Resume(p) \/ CheckRuntime(p)
    BY <1>10, <2>1 DEF Remember, Unstop, Flag, Restore, Look, Resume, CheckRuntime
  <2>2. CASE Ask(p) \/ Finally(p) \/ Recheck(p) \/ OpenApi(p) \/ Again(p) \/ Health(p)
    BY <1>10, <2>2 DEF Ask, Finally, Recheck, OpenApi, Again, Health
  <2>3. CASE Write(p)
    <3>1. stopped' = stopped /\ db' = db /\ (key' = key \/ key' = key + 1)
      BY <2>3 DEF Write
    <3>2. shared' = shared \/ shared' = (job[p].cmd = "share")
      BY <2>3 DEF Write
    <3>3. shared' \in BOOLEAN
      BY <1>10, <3>2
    <3> QED BY <1>10, <3>1, <3>3
  <2>4. CASE LaunchApi(p) \/ AwaitApi(p) \/ StartDb(p)
    BY <1>10, <2>4 DEF LaunchApi, AwaitApi, StartDb, StopLauncher, Free
  <2>5. CASE LaunchUi(p) \/ AwaitUi(p)
    BY <1>10, <2>5 DEF LaunchUi, AwaitUi, Free
  <2>6. CASE LaunchHost(p) \/ AwaitHost(p)
    BY <1>10, <2>6 DEF LaunchHost, AwaitHost, Free
  <2>7. CASE StopRelays(p) \/ AskHost(p) \/ HostGone(p) \/ HostLate(p)
    BY <1>10, <2>7 DEF StopRelays, AskHost, HostGone, HostLate, Answers
  <2>8. CASE StopUi(p) \/ StopApi(p) \/ StopDb(p)
    BY <1>10, <2>8 DEF StopUi, StopApi, StopDb
  <2> QED BY <2>1, <2>2, <2>3, <2>4, <2>5, <2>6, <2>7, <2>8 DEF Work
<1>4. api' \in Server /\ ui' \in Server
  <2>1. CASE Remember(p) \/ Unstop(p) \/ Flag(p) \/ Restore(p) \/ Look(p) \/ Resume(p) \/ CheckRuntime(p)
    BY <1>10, <2>1 DEF Remember, Unstop, Flag, Restore, Look, Resume, CheckRuntime, Server
  <2>2. CASE Ask(p) \/ Finally(p) \/ Recheck(p) \/ OpenApi(p) \/ Write(p) \/ Again(p) \/ Health(p)
    BY <1>10, <2>2 DEF Ask, Finally, Recheck, OpenApi, Write, Again, Health, Server
  <2>3. CASE LaunchApi(p)
    BY <1>10, <2>3 DEF LaunchApi, Server
  <2>4. CASE AwaitApi(p) \/ StartDb(p)
    BY <1>10, <2>4 DEF AwaitApi, StartDb, Server, StopLauncher, Free
  <2>5. CASE LaunchUi(p)
    BY <1>10, <2>5 DEF LaunchUi, Server
  <2>6. CASE AwaitUi(p)
    BY <1>10, <2>6 DEF AwaitUi, Server, Free
  <2>7. CASE LaunchHost(p) \/ AwaitHost(p)
    BY <1>10, <2>7 DEF LaunchHost, AwaitHost, Server, Free
  <2>8. CASE StopRelays(p) \/ AskHost(p) \/ HostGone(p) \/ HostLate(p)
    BY <1>10, <2>8 DEF StopRelays, AskHost, HostGone, HostLate, Server, Answers
  <2>9. CASE StopUi(p) \/ StopApi(p) \/ StopDb(p)
    BY <1>10, <2>9 DEF StopUi, StopApi, StopDb, Server
  <2> QED BY <2>1, <2>2, <2>3, <2>4, <2>5, <2>6, <2>7, <2>8, <2>9 DEF Work
<1>5. /\ asked' \subseteq Host /\ hostKey' \in [Host -> Nat] /\ receipt' \in Host \cup {None}
      /\ exposed' \subseteq Host
  <2>1. CASE Remember(p) \/ Unstop(p) \/ Flag(p) \/ Restore(p) \/ Look(p) \/ Resume(p) \/ CheckRuntime(p)
    BY <1>10, <2>1 DEF Remember, Unstop, Flag, Restore, Look, Resume, CheckRuntime
  <2>2. CASE Ask(p) \/ Finally(p) \/ Recheck(p) \/ OpenApi(p) \/ Write(p) \/ Again(p) \/ Health(p)
    BY <1>10, <2>2 DEF Ask, Finally, Recheck, OpenApi, Write, Again, Health
  <2>3. CASE LaunchApi(p) \/ AwaitApi(p) \/ StartDb(p)
    BY <1>10, <2>3 DEF LaunchApi, AwaitApi, StartDb, StopLauncher, Free
  <2>4. CASE LaunchUi(p) \/ AwaitUi(p)
    BY <1>10, <2>4 DEF LaunchUi, AwaitUi, Free
  <2>5. CASE LaunchHost(p) \/ AwaitHost(p)
    BY <1>10, <2>5 DEF LaunchHost, AwaitHost, Free, Ended
  <2>6. CASE StopRelays(p) \/ AskHost(p) \/ HostGone(p) \/ HostLate(p)
    BY <1>10, <2>6 DEF StopRelays, AskHost, HostGone, HostLate, Answers
  <2>7. CASE StopUi(p) \/ StopApi(p) \/ StopDb(p)
    BY <1>10, <2>7 DEF StopUi, StopApi, StopDb
  <2> QED BY <2>1, <2>2, <2>3, <2>4, <2>5, <2>6, <2>7 DEF Work
<1>6. history' \in [undone : BOOLEAN, mixed : BOOLEAN]
  <2>1. CASE Remember(p) \/ Unstop(p) \/ Flag(p) \/ Restore(p) \/ Look(p) \/ Resume(p) \/ CheckRuntime(p)
    BY <1>10, <2>1 DEF Remember, Unstop, Flag, Restore, Look, Resume, CheckRuntime, Keep
  <2>2. CASE Ask(p) \/ Finally(p) \/ Recheck(p) \/ OpenApi(p) \/ Write(p) \/ Again(p) \/ Health(p)
    BY <1>10, <2>2 DEF Ask, Finally, Recheck, OpenApi, Write, Again, Health, Keep
  <2>3. CASE LaunchApi(p) \/ AwaitApi(p) \/ StartDb(p)
    BY <1>10, <2>3 DEF LaunchApi, AwaitApi, StartDb, Keep, StopLauncher, Free
  <2>4. CASE LaunchUi(p) \/ AwaitUi(p)
    BY <1>10, <2>4 DEF LaunchUi, AwaitUi, Keep, Free
  <2>5. CASE LaunchHost(p) \/ AwaitHost(p)
    BY <1>10, <2>5 DEF LaunchHost, AwaitHost, Keep, Free
  <2>6. CASE StopRelays(p) \/ AskHost(p) \/ HostGone(p) \/ HostLate(p)
    BY <1>10, <2>6 DEF StopRelays, AskHost, HostGone, HostLate, Keep, Answers
  <2>7. CASE StopUi(p) \/ StopApi(p) \/ StopDb(p)
    BY <1>10, <2>7 DEF StopUi, StopApi, StopDb, Keep
  <2> QED BY <2>1, <2>2, <2>3, <2>4, <2>5, <2>6, <2>7 DEF Work
<1>7. runs' \in 0..MaxRuns /\ faults' \in 0..MaxFaults
  <2>1. CASE Remember(p) \/ Unstop(p) \/ Flag(p) \/ Restore(p) \/ Look(p) \/ Resume(p) \/ CheckRuntime(p)
    BY <1>10, <2>1, ServicesAssumption DEF Remember, Unstop, Flag, Restore, Look, Resume, CheckRuntime,
       Fault, Plain, Fails
  <2>2. CASE Ask(p) \/ Finally(p) \/ Recheck(p) \/ OpenApi(p) \/ Write(p) \/ Again(p) \/ Health(p)
    BY <1>10, <2>2, ServicesAssumption DEF Ask, Finally, Recheck, OpenApi, Write, Again, Health, Fault,
       Plain, Fails
  <2>3. CASE LaunchApi(p)
    BY <1>10, <2>3, ServicesAssumption DEF LaunchApi, Fault, Plain, Fails
  <2>4. CASE AwaitApi(p)
    BY <1>10, <2>4, ServicesAssumption DEF AwaitApi, Fault, Plain, Fails, StopLauncher, Free
  <2>5. CASE StartDb(p)
    <3>1. runs' = runs /\ (faults' = faults \/ (faults < MaxFaults /\ faults' = faults + 1))
      BY <2>5 DEF StartDb, Fault, Plain, Fails
    <3> QED BY <1>10, <3>1, ServicesAssumption
  <2>6. CASE LaunchUi(p)
    BY <1>10, <2>6, ServicesAssumption DEF LaunchUi, Fault, Plain, Fails
  <2>7. CASE AwaitUi(p)
    BY <1>10, <2>7, ServicesAssumption DEF AwaitUi, Fault, Plain, Fails, Free
  <2>8. CASE LaunchHost(p) \/ AwaitHost(p)
    BY <1>10, <2>8, ServicesAssumption DEF LaunchHost, AwaitHost, Ended, Fault, Plain, Fails, Free
  <2>9. CASE StopRelays(p) \/ AskHost(p) \/ HostGone(p) \/ HostLate(p)
    BY <1>10, <2>9, ServicesAssumption DEF StopRelays, AskHost, HostGone, HostLate, Fault, Plain, Fails, Answers
  <2>10. CASE StopUi(p) \/ StopApi(p) \/ StopDb(p)
    BY <1>10, <2>10, ServicesAssumption DEF StopUi, StopApi, StopDb, Fault, Plain, Fails
  <2> QED BY <2>1, <2>2, <2>3, <2>4, <2>5, <2>6, <2>7, <2>8, <2>9, <2>10 DEF Work
<1>8. todo' \in [Proc -> Seq(Step)]
  BY WorkShaped
<1>9. job' \in [Proc -> Jobs]
  BY <1>1, <1>10, WorkMoves
<1> QED BY <1>2, <1>3, <1>4, <1>5, <1>6, <1>7, <1>8, <1>9 DEF TypeOK, Types, Phase, Jobs

LEMMA PlanShape == \A c \in Cmd \ {"none"} : Shape(c, Plan(c))
BY Shapes, Plans DEF Cmd, Plan

LEMMA OtherTypes ==
  ASSUME TypeOK, Shaped, Types',
         \/ \E p \in Proc : (\E c \in Asked : Begin(p, c)) \/ Kill(p)
         \/ \E h \in Host : HostStep(h)
         \/ ApiUp \/ UiUp \/ Dies \/ Reboot \/ UNCHANGED vars
  PROVE  TypeOK' /\ Shaped'
<1> USE DEF TypeOK, Types, Phase, Fault, hosts, services, state
<1>1. ASSUME NEW p \in Proc, NEW c \in Asked, Begin(p, c) PROVE TypeOK' /\ Shaped'
  <2>1. c \in Cmd \ {"none"} /\ Shape(c, Plan(c))
    BY ServicesAssumption, PlanShape DEF Cmd
  <2>2. Plan(c) \in Seq(Step)
    BY <2>1 DEF Shape, Ordered
  <2>3. Shaped'
    BY <1>1, <2>1 DEF Begin, Shaped, NoJob
  <2>4. history' \in [undone : BOOLEAN, mixed : BOOLEAN]
    BY <1>1 DEF Begin
  <2>5. job' \in [Proc -> [cmd : Asked \cup {"none", "start"}, was : BOOLEAN, raised : BOOLEAN,
                           errors : BOOLEAN,
                           running : BOOLEAN, watch : Host \cup {None}, mine : Host \cup {None}]]
    BY <1>1 DEF Begin, NoJob
  <2>6. todo' \in [Proc -> Seq(Step)] /\ runs' \in 0..MaxRuns
    BY <1>1, <2>2, ServicesAssumption DEF Begin
  <2>7. UNCHANGED <<lock, stopped, shared, key, db, api, ui, phase, asked, hostKey, receipt, exposed, faults>>
    BY <1>1 DEF Begin
  <2> QED BY <2>3, <2>4, <2>5, <2>6, <2>7
<1>2. ASSUME NEW p \in Proc, Kill(p) PROVE TypeOK' /\ Shaped'
  <2>1. Shaped'
    BY <1>2, Shapes DEF Kill, Turn, Shaped, NoJob
  <2>2. lock' \in [{"api", "ui", "host"} -> Proc \cup {None}]
    BY <1>2 DEF Kill, Release
  <2>3. job' \in [Proc -> [cmd : Asked \cup {"none", "start"}, was : BOOLEAN, raised : BOOLEAN,
                           errors : BOOLEAN,
                           running : BOOLEAN, watch : Host \cup {None}, mine : Host \cup {None}]]
    BY <1>2 DEF Kill, NoJob
  <2>4. todo' \in [Proc -> Seq(Step)] /\ faults' \in 0..MaxFaults
          /\ history' \in [undone : BOOLEAN, mixed : BOOLEAN]
    BY <1>2, ServicesAssumption DEF Kill, Turn
  <2>5. UNCHANGED <<stopped, shared, key, db, api, ui, phase, asked, hostKey, receipt, exposed, runs>>
    BY <1>2 DEF Kill
  <2> QED BY <2>1, <2>2, <2>3, <2>4, <2>5
<1>3. ASSUME NEW h \in Host, HostStep(h) PROVE TypeOK' /\ Shaped'
  <2>1. UNCHANGED <<todo, job, lock, stopped, shared, key, db, api, ui, history, runs>>
    BY <1>3 DEF HostStep, Bind, Serve, Shut, Closed, Unlink
  <2>2. Shaped'
    BY <2>1 DEF Shaped
  <2>3. faults' \in 0..MaxFaults
    BY <1>3, ServicesAssumption DEF HostStep, Bind, Serve, Shut, Closed, Unlink
  <2>4. /\ phase' \in [Host -> {"absent", "spawned", "bound", "serving", "closing", "removing"}]
        /\ asked' \subseteq Host /\ hostKey' \in [Host -> Nat]
    <3>1. CASE Ended(h)
      BY <3>1 DEF Ended
    <3>2. CASE ~Ended(h)
      <4>1. UNCHANGED asked
              /\ (phase' = phase \/ \E s \in {"bound", "serving", "closing", "removing"} : phase' = [phase EXCEPT ![h] = s])
        BY <1>3, <3>2 DEF HostStep, Bind, Serve, Shut, Closed, Unlink
      <4>2. hostKey' = hostKey \/ hostKey' = [hostKey EXCEPT ![h] = key]
        BY <1>3, <3>2 DEF HostStep, Bind, Serve, Shut, Closed, Unlink
      <4> QED BY <4>1, <4>2
    <3> QED BY <3>1, <3>2
  <2>5. receipt' \in Host \cup {None} /\ exposed' \subseteq Host
    BY <1>3 DEF HostStep, Bind, Serve, Shut, Closed, Unlink, Ended
  <2> QED BY <2>1, <2>2, <2>3, <2>4, <2>5
<1>4. CASE ApiUp \/ UiUp \/ Dies
  <2>1. UNCHANGED <<todo, job, lock, stopped, shared, key, db, receipt, history, runs>>
    BY <1>4 DEF ApiUp, UiUp, Dies
  <2>2. Shaped'
    BY <2>1 DEF Shaped
  <2>3. faults' \in 0..MaxFaults
    BY <1>4, ServicesAssumption DEF ApiUp, UiUp, Dies
  <2>4. api' \in Server /\ ui' \in Server
    BY <1>4 DEF ApiUp, UiUp, Dies, Server
  <2>5. \/ UNCHANGED <<phase, asked, hostKey, exposed>>
        \/ \E h \in Host : Ended(h)
    BY <1>4 DEF ApiUp, UiUp, Dies
  <2>6. /\ phase' \in [Host -> {"absent", "spawned", "bound", "serving", "closing", "removing"}]
        /\ asked' \subseteq Host /\ hostKey' \in [Host -> Nat] /\ exposed' \subseteq Host
    BY <2>5 DEF Ended
  <2> QED BY <2>1, <2>2, <2>3, <2>4, <2>6
<1>5. CASE Reboot
  <2>1. Shaped'
    BY <1>5, Shapes DEF Reboot, Shaped, NoJob
  <2>2. job' \in [Proc -> [cmd : Asked \cup {"none", "start"}, was : BOOLEAN, raised : BOOLEAN,
                           errors : BOOLEAN,
                           running : BOOLEAN, watch : Host \cup {None}, mine : Host \cup {None}]]
    BY <1>5 DEF Reboot, NoJob
  <2>3. todo' \in [Proc -> Seq(Step)] /\ faults' \in 0..MaxFaults
          /\ lock' \in [{"api", "ui", "host"} -> Proc \cup {None}]
    BY <1>5, ServicesAssumption DEF Reboot
  <2>4. api' \in Server /\ ui' \in Server
    BY <1>5 DEF Reboot, Server
  <2> QED BY <1>5, <2>1, <2>2, <2>3, <2>4 DEF Reboot
<1>6. CASE UNCHANGED vars
  BY <1>6 DEF vars, Shaped
<1> QED BY <1>1, <1>2, <1>3, <1>4, <1>5, <1>6

-----------------------------------------------------------------------------
\* Who holds a lock is waiting for what it has launched.
Locked == \A p \in Proc :
  /\ At(p, "api-up") <=> lock["api"] = p
  /\ At(p, "ui-up") <=> lock["ui"] = p
  /\ At(p, "host-up") <=> lock["host"] = p
  /\ At(p, "host-up") => job[p].mine \in Host

\* A command that gives up waits for nothing it has launched.
LEMMA RaisedTurn ==
  ASSUME TypeOK, NEW p \in Proc, Raise(p)
  PROVE  /\ todo'[p] = Handler(job[p]) /\ todo'[p] \in {CleanUp, <<"finally">>, <<>>}
         /\ \A s \in {"api-up", "ui-up", "host-up"} : ~At(p, s)'
<1>1. todo'[p] = Handler(job[p])
  BY DEF Raise, Turn, TypeOK
<1>2. todo'[p] \in {CleanUp, <<"finally">>, <<>>}
  BY <1>1, Plans DEF Handler
<1> QED BY <1>1, <1>2 DEF CleanUp, At, Busy

\* A command that finds a host, or none, waits neither for one to come up nor to go.
LEMMA SkipHost ==
  ASSUME TypeOK, Shaped, NEW p \in Proc, At(p, "host") \/ At(p, "host-off"), Skip2(p)
  PROVE  /\ Tail(todo[p]) # <<>> /\ Head(Tail(todo[p])) \in {"host-up", "host-wait"}
         /\ todo'[p] = Tail(Tail(todo[p])) /\ Shape(job[p].cmd, Tail(todo[p]))
         /\ \A s \in {"api-up", "ui-up", "host-up"} : ~At(p, s)'
<1>1. todo[p] # <<>> /\ Shape(job[p].cmd, todo[p])
  BY DEF Shaped, At, Busy
<1>2. Shape(job[p].cmd, Tail(todo[p]))
  BY <1>1, ShapeTail
<1>3. Tail(todo[p]) # <<>> /\ Head(Tail(todo[p])) \in {"host-up", "host-wait"}
  BY <1>1, Pairs DEF At
<1>4. todo'[p] = Tail(Tail(todo[p]))
  BY DEF Skip2, TypeOK
<1> QED BY <1>2, <1>3, <1>4, Pairs DEF At, Busy

\* A process comes to wait for a service by launching it.
LEMMA Reached ==
  ASSUME TypeOK, Shaped, NEW p \in Proc, Busy(p), Moves(p)
  PROVE  /\ At(p, "api-up")' <=> At(p, "api") /\ Next1(p)
         /\ At(p, "ui-up")' <=> At(p, "ui") /\ Next1(p)
         /\ At(p, "host-up")' <=> At(p, "host") /\ Next1(p)
<1> DEFINE seq == todo[p]
           Held(s) == s \in {"api-up", "ui-up", "host-up"}
<1>1. seq # <<>> /\ Shape(job[p].cmd, seq) /\ job[p].cmd \in Cmd
  BY JobCmd DEF Shaped, Busy
<1>2. Shape(job[p].cmd, Tail(seq))
  BY <1>1, ShapeTail
<1>3. CASE Next1(p)
  <2>1. todo'[p] = Tail(seq)
    BY <1>3 DEF Next1, TypeOK
  <2> QED BY <1>1, <1>3, <2>1, Pairs DEF At, Busy
<1>4. ASSUME ~Next1(p) PROVE todo'[p] = <<>> \/ ~Held(Head(todo'[p]))
  <2>1. CASE Skip2(p) /\ Same(p) /\ (At(p, "host") \/ At(p, "host-off"))
    BY <2>1, SkipHost DEF At, Busy
  <2>2. CASE Raised(p)
    <3>1. Raise(p)
      BY <2>2 DEF Raised
    <3>2. todo'[p] \in {CleanUp, <<"finally">>, <<>>}
      BY <3>1, RaisedTurn
    <3> QED BY <3>2 DEF CleanUp
  <2>3. CASE Turn(p, <<>>) \/ Turn(p, DownAgain) \/ Turn(p, <<"recheck">>) \/ Turn(p, <<"resume">>)
             \/ Turn(p, OpenSteps) \/ Turn(p, Up) \/ Turn(p, AfterHealth)
    <3>1. todo'[p] \in {<<>>, DownAgain, <<"recheck">>, <<"resume">>, OpenSteps, Up, AfterHealth}
      BY <2>3 DEF Turn, TypeOK
    <3> QED BY <3>1 DEF DownAgain, OpenSteps, Up, AfterHealth
  <2> QED BY <1>4, <2>1, <2>2, <2>3 DEF Moves
<1>5. CASE ~Next1(p)
  BY <1>4, <1>5 DEF At, Busy
<1> QED BY <1>3, <1>5

LEMMA WorkLocked ==
  ASSUME TypeOK, Shaped, Locked, NEW p \in Proc, Work(p)
  PROVE  Locked'
<1>1. /\ Busy(p) /\ Moves(p)
      /\ \A q \in Proc : q # p => todo'[q] = todo[q] /\ job'[q] = job[q]
  BY WorkMoves
<1>2. \A q \in Proc : q # p => \A s : At(q, s)' <=> At(q, s)
  BY <1>1 DEF At, Busy
<1>3. /\ At(p, "api-up")' <=> At(p, "api") /\ Next1(p)
      /\ At(p, "ui-up")' <=> At(p, "ui") /\ Next1(p)
      /\ At(p, "host-up")' <=> At(p, "host") /\ Next1(p)
  BY <1>1, Reached
<1>4. \A s, t : At(p, s) /\ At(p, t) => s = t
  BY DEF At
<1>5. None \notin Proc /\ lock \in [{"api", "ui", "host"} -> Proc \cup {None}]
  BY ServicesAssumption DEF TypeOK
<1>6. ASSUME lock' = lock, ~At(p, "api"), ~At(p, "api-up"), ~At(p, "ui"), ~At(p, "ui-up"), ~At(p, "host"), ~At(p, "host-up")
      PROVE  Locked'
  BY <1>1, <1>2, <1>3, <1>6 DEF Locked
<1>7. CASE LaunchApi(p)
  <2>1. At(p, "api") /\ (\/ lock["api"] = None /\ Next1(p) /\ lock' = [lock EXCEPT !["api"] = p]
                         \/ Raise(p) /\ lock' = lock)
    BY <1>7 DEF LaunchApi, Plain, Fails
  <2>2. CASE lock["api"] = None /\ Next1(p) /\ lock' = [lock EXCEPT !["api"] = p]
    BY <1>1, <1>2, <1>3, <1>4, <1>5, <2>1, <2>2 DEF Locked
  <2>3. CASE Raise(p) /\ lock' = lock
    BY <1>1, <1>2, <1>4, <2>1, <2>3, RaisedTurn DEF Locked
  <2> QED BY <2>1, <2>2, <2>3
<1>8. CASE LaunchUi(p)
  <2>1. At(p, "ui") /\ (\/ lock["ui"] = None /\ Next1(p) /\ lock' = [lock EXCEPT !["ui"] = p]
                        \/ Raise(p) /\ lock' = lock)
    BY <1>8 DEF LaunchUi, Plain
  <2>2. CASE lock["ui"] = None /\ Next1(p) /\ lock' = [lock EXCEPT !["ui"] = p]
    BY <1>1, <1>2, <1>3, <1>4, <1>5, <2>1, <2>2 DEF Locked
  <2>3. CASE Raise(p) /\ lock' = lock
    BY <1>1, <1>2, <1>4, <2>1, <2>3, RaisedTurn DEF Locked
  <2> QED BY <2>1, <2>2, <2>3
<1>9. CASE LaunchHost(p)
  <2>1. At(p, "host") /\ (\/ Skip2(p) /\ lock' = lock
                          \/ /\ lock["host"] = None /\ Next1(p) /\ lock' = [lock EXCEPT !["host"] = p]
                             /\ job'[p].mine \in Host)
    BY <1>9 DEF LaunchHost, TypeOK
  <2>2. CASE Skip2(p) /\ lock' = lock
    <3>1. ~At(p, "host-up")'
      BY <2>1, <2>2, SkipHost
    <3> QED BY <1>1, <1>2, <1>3, <1>4, <2>1, <2>2, <3>1 DEF Locked
  <2>3. CASE /\ lock["host"] = None /\ Next1(p) /\ lock' = [lock EXCEPT !["host"] = p]
             /\ job'[p].mine \in Host
    BY <1>1, <1>2, <1>3, <1>4, <1>5, <2>1, <2>3 DEF Locked
  <2> QED BY <2>1, <2>2, <2>3
<1>10. CASE AwaitApi(p)
  <2>1. At(p, "api-up") /\ lock' = [lock EXCEPT !["api"] = None]
    BY <1>10 DEF AwaitApi, Free
  <2> QED BY <1>1, <1>2, <1>3, <1>4, <1>5, <2>1 DEF Locked
<1>11. CASE AwaitUi(p)
  <2>1. At(p, "ui-up") /\ lock' = [lock EXCEPT !["ui"] = None]
    BY <1>11 DEF AwaitUi, Free
  <2> QED BY <1>1, <1>2, <1>3, <1>4, <1>5, <2>1 DEF Locked
<1>12. CASE AwaitHost(p)
  <2>1. At(p, "host-up") /\ lock' = [lock EXCEPT !["host"] = None]
    BY <1>12 DEF AwaitHost, Free
  <2> QED BY <1>1, <1>2, <1>3, <1>4, <1>5, <2>1 DEF Locked
<1>13. CASE Remember(p) \/ Unstop(p) \/ Flag(p) \/ Restore(p) \/ Resume(p) \/ Ask(p) \/ Finally(p) \/ Recheck(p)
  BY <1>4, <1>6, <1>13 DEF Remember, Unstop, Flag, Restore, Resume, Ask, Finally, Recheck
<1>14. CASE OpenApi(p) \/ Look(p) \/ Write(p) \/ Again(p) \/ Health(p) \/ StartDb(p) \/ CheckRuntime(p)
  BY <1>4, <1>6, <1>14 DEF OpenApi, Look, Write, Again, Health, StartDb, CheckRuntime
<1>15. CASE StopRelays(p) \/ AskHost(p) \/ HostGone(p) \/ HostLate(p) \/ StopUi(p) \/ StopApi(p) \/ StopDb(p)
  BY <1>4, <1>6, <1>15 DEF StopRelays, AskHost, HostGone, HostLate, StopUi, StopApi, StopDb
<1> QED BY <1>7, <1>8, <1>9, <1>10, <1>11, <1>12, <1>13, <1>14, <1>15 DEF Work

\* A host that runs and has not begun to close.
Live == {"spawned", "bound", "serving"}

\* A service that is coming belongs to whoever waits for it, and one host at most runs.
Owned ==
  /\ api.st = "coming" => lock["api"] # None
  /\ ui.st = "coming" => lock["ui"] # None
  /\ \A h \in Host : phase[h] \in {"spawned", "bound"} => lock["host"] # None /\ job[lock["host"]].mine = h
  /\ \A h, g \in Host : phase[h] \in Live /\ phase[g] \in Live => h = g

\* A process launches under the lock, and gives the lock back once what it launched is up or
\* killed.
LEMMA WorkOwned ==
  ASSUME TypeOK, Shaped, Locked, Owned, NEW p \in Proc, Work(p)
  PROVE  Owned'
<1>1. \A q \in Proc : q # p => job'[q] = job[q]
  BY WorkMoves
<1>2. \A s, t : At(p, s) /\ At(p, t) => s = t
  BY DEF At
<1>3. None \notin Proc /\ lock \in [{"api", "ui", "host"} -> Proc \cup {None}] /\ api \in Server
        /\ ui \in Server
      /\ phase \in [Host -> Phase]
  BY ServicesAssumption DEF TypeOK, Phase
<1>4. ASSUME ~At(p, "host-up"), lock'["host"] = lock["host"], phase' = phase
      PROVE  /\ \A h \in Host : phase'[h] \in {"spawned", "bound"} => lock'["host"] # None
                                  /\ job'[lock'["host"]].mine = h
             /\ \A h, g \in Host : phase'[h] \in Live /\ phase'[g] \in Live => h = g
  <2>1. lock["host"] # None => job'[lock["host"]] = job[lock["host"]]
    BY <1>1, <1>3, <1>4 DEF Locked
  <2> QED BY <1>4, <2>1 DEF Owned
<1>5. ASSUME ~At(p, "host-up"), lock' = lock, phase' = phase,
             api'.st = "coming" => api.st = "coming", ui'.st = "coming" => ui.st = "coming"
      PROVE  Owned'
  BY <1>4, <1>5 DEF Owned
<1>6. CASE LaunchApi(p)
  <2>1. ~At(p, "host-up") /\ lock'["host"] = lock["host"] /\ lock'["ui"] = lock["ui"] /\ phase' = phase
          /\ ui' = ui
    BY <1>2, <1>3, <1>6 DEF LaunchApi, hosts
  <2>2. api'.st = "coming" => lock'["api"] # None
    BY <1>3, <1>6 DEF LaunchApi, Owned, Server
  <2> QED BY <1>4, <2>1, <2>2 DEF Owned
<1>7. CASE AwaitApi(p)
  <2>1. ~At(p, "host-up") /\ lock'["host"] = lock["host"] /\ lock'["ui"] = lock["ui"] /\ phase' = phase
          /\ ui' = ui
    BY <1>2, <1>3, <1>7 DEF AwaitApi, Free, hosts
  <2>2. api'.st # "coming"
    BY <1>3, <1>7 DEF AwaitApi, StopLauncher, Server
  <2> QED BY <1>4, <2>1, <2>2 DEF Owned
<1>8. CASE LaunchUi(p)
  <2>1. ~At(p, "host-up") /\ lock'["host"] = lock["host"] /\ lock'["api"] = lock["api"] /\ phase' = phase
          /\ api' = api
    BY <1>2, <1>3, <1>8 DEF LaunchUi, hosts
  <2>2. ui'.st = "coming" => lock'["ui"] # None
    BY <1>3, <1>8 DEF LaunchUi, Owned, Server
  <2> QED BY <1>4, <2>1, <2>2 DEF Owned
<1>9. CASE AwaitUi(p)
  <2>1. ~At(p, "host-up") /\ lock'["host"] = lock["host"] /\ lock'["api"] = lock["api"] /\ phase' = phase
          /\ api' = api
    BY <1>2, <1>3, <1>9 DEF AwaitUi, Free, hosts
  <2>2. ui'.st # "coming"
    BY <1>3, <1>9 DEF AwaitUi, Server
  <2> QED BY <1>4, <2>1, <2>2 DEF Owned
<1>10. CASE LaunchHost(p)
  <2>1. At(p, "host") /\ api' = api /\ ui' = ui
    BY <1>10 DEF LaunchHost, services
  <2>2. CASE lock' = lock /\ phase' = phase
    BY <1>2, <1>5, <2>1, <2>2
  <2>3. CASE /\ lock["host"] = None /\ ~PortTaken /\ lock' = [lock EXCEPT !["host"] = p]
             /\ \E h \in Host : phase' = [phase EXCEPT ![h] = "spawned"] /\ job' = [job EXCEPT ![p].mine = h]
    <3>1. \A h \in Host : phase[h] \notin Live
      BY <2>3 DEF Owned, PortTaken, Listening, Live
    <3>2. PICK h \in Host : phase' = [phase EXCEPT ![h] = "spawned"] /\ job' = [job EXCEPT ![p].mine = h]
      BY <2>3
    <3>3. lock'["host"] = p /\ p # None /\ job'[p].mine = h /\ lock'["api"] = lock["api"]
            /\ lock'["ui"] = lock["ui"]
      BY <1>3, <2>3, <3>2 DEF TypeOK
    <3>4. \A g \in Host : phase'[g] \in Live => g = h
      BY <1>3, <3>1, <3>2
    <3> QED BY <2>1, <3>3, <3>4 DEF Owned, Live
  <2> QED BY <1>10, <2>2, <2>3 DEF LaunchHost
<1>11. CASE AwaitHost(p)
  <2>1. /\ lock["host"] = p /\ p # None /\ api' = api /\ ui' = ui /\ lock'["api"] = lock["api"]
             /\ lock'["ui"] = lock["ui"]
    BY <1>3, <1>11 DEF AwaitHost, Locked, Free, services
  <2>2. \A h \in Host : phase[h] \in {"spawned", "bound"} => h = job[p].mine
    BY <2>1 DEF Owned
  <2>3. job[p].mine \in Host
    BY <1>11 DEF AwaitHost, Locked
  <2>4. CASE (Served \/ phase[job[p].mine] = "absent") /\ phase' = phase
    <3>1. Served => \A h \in Host : phase[h] \notin {"spawned", "bound"}
      BY DEF Served, Answers, Owned, Live
    <3>2. \A h \in Host : phase[h] \notin {"spawned", "bound"}
      BY <2>2, <2>4, <3>1
    <3> QED BY <2>1, <2>4, <3>2 DEF Owned
  <2>5. CASE phase' = [phase EXCEPT ![job[p].mine] = "absent"]
    <3>1. \A h \in Host : phase'[h] \notin {"spawned", "bound"}
      BY <1>3, <2>2, <2>3, <2>5
    <3>2. \A h \in Host : phase'[h] \in Live => phase[h] \in Live
      BY <1>3, <2>3, <2>5 DEF Live
    <3> QED BY <2>1, <3>1, <3>2 DEF Owned
  <2> QED BY <1>11, <2>4, <2>5 DEF AwaitHost, Ended
<1> USE DEF services, hosts
<1>12. CASE Remember(p) \/ Unstop(p) \/ Flag(p) \/ Restore(p) \/ Resume(p) \/ Ask(p) \/ Finally(p) \/ Recheck(p)
  BY <1>2, <1>5, <1>12 DEF Remember, Unstop, Flag, Restore, Resume, Ask, Finally, Recheck
<1>13. CASE OpenApi(p) \/ Look(p) \/ Write(p) \/ Again(p) \/ Health(p) \/ StartDb(p) \/ CheckRuntime(p)
  BY <1>2, <1>5, <1>13 DEF OpenApi, Look, Write, Again, Health, StartDb, CheckRuntime
<1>14. CASE StopRelays(p) \/ AskHost(p) \/ HostGone(p) \/ HostLate(p) \/ StopDb(p)
  BY <1>2, <1>5, <1>14 DEF StopRelays, AskHost, HostGone, HostLate, StopDb
<1>15. CASE StopUi(p) \/ StopApi(p)
  <2>1. (api'.st = "coming" => api.st = "coming") /\ (ui'.st = "coming" => ui.st = "coming")
    BY <1>3, <1>15 DEF StopUi, StopApi, Server
  <2> QED BY <1>2, <1>5, <1>15, <2>1 DEF StopUi, StopApi
<1> QED BY <1>6, <1>7, <1>8, <1>9, <1>10, <1>11, <1>12, <1>13, <1>14, <1>15 DEF Work

\* Nobody works: a host goes on, a service answers or dies.
Alone == \/ \E h \in Host : HostStep(h)
         \/ ApiUp \/ UiUp \/ Dies \/ UNCHANGED vars

LEMMA AloneKeeps ==
  ASSUME Alone
  PROVE  UNCHANGED <<todo, job, lock, state, db, history>>
BY DEF Alone, HostStep, Bind, Serve, Shut, Closed, Unlink, Ended, ApiUp, UiUp, Dies, vars, services

LEMMA AloneOwned ==
  ASSUME TypeOK, Inv, Owned, Alone
  PROVE  Owned'
<1>1. UNCHANGED <<lock, job>>
  BY AloneKeeps
<1>2. (api'.st = "coming" => api.st = "coming") /\ (ui'.st = "coming" => ui.st = "coming")
  BY DEF Alone, HostStep, Bind, Serve, Shut, Closed, Unlink, Ended, ApiUp, UiUp, Dies, vars, services, TypeOK, Server
<1>3. \A h \in Host : /\ phase'[h] \in {"spawned", "bound"} => phase[h] \in {"spawned", "bound"}
                      /\ phase'[h] \in Live => phase[h] \in Live
  BY DEF Alone, HostStep, Bind, Serve, Shut, Closed, Unlink, Ended, ApiUp, UiUp, Dies, vars, hosts, TypeOK, Live
<1> QED BY <1>1, <1>2, <1>3 DEF Owned

LEMMA LockedSame ==
  ASSUME Locked, UNCHANGED <<todo, job, lock>>
  PROVE  Locked'
BY DEF Locked, At, Busy

LEMMA BeginLocked ==
  ASSUME TypeOK, Locked, NEW p \in Proc, NEW c \in Asked, Begin(p, c)
  PROVE  Locked'
<1>1. /\ todo'[p] = Plan(c) /\ lock' = lock /\ ~Busy(p)
      /\ \A q \in Proc : q # p => todo'[q] = todo[q] /\ job'[q] = job[q]
  BY DEF Begin, TypeOK
<1>2. todo'[p] \in {StartSteps, StopSteps, LoginSteps, ShareSteps, UnshareSteps, <<"health", "host", "host-up">>}
  BY <1>1, ServicesAssumption, Plans DEF Plan
<1>3. \A s \in {"api-up", "ui-up", "host-up"} : ~At(p, s)'
  BY <1>2 DEF StartSteps, StopSteps, LoginSteps, ShareSteps, UnshareSteps, At, Busy
<1>4. \A q \in Proc : q # p => \A s : At(q, s)' <=> At(q, s)
  BY <1>1 DEF At, Busy
<1>5. \A s : ~At(p, s)
  BY <1>1 DEF At
<1> QED BY <1>1, <1>3, <1>4, <1>5 DEF Locked

LEMMA KillLocked ==
  ASSUME TypeOK, Locked, NEW p \in Proc, Kill(p)
  PROVE  Locked'
<1>1. /\ todo'[p] = <<>> /\ \A q \in Proc : q # p => todo'[q] = todo[q] /\ job'[q] = job[q]
  BY DEF Kill, Turn, TypeOK
<1>2. \A n \in {"api", "ui", "host"} : lock'[n] = IF lock[n] = p THEN None ELSE lock[n]
  BY DEF Kill, Release, TypeOK
<1>3. \A q \in Proc : q # p => \A s : At(q, s)' <=> At(q, s)
  BY <1>1 DEF At, Busy
<1>4. \A s : ~At(p, s)'
  BY <1>1 DEF At, Busy
<1>5. None \notin Proc
  BY ServicesAssumption
<1> QED BY <1>1, <1>2, <1>3, <1>4, <1>5 DEF Locked

LEMMA RebootLocked ==
  ASSUME TypeOK, Reboot
  PROVE  Locked' /\ Owned'
<1>1. None \notin Proc
  BY ServicesAssumption
<1>2. (\A p \in Proc : todo'[p] = <<>>) /\ \A n \in {"api", "ui", "host"} : lock'[n] = None
  BY DEF Reboot, TypeOK
<1>3. (\A h \in Host : phase'[h] = "absent") /\ api'.st = "off" /\ ui'.st = "off"
  BY DEF Reboot, TypeOK, Server
<1>4. Locked'
  BY <1>1, <1>2 DEF Locked, At, Busy
<1> QED BY <1>3, <1>4 DEF Owned, Live

\* What holds whatever happens.
Basic == TypeOK /\ Inv /\ Shaped /\ Locked

LEMMA InitBasic == Init => Basic
<1> SUFFICES ASSUME Init PROVE Basic
  OBVIOUS
<1>1. Inv
  BY InitInv
<1>2. Shaped
  BY Shapes DEF Init, Shaped
<1>3. Locked
  BY ServicesAssumption DEF Init, Locked, At, Busy
<1>4. TypeOK
  <2>1. todo \in [Proc -> Seq(Step)]
    BY DEF Init
  <2>2. job \in [Proc -> [cmd : Asked \cup {"none", "start"}, was : BOOLEAN, raised : BOOLEAN, errors : BOOLEAN,
                          running : BOOLEAN, watch : Host \cup {None}, mine : Host \cup {None}]]
    BY DEF Init, NoJob
  <2>3. lock \in [{"api", "ui", "host"} -> Proc \cup {None}] /\ hostKey \in [Host -> Nat]
        /\ phase \in [Host -> {"absent", "spawned", "bound", "serving", "closing", "removing"}]
    BY DEF Init
  <2>4. api \in Server /\ ui \in Server /\ history \in [undone : BOOLEAN, mixed : BOOLEAN]
    BY DEF Init, Server
  <2>5. runs \in 0..MaxRuns /\ faults \in 0..MaxFaults
    BY ServicesAssumption DEF Init
  <2> QED BY <2>1, <2>2, <2>3, <2>4, <2>5 DEF Init, TypeOK
<1> QED BY <1>1, <1>2, <1>3, <1>4 DEF Basic

\* The steps of the system, by who takes them.
LEMMA Cases ==
  ASSUME [Next]_vars
  PROVE  \/ \E p \in Proc : Work(p)
         \/ \E p \in Proc, c \in Asked : Begin(p, c)
         \/ \E p \in Proc : Kill(p)
         \/ Alone \/ Reboot
BY DEF Next, Alone

LEMMA BasicStep == Basic /\ [Next]_vars => Basic'
<1> SUFFICES ASSUME Basic, [Next]_vars PROVE Basic'
  OBVIOUS
<1>1. Inv' /\ Types'
  BY InvStep DEF Basic, Inv
<1>2. TypeOK /\ Shaped /\ Locked /\ Inv
  BY DEF Basic
<1>3. TypeOK' /\ Shaped'
  <2>1. CASE \E p \in Proc : Work(p)
    BY <1>1, <1>2, <2>1, WorkTypes, WorkShaped
  <2>2. CASE ~\E p \in Proc : Work(p)
    BY <1>1, <1>2, <2>2, OtherTypes DEF Next
  <2> QED BY <2>1, <2>2
<1>4. Locked'
  <2>1. CASE Alone
    BY <1>2, <2>1, AloneKeeps, LockedSame
  <2> QED BY <1>2, <2>1, Cases, WorkLocked, BeginLocked, KillLocked, RebootLocked
<1> QED BY <1>1, <1>3, <1>4 DEF Basic

-----------------------------------------------------------------------------
\* What earlier commands have done is never taken back by a step of a command, and no step of one
\* makes two of them meet.
LEMMA WorkHistory ==
  ASSUME TypeOK, NEW p \in Proc, Work(p)
  PROVE  history'.mixed = history.mixed /\ (history.undone => history'.undone)
<1> USE DEF TypeOK, Keep
<1>1. CASE Remember(p) \/ Unstop(p) \/ Flag(p) \/ Restore(p) \/ Resume(p) \/ Ask(p) \/ Finally(p) \/ Recheck(p)
  BY <1>1 DEF Remember, Unstop, Flag, Restore, Resume, Ask, Finally, Recheck
<1>2. CASE OpenApi(p) \/ Look(p) \/ Write(p) \/ Again(p) \/ Health(p) \/ StartDb(p) \/ CheckRuntime(p)
  BY <1>2 DEF OpenApi, Look, Write, Again, Health, StartDb, CheckRuntime
<1>3. CASE LaunchApi(p) \/ AwaitApi(p) \/ LaunchUi(p) \/ AwaitUi(p) \/ LaunchHost(p) \/ AwaitHost(p)
  BY <1>3 DEF LaunchApi, AwaitApi, LaunchUi, AwaitUi, LaunchHost, AwaitHost
<1>4. CASE StopRelays(p) \/ AskHost(p) \/ HostGone(p) \/ HostLate(p) \/ StopUi(p) \/ StopApi(p) \/ StopDb(p)
  BY <1>4 DEF StopRelays, AskHost, HostGone, HostLate, StopUi, StopApi, StopDb
<1> QED BY <1>1, <1>2, <1>3, <1>4 DEF Work

\* A stop that is alone, while nothing is coming.
Clean(p, c) == c = "stop" /\ ~Coming /\ \A q \in Proc : ~Busy(q)

\* Until a command is killed, or the user starts another beside it, what is coming is owned.
Owning == ~history.undone \/ ~history.mixed => Owned

LEMMA BeginHistory ==
  ASSUME TypeOK, NEW p \in Proc, NEW c \in Asked, Begin(p, c)
  PROVE  /\ history.mixed => history'.mixed
         /\ history.undone => history'.undone \/ Clean(p, c)
         /\ ~history'.undone => \/ Clean(p, c)
                                \/ /\ ~(c = "share" /\ stopped)
                                   /\ \A q \in Proc : Busy(q) =>
                                        {c, job[q].cmd} \cap {"start", "share", "unshare", "connectors"} = {}
         /\ ~history'.mixed => \A q \in Proc : Busy(q) => {c, job[q].cmd} \cap {"share", "unshare"} = {}
<1> DEFINE others == {job[q].cmd : q \in {q \in Proc : Busy(q)}}
           meets(cs) == others # {} /\ ({c} \cup others) \cap cs # {}
           clean == others = {} /\ ~Coming
<1>1. /\ history'.undone = IF c = "stop" /\ clean THEN FALSE
                           ELSE \/ history.undone \/ (c = "share" /\ stopped)
                                \/ meets({"start", "share", "unshare", "connectors"})
      /\ history'.mixed = (history.mixed \/ meets({"share", "unshare"}))
  BY DEF Begin
<1>2. others = {} => \A q \in Proc : ~Busy(q)
  OBVIOUS
<1>3. ASSUME NEW cs, ~meets(cs), NEW q \in Proc, Busy(q) PROVE {c, job[q].cmd} \cap cs = {}
  BY <1>3
<1>4. c = "stop" /\ clean => Clean(p, c)
  BY <1>2 DEF Clean
<1> HIDE DEF clean, meets, others
<1> QED BY <1>1, <1>3, <1>4

-----------------------------------------------------------------------------
(* An explicit stop stays effective.                                                             *)

Has(p, s) == s \in Left(todo[p])

\* A process that will stop s, or that will have looked again whether it may run.
Clears(p, s) == Has(p, s) \/ Has(p, "unstop") \/ (Has(p, "finally") /\ ~At(p, "ask"))
\* It does so for all services; it waits for host h to go.
Covers(p) == \A s \in Off : Clears(p, s)
Asks(p, h) == At(p, "host-wait") /\ job[p].watch = h

\* A host that runs and can be found, or will be.
Findable(h) == phase[h] \in Live /\ (phase[h] = "serving" => h \notin exposed)

\* On a stopped installation whatever runs has somebody who will stop it.
Falling ==
  stopped =>
    /\ db => \E p \in Proc : Clears(p, "db-off")
    /\ api.st # "off" => \E p \in Proc : Clears(p, "api-off")
    /\ ui.st # "off" => \E p \in Proc : Clears(p, "ui-off")
    /\ \A h \in Host : Findable(h) => \E p \in Proc : Clears(p, "host-off") \/ Asks(p, h)

\* Only stops and login tasks meet.
Users == \A p, q \in Proc : p # q /\ Busy(p) /\ Busy(q) => job[p].cmd \in {"stop", "login"}

\* What a command knows of the state of the installation.
Told(p) ==
  /\ job[p].cmd = "share" => ~stopped
  /\ job[p].cmd = "connectors" /\ ~Has(p, "health") => ~stopped
  /\ job[p].cmd = "unshare" /\ (\E s \in Early : Has(p, s)) => ~stopped
  /\ job[p].cmd = "start" =>
       /\ ~Has(p, "unstop") /\ ~Has(p, "restore") => ~stopped
       /\ ~Has(p, "remember") /\ (stopped \/ Has(p, "restore")) => job[p].was
       /\ Has(p, "restore") /\ ~Has(p, "flag") => stopped

\* What is left once a step is taken.
LEMMA Ends1 ==
  ASSUME NEW c, NEW seq, Shape(c, seq), seq # <<>>
  PROVE  /\ Left(seq) = Left(Tail(seq)) \cup {Head(seq)}
         /\ Left(Tail(seq)) \cap Opening = {}
         /\ Head(seq) \in Closing => Tail(seq) = <<>> /\ Left(seq) = {Head(seq)}
         /\ Tail(seq) # <<>> => Head(Tail(seq)) \in Left(Tail(seq))
<1>1. seq \in Seq(Step) /\ Bars(seq, Step, Opening) /\ Bars(seq, Closing, Step)
  BY DEF Shape, Ordered
<1>2. /\ Len(seq) \in Nat \ {0} /\ Tail(seq) \in Seq(Step) /\ Len(Tail(seq)) = Len(seq) - 1
      /\ \A i \in 1..Len(Tail(seq)) : Tail(seq)[i] = seq[i + 1]
      /\ Head(seq) = seq[1] /\ Head(seq) \in Step
  BY <1>1, Tailed
<1>3. Left(seq) = Left(Tail(seq)) \cup {Head(seq)}
  BY <1>1, TailLeft
<1>4. ASSUME NEW i \in 1..Len(Tail(seq)) PROVE Tail(seq)[i] \in Step \ Opening /\ Head(seq) \notin Closing
  <2>1. 1 \in 1..Len(seq) /\ i + 1 \in 1..Len(seq) /\ 1 < i + 1 /\ Tail(seq)[i] = seq[i + 1]
          /\ seq[i + 1] \in Step
    BY <1>1, <1>2
  <2> QED BY <1>1, <1>2, <2>1 DEF Bars
<1>5. Left(Tail(seq)) \cap Opening = {}
  BY <1>4 DEF Left
<1>6. Tail(seq) # <<>> => 1 \in 1..Len(Tail(seq)) /\ Head(Tail(seq)) = Tail(seq)[1]
  <2> DEFINE t == Tail(seq)
  <2>1. t \in Seq(Step)
    BY <1>2
  <2> HIDE DEF t
  <2>2. t # <<>> => 1 \in 1..Len(t) /\ Head(t) = t[1]
    BY <2>1
  <2> QED BY <2>2 DEF t
<1>7. Tail(seq) # <<>> => Head(Tail(seq)) \in Left(Tail(seq))
  BY <1>6 DEF Left
<1>8. Head(seq) \in Closing => Tail(seq) = <<>>
  BY <1>4, <1>6
<1>9. Left(<<>>) = {}
  BY DEF Left
<1> QED BY <1>3, <1>5, <1>7, <1>8, <1>9

\* A process takes a step: what is left of its plan, and of what it was at.
LEMMA Onward ==
  ASSUME TypeOK, Shaped, NEW p \in Proc, NEW x, At(p, x), Next1(p)
  PROVE  /\ Left(todo[p]) = Left(todo'[p]) \cup {x}
         /\ \A s \in Opening : ~Has(p, s)' /\ ~At(p, s)'
         /\ x \in Closing => todo'[p] = <<>> /\ Left(todo[p]) = {x}
         /\ \A s : At(p, s)' => Has(p, s)'
<1>1. /\ todo[p] # <<>> /\ Shape(job[p].cmd, todo[p]) /\ Head(todo[p]) = x
      /\ todo'[p] = Tail(todo[p])
  BY DEF Shaped, At, Busy, Next1, TypeOK
<1> QED BY <1>1, Ends1 DEF Has, At, Busy

\* What a process is at tells what it has left.
LEMMA Now ==
  ASSUME TypeOK, Shaped, NEW p \in Proc, NEW x, At(p, x)
  PROVE  /\ Busy(p) /\ todo[p] # <<>> /\ Head(todo[p]) = x /\ Shape(job[p].cmd, todo[p]) /\ job[p].cmd \in Cmd
         /\ Has(p, x) /\ (\A s \in Opening \ {x} : ~Has(p, s)) /\ \A s : At(p, s) => s = x
<1>1. Busy(p) /\ todo[p] # <<>> /\ Head(todo[p]) = x /\ Shape(job[p].cmd, todo[p]) /\ job[p].cmd \in Cmd
  BY JobCmd DEF Shaped, At, Busy
<1>2. Has(p, x) /\ (\A s \in Opening \ {x} : ~Has(p, s))
  BY <1>1, Ends1 DEF Has
<1> QED BY <1>1, <1>2 DEF At

\* Who will stop a service, or look again, still will after another step.
LEMMA Keeping ==
  ASSUME TypeOK, Shaped, NEW p \in Proc, NEW x, At(p, x), Next1(p), x \notin {"unstop", "finally"}
  PROVE  \A s \in Off \ {x} : Clears(p, s) => Clears(p, s)'
<1>1. Left(todo[p]) = Left(todo'[p]) \cup {x} /\ ~At(p, "ask")'
  BY Onward DEF Opening
<1> QED BY <1>1 DEF Clears, Has

\* Who starts a service of a stopped installation has been told to, or will look again.
LEMMA Rising ==
  ASSUME TypeOK, Shaped, NEW p \in Proc, Told(p), stopped, NEW x \in Early \cup {"resume"}, At(p, x)
  PROVE  \/ job[p].cmd = "login" /\ (x \in Early => Has(p, "finally"))
         \/ job[p].cmd = "start" /\ job[p].was /\ Has(p, "unstop")
<1>1. /\ Busy(p) /\ todo[p] # <<>> /\ Head(todo[p]) = x /\ Shape(job[p].cmd, todo[p]) /\ job[p].cmd \in Cmd
      /\ Has(p, x) /\ \A s \in Opening \ {x} : ~Has(p, s)
  BY Now
<1>2. todo[p] \in Seq(Step) /\ x = todo[p][1] /\ 1 \in 1..Len(todo[p])
  BY <1>1, Tailed DEF Shape, Ordered
<1>3. x \notin Opening \cup Fall \cup {"flag", "restore", "write", "look", "again", "finally", "recheck"}
  BY DEF Early, Opening, Fall, Off, Outer
<1>4. job[p].cmd # "none" /\ job[p].cmd # "stop"
  BY <1>1, <1>2, <1>3 DEF Shape, Stops, Only
<1>5. job[p].cmd # "share" /\ job[p].cmd # "connectors"
  BY <1>1, <1>3 DEF Told, Opening
<1>6. job[p].cmd # "unshare"
  <2>1. job[p].cmd = "unshare" => x \in Early
    BY <1>1, <1>2 DEF Shape, Unshares, Only, Early, Outer
  <2> QED BY <1>1, <2>1 DEF Told
<1>7. job[p].cmd = "login" => (x \in Early => Has(p, "finally"))
  <2>1. job[p].cmd = "login" /\ x \in Early => \E j \in 1 + 1..Len(todo[p]) : todo[p][j] = "finally"
    BY <1>1, <1>2 DEF Shape, Logs, Leads
  <2>2. \A j \in 1 + 1..Len(todo[p]) : j \in 1..Len(todo[p])
    BY <1>2
  <2> QED BY <2>1, <2>2 DEF Has, Left
<1>8. job[p].cmd = "start" => job[p].was /\ Has(p, "unstop")
  <2>1. job[p].cmd = "start" => Starts(todo[p])
    BY <1>1, <1>2, <1>3 DEF Shape, Restores, Only
  <2>2. Starts(todo[p]) => ~Has(p, "restore")
    BY DEF Starts, Only, Has, Left, Early
  <2>3. ~Has(p, "remember")
    BY <1>1, <1>3 DEF Opening
  <2> QED BY <2>1, <2>2, <2>3 DEF Told
<1> QED BY <1>1, <1>4, <1>5, <1>6, <1>7, <1>8 DEF Cmd

\* So it covers whatever it starts, before the step and after.
LEMMA Risen ==
  ASSUME TypeOK, Shaped, NEW p \in Proc, Told(p), stopped, NEW x \in Early, At(p, x)
  PROVE  /\ Covers(p)
         /\ Next1(p) \/ (Skip2(p) /\ x = "host") => Covers(p)'
<1>1. Has(p, "finally") \/ Has(p, "unstop")
  BY Rising
<1>2. x \notin Opening /\ x # "finally" /\ x # "unstop" /\ x # "ask"
  BY DEF Early, Opening
<1>3. Covers(p)
  BY <1>1, <1>2 DEF Covers, Clears, At
<1>4. CASE Next1(p)
  <2>1. Left(todo[p]) = Left(todo'[p]) \cup {x} /\ ~At(p, "ask")'
    BY <1>4, Onward DEF Opening
  <2> QED BY <1>1, <1>2, <1>3, <2>1 DEF Covers, Clears, Has
<1>5. CASE Skip2(p) /\ x = "host"
  <2>1. /\ Tail(todo[p]) # <<>> /\ Head(Tail(todo[p])) \in {"host-up", "host-wait"}
        /\ todo'[p] = Tail(Tail(todo[p])) /\ Shape(job[p].cmd, Tail(todo[p]))
    BY <1>5, SkipHost
  <2>2. Left(todo[p]) = Left(Tail(todo[p])) \cup {x}
    BY Now, Ends1
  <2>3. /\ Left(Tail(todo[p])) = Left(todo'[p]) \cup {Head(Tail(todo[p]))} /\ Left(todo'[p]) \cap Opening = {}
        /\ todo'[p] # <<>> => Head(todo'[p]) \in Left(todo'[p])
    BY <2>1, Ends1
  <2>4. ~At(p, "ask")'
    BY <2>3 DEF At, Busy, Opening
  <2> QED BY <1>1, <1>2, <1>3, <2>1, <2>2, <2>3, <2>4 DEF Covers, Clears, Has
<1> QED BY <1>3, <1>4, <1>5

\* If the start fails, it cleans up what it has started, or looks again.
LEMMA RaisedCovers ==
  ASSUME TypeOK, Shaped, NEW p \in Proc, Told(p), stopped, NEW x \in Early \cup {"resume"}, At(p, x), Raise(p)
  PROVE  Covers(p)'
<1>1. todo'[p] = Handler(job[p])
  BY RaisedTurn
<1>2. todo'[p] \in {CleanUp, <<"finally">>}
  BY <1>1, Rising, Plans DEF Handler
<1>3. CASE todo'[p] = CleanUp
  <2>1. Off \subseteq Left(CleanUp)
    <3>1. 1 \in 1..8 /\ Len(CleanUp) = 8 /\ CleanUp[3] = "host-off" /\ CleanUp[5] = "ui-off"
            /\ CleanUp[6] = "api-off" /\ CleanUp[7] = "db-off"
      BY DEF CleanUp
    <3> QED BY <3>1 DEF Left, Off, Outer
  <2> QED BY <1>3, <2>1 DEF Covers, Clears, Has
<1>4. CASE todo'[p] = <<"finally">>
  <2>1. "finally" \in Left(<<"finally">>)
    BY DEF Left
  <2> QED BY <1>4, <2>1 DEF Covers, Clears, Has, At
<1> QED BY <1>2, <1>3, <1>4

\* Somebody will stop s; every command knows what it has been told.
Saved(s) == \E p \in Proc : Clears(p, s)
AllTold == \A p \in Proc : Busy(p) => Told(p)

\* What is coming is waited for, by somebody who covers it.
LEMMA Guarded ==
  ASSUME Basic, Owned, AllTold, stopped
  PROVE  /\ api.st = "coming" => \E p \in Proc : At(p, "api-up") /\ Covers(p)
         /\ ui.st = "coming" => \E p \in Proc : At(p, "ui-up") /\ Covers(p)
         /\ \A h \in Host : phase[h] \in {"spawned", "bound"} => \E p \in Proc : At(p, "host-up") /\ Covers(p)
<1>1. TypeOK /\ Shaped /\ Locked
  BY DEF Basic
<1>2. \A n \in {"api", "ui", "host"} : lock[n] # None => lock[n] \in Proc
  BY <1>1 DEF TypeOK
<1>3. \A p \in Proc, x \in Early : At(p, x) => Covers(p)
  BY <1>1, Risen DEF AllTold, At
<1>4. {"api-up", "ui-up", "host-up"} \subseteq Early
  BY DEF Early
<1>5. \A n \in {"api", "ui", "host"} : lock[n] # None =>
        \E p \in Proc : /\ Covers(p)
                        /\ n = "api" => At(p, "api-up")
                        /\ n = "ui" => At(p, "ui-up")
                        /\ n = "host" => At(p, "host-up")
  BY <1>1, <1>2, <1>3, <1>4 DEF Locked
<1> QED BY <1>5 DEF Owned

\* What still runs is covered as before, or by somebody else.
LEMMA FallingOn ==
  ASSUME Falling, stopped, NEW p \in Proc,
         \A q \in Proc : q # p => todo'[q] = todo[q] /\ job'[q] = job[q],
         db' => Saved("db-off")' \/ (db /\ (Clears(p, "db-off") => Clears(p, "db-off")')),
         api'.st # "off" => Saved("api-off")' \/ (api.st # "off"
           /\ (Clears(p, "api-off") => Clears(p, "api-off")')),
         ui'.st # "off" => Saved("ui-off")' \/ (ui.st # "off" /\ (Clears(p, "ui-off") => Clears(p, "ui-off")')),
         \A h \in Host : Findable(h)' =>
           \/ Saved("host-off")'
           \/ Asks(p, h)'
           \/ Findable(h) /\ (Clears(p, "host-off") \/ Asks(p, h) => Clears(p, "host-off")')
  PROVE  Falling'
<1>1. \A q \in Proc : q # p => \A s : (Clears(q, s)' <=> Clears(q, s)) /\ (Asks(q, s)' <=> Asks(q, s))
  BY DEF Clears, Has, At, Busy, Asks
<1>2. ASSUME NEW s, \E q \in Proc : Clears(q, s), Clears(p, s) => Clears(p, s)' PROVE Saved(s)'
  BY <1>1, <1>2 DEF Saved
<1>3. ASSUME NEW h \in Host, Findable(h), Clears(p, "host-off") \/ Asks(p, h) => Clears(p, "host-off")'
      PROVE  \E q \in Proc : Clears(q, "host-off")' \/ Asks(q, h)'
  <2>1. PICK q \in Proc : Clears(q, "host-off") \/ Asks(q, h)
    BY <1>3 DEF Falling
  <2> QED BY <1>1, <1>3, <2>1
<1>4. db' => Saved("db-off")'
  BY <1>2 DEF Falling
<1>5. (api'.st # "off" => Saved("api-off")') /\ (ui'.st # "off" => Saved("ui-off")')
  BY <1>2 DEF Falling
<1>6. \A h \in Host : Findable(h)' => \E q \in Proc : Clears(q, "host-off")' \/ Asks(q, h)'
  BY <1>3 DEF Saved
<1> QED BY <1>4, <1>5, <1>6 DEF Falling, Saved

\* One process that covers every service is enough.
LEMMA CoversFalling ==
  ASSUME NEW p \in Proc, Covers(p)'
  PROVE  Falling'
BY DEF Falling, Covers, Off, Outer

\* The services are left as they are, and so is who covers them.
LEMMA FallingStill ==
  ASSUME Falling, stopped, NEW p \in Proc,
         \A q \in Proc : q # p => todo'[q] = todo[q] /\ job'[q] = job[q],
         UNCHANGED <<services, phase, exposed>>, ~At(p, "host-wait"),
         \A s \in Off : Clears(p, s) => Clears(p, s)'
  PROVE  Falling'
<1>1. \A h : ~Asks(p, h)
  BY DEF Asks
<1>2. \A s \in {"db-off", "api-off", "ui-off", "host-off"} : Clears(p, s) => Clears(p, s)'
  BY DEF Off, Outer
<1> QED BY <1>1, <1>2, FallingOn DEF services, Findable

\* A stop that finds no host to ask goes on to stop the rest.
LEMMA Skipping ==
  ASSUME TypeOK, Shaped, NEW p \in Proc, At(p, "host-off"), Skip2(p)
  PROVE  \A s \in Off \ {"host-off"} : Clears(p, s) => Clears(p, s)'
<1>1. /\ Tail(todo[p]) # <<>> /\ Head(Tail(todo[p])) \in {"host-up", "host-wait"}
      /\ todo'[p] = Tail(Tail(todo[p])) /\ Shape(job[p].cmd, Tail(todo[p]))
  BY SkipHost
<1>2. Left(todo[p]) = Left(Tail(todo[p])) \cup {"host-off"}
  BY Now, Ends1
<1>3. /\ Left(Tail(todo[p])) = Left(todo'[p]) \cup {Head(Tail(todo[p]))} /\ Left(todo'[p]) \cap Opening = {}
      /\ todo'[p] # <<>> => Head(todo'[p]) \in Left(todo'[p])
  BY <1>1, Ends1
<1>4. ~At(p, "ask")'
  BY <1>3 DEF At, Busy, Opening
<1> QED BY <1>1, <1>2, <1>3, <1>4 DEF Clears, Has, Off, Outer

\* Whatever step a command takes, what runs on a stopped installation will be stopped.
LEMMA WorkFalling ==
  ASSUME Basic, Basic', Owned, AllTold, Falling, NEW p \in Proc, Work(p), ~history'.undone
  PROVE  Falling'
<1> SUFFICES ASSUME stopped' PROVE Falling'
  BY DEF Falling
<1>1. TypeOK /\ Shaped /\ Locked /\ HostReachable
  BY DEF Basic, Inv
<1>2. /\ Busy(p) /\ Moves(p) /\ Told(p)
      /\ \A q \in Proc : q # p => todo'[q] = todo[q] /\ job'[q] = job[q]
  BY <1>1, WorkMoves DEF AllTold
<1>3. ASSUME NEW x, At(p, x), Next1(p), x \notin Off \cup {"unstop", "finally", "host-wait"}, stopped,
             UNCHANGED <<services, phase, exposed>>
      PROVE  Falling'
  <2>1. ~At(p, "host-wait") /\ \A s \in Off : Clears(p, s) => Clears(p, s)'
    BY <1>1, <1>3, Keeping DEF At
  <2> QED BY <1>2, <1>3, <2>1, FallingStill
<1>4. ASSUME NEW x, At(p, x), \A s \in Off : ~Clears(p, s), x # "host-wait", stopped, UNCHANGED <<services, phase, exposed>>
      PROVE  Falling'
  <2>1. ~At(p, "host-wait")
    BY <1>4 DEF At
  <2> QED BY <1>2, <1>4, <2>1, FallingStill
<1>5. CASE Remember(p) \/ Look(p)
  BY <1>3, <1>5 DEF Remember, Look, state, hosts, Off, Outer
<1>6. CASE Unstop(p)
  BY <1>6 DEF Unstop
<1>7. CASE Flag(p)
  <2>1. At(p, "flag") /\ Next1(p)
    BY <1>7 DEF Flag, Plain
  <2>2. /\ todo[p] \in Seq(Step) /\ todo[p][1] = "flag" /\ 1 \in 1..Len(todo[p])
        /\ \A s \in Off : Leads(todo[p], {"flag"}, s)
    <3>1. todo[p] # <<>> /\ Head(todo[p]) = "flag" /\ Shape(job[p].cmd, todo[p]) /\ job[p].cmd \in Cmd
      BY <1>1, <2>1, Now
    <3>2. \A s \in Off : Leads(todo[p], {"flag"}, s)
      BY <3>1, Whose DEF Shape, Stops, Restores
    <3> QED BY <3>1, <3>2, Tailed DEF Shape, Ordered
  <2>3. ASSUME NEW s \in Off PROVE Has(p, s)'
    <3>1. PICK j \in 1 + 1..Len(todo[p]) : todo[p][j] = s
      BY <2>2 DEF Leads
    <3>2. Has(p, s)
      BY <2>2, <3>1 DEF Has, Left
    <3>3. Left(todo[p]) = Left(todo'[p]) \cup {"flag"} /\ s # "flag"
      BY <1>1, <2>1, Onward DEF Off, Outer
    <3> QED BY <3>2, <3>3 DEF Has
  <2> QED BY <2>3, CoversFalling DEF Covers, Clears
<1>8. CASE Restore(p)
  <2>1. At(p, "restore") /\ Left(todo[p]) = {"restore"} /\ job[p].cmd = "start"
    BY <1>1, <1>8, Now, Whose, Ends1 DEF Restore, Closing
  <2>2. stopped
    BY <1>2, <2>1 DEF Told, Has
  <2>3. \A s \in Off : ~Clears(p, s)
    BY <2>1 DEF Clears, Has, Off, Outer
  <2> QED BY <1>4, <1>8, <2>1, <2>2, <2>3 DEF Restore, hosts
<1> SUFFICES ASSUME stopped, stopped' = stopped PROVE Falling'
  BY <1>5, <1>6, <1>7, <1>8 DEF Work, state, Resume, Ask, Finally, Recheck, OpenApi, Write, Again, Health,
     StartDb, CheckRuntime,
     LaunchApi, AwaitApi, LaunchUi, AwaitUi, LaunchHost, AwaitHost, StopRelays, AskHost, HostGone, HostLate, StopUi, StopApi, StopDb
<1>9. CASE Resume(p)
  <2>1. CASE Next1(p)
    BY <1>3, <1>9, <2>1 DEF Resume, hosts, Off, Outer
  <2>2. CASE Raise(p)
    BY <1>1, <1>2, <1>9, <2>2, RaisedCovers, CoversFalling DEF Resume
  <2> QED BY <1>9, <2>1, <2>2 DEF Resume, Plain, Fails
<1>10. CASE Ask(p)
  <2>1. /\ At(p, "ask") /\ todo[p] # <<>> /\ Head(todo[p]) = "ask" /\ Shape(job[p].cmd, todo[p])
             /\ job[p].cmd = "login"
    BY <1>1, <1>10, Now, Whose DEF Ask
  <2>2. todo[p] \in Seq(Step) /\ todo[p][1] = "ask" /\ 1 \in 1..Len(todo[p]) /\ Logs(todo[p])
    BY <2>1, Tailed DEF Shape, Ordered
  <2>3. "ask" \notin Off \cup {"unstop"} /\ "unstop" \notin {"ask", "finally", "recheck", "resume"}
          \cup Early \cup Fall
    BY DEF Off, Outer, Early, Fall
  <2>4. ASSUME NEW i \in 1..Len(todo[p]) PROVE todo[p][i] \notin Off \cup {"unstop"}
    <3>1. todo[p][i] # "unstop"
      BY <2>2, <2>3 DEF Logs, Only
    <3>2. i = 1 \/ 1 < i
      OBVIOUS
    <3>3. 1 < i => todo[p][i] \notin Off
      BY <2>2 DEF Logs, Bars
    <3> QED BY <2>2, <2>3, <3>1, <3>2, <3>3
  <2>5. \A s \in Off : ~Clears(p, s)
    BY <2>1, <2>4 DEF Clears, Has, Left
  <2> QED BY <1>4, <1>10, <2>1, <2>5 DEF Ask, hosts
<1>11. CASE Finally(p)
  <2>1. todo'[p] = DownAgain
    BY <1>1, <1>11, Plans DEF Finally, Turn, TypeOK
  <2>2. Off \subseteq Left(DownAgain)
    <3>1. 1 \in 1..7 /\ Len(DownAgain) = 7 /\ DownAgain[2] = "host-off" /\ DownAgain[4] = "ui-off"
            /\ DownAgain[5] = "api-off" /\ DownAgain[6] = "db-off"
      BY DEF DownAgain
    <3> QED BY <3>1 DEF Left, Off, Outer
  <2> QED BY <2>1, <2>2, CoversFalling DEF Covers, Clears, Has
<1>12. CASE Recheck(p) \/ Again(p)
  <2>1. Left(todo[p]) \in {{"recheck"}, {"again"}}
    BY <1>1, <1>12, Now, Ends1 DEF Recheck, Again, Closing
  <2>2. \A s \in Off : ~Clears(p, s)
    BY <2>1 DEF Clears, Has, Off, Outer
  <2> QED BY <1>4, <1>12, <2>2 DEF Recheck, Again, hosts
<1>13. CASE OpenApi(p)
  BY <1>1, <1>2, <1>13, Now, Whose DEF OpenApi, Told
<1>14. CASE Write(p)
  <2>1. /\ At(p, "write") /\ todo[p] # <<>> /\ Head(todo[p]) = "write" /\ Shape(job[p].cmd, todo[p])
             /\ job[p].cmd \in {"share", "unshare"}
    BY <1>1, <1>14, Now, Whose DEF Write
  <2>2. todo[p] \in Seq(Step) /\ todo[p][1] = "write" /\ 1 \in 1..Len(todo[p]) /\ Unshares(todo[p])
    BY <1>2, <2>1, Tailed DEF Shape, Ordered, Told
  <2>3. /\ {"write", "db-off", "unstop", "finally"} \cap Outer = {}
        /\ {"db-off", "unstop", "finally"} \cap ({"relays", "look", "write", "again", "host-wait"}
             \cup Early \cup Outer) = {}
    BY DEF Outer, Early
  <2>4. ASSUME NEW i \in 1..Len(todo[p]) PROVE todo[p][i] \notin Outer \cup {"db-off", "unstop", "finally"}
    <3>1. todo[p][i] \notin {"db-off", "unstop", "finally"}
      BY <2>2, <2>3 DEF Unshares, Only
    <3>2. i = 1 \/ 1 < i
      OBVIOUS
    <3>3. 1 < i => todo[p][i] \notin Outer
      BY <2>2 DEF Unshares, Bars
    <3> QED BY <2>2, <2>3, <3>1, <3>2, <3>3
  <2>5. \A s \in Off : ~Clears(p, s)
    BY <2>4 DEF Clears, Has, Left, Off
  <2> QED BY <1>4, <1>14, <2>1, <2>5 DEF Write, hosts
<1>15. CASE Health(p)
  <2>1. CASE Next1(p)
    BY <1>3, <1>15, <2>1 DEF Health, hosts, Off, Outer
  <2>2. CASE todo'[p] = AfterHealth
    <3>1. "unstop" \in Left(AfterHealth)
      <4>1. 10 \in 1..13 /\ Len(AfterHealth) = 13 /\ AfterHealth[10] = "unstop"
        BY DEF AfterHealth
      <4> QED BY <4>1 DEF Left
    <3> QED BY <2>2, <3>1, CoversFalling DEF Covers, Clears, Has
  <2> QED BY <1>1, <1>15, <2>1, <2>2, Plans DEF Health, Turn, TypeOK
<1>16. CASE StartDb(p) \/ CheckRuntime(p) \/ LaunchApi(p) \/ AwaitApi(p) \/ LaunchUi(p) \/ AwaitUi(p)
  <2>1. PICK x \in Early : At(p, x)
    BY <1>16 DEF StartDb, CheckRuntime, LaunchApi, AwaitApi, LaunchUi, AwaitUi, Early
  <2>2. Next1(p) \/ Raise(p)
    BY <1>16 DEF StartDb, CheckRuntime, LaunchApi, AwaitApi, LaunchUi, AwaitUi, Plain, Fails
  <2>3. x \in Early \cup {"resume"}
    OBVIOUS
  <2> QED BY <1>1, <1>2, <2>1, <2>2, <2>3, Risen, RaisedCovers, CoversFalling
<1>17. CASE LaunchHost(p) \/ AwaitHost(p)
  <2>1. "host" \in Early /\ "host-up" \in Early
    BY DEF Early
  <2>2. (At(p, "host") /\ (Next1(p) \/ Skip2(p))) \/ (At(p, "host-up") /\ Next1(p))
    BY <1>17 DEF LaunchHost, AwaitHost
  <2> QED BY <1>1, <1>2, <2>1, <2>2, Risen, CoversFalling
<1>18. ~(history' = [history EXCEPT !.undone = TRUE])
  BY <1>1 DEF TypeOK
<1>19. CASE StopRelays(p)
  BY <1>3, <1>18, <1>19 DEF StopRelays, Plain, Keep, hosts, Off, Outer
<1>20. CASE HostLate(p)
  BY <1>18, <1>20 DEF HostLate
<1> HIDE DEF Basic
<1>21. ASSUME ~At(p, "api-up"), ~At(p, "ui-up"), ~At(p, "host-up")
       PROVE  /\ api.st = "coming" => Saved("api-off")'
              /\ ui.st = "coming" => Saved("ui-off")'
              /\ \A h \in Host : phase[h] \in {"spawned", "bound"} => Saved("host-off")'
  <2>1. \A q \in Proc : q # p /\ Covers(q) => Saved("api-off")' /\ Saved("ui-off")' /\ Saved("host-off")'
    BY <1>2 DEF Covers, Clears, Has, At, Busy, Off, Outer, Saved
  <2> QED BY <1>21, <2>1, Guarded
<1>22. api \in Server /\ ui \in Server
  BY <1>1 DEF TypeOK
<1>23. CASE StopDb(p)
  <2>1. At(p, "db-off") /\ Next1(p) /\ db' = FALSE /\ UNCHANGED <<api, ui, phase, exposed>>
    BY <1>18, <1>23 DEF StopDb, Plain, Keep, hosts
  <2>2. ~At(p, "host-wait") /\ \A s \in {"api-off", "ui-off", "host-off"} : Clears(p, s) => Clears(p, s)'
    BY <1>1, <2>1, Keeping DEF At, Off, Outer
  <2> QED BY <1>2, <2>1, <2>2, FallingOn DEF Asks, Findable
<1>24. CASE StopUi(p)
  <2>1. At(p, "ui-off") /\ Next1(p) /\ ui' = [ui EXCEPT !.st = IF ui.st = "on" THEN "off" ELSE ui.st]
          /\ UNCHANGED <<api, db, phase, exposed>>
    BY <1>18, <1>24 DEF StopUi, Plain, Keep, hosts
  <2>2. ~At(p, "host-wait") /\ \A s \in {"api-off", "db-off", "host-off"} : Clears(p, s) => Clears(p, s)'
    BY <1>1, <2>1, Keeping DEF At, Off, Outer
  <2>3. ui'.st # "off" => ui.st = "coming"
    BY <1>22, <2>1 DEF Server
  <2>4. ui'.st # "off" => Saved("ui-off")'
    BY <1>21, <2>1, <2>3 DEF At
  <2> QED BY <1>2, <2>1, <2>2, <2>4, FallingOn DEF Asks, Findable
<1>25. CASE StopApi(p)
  <2>1. At(p, "api-off") /\ Next1(p) /\ api' = [api EXCEPT !.st = IF api.st = "on" THEN "off" ELSE api.st]
          /\ UNCHANGED <<ui, db, phase, exposed>>
    BY <1>18, <1>25 DEF StopApi, Plain, Keep, hosts
  <2>2. ~At(p, "host-wait") /\ \A s \in {"ui-off", "db-off", "host-off"} : Clears(p, s) => Clears(p, s)'
    BY <1>1, <2>1, Keeping DEF At, Off, Outer
  <2>3. api'.st # "off" => api.st = "coming"
    BY <1>22, <2>1 DEF Server
  <2>4. api'.st # "off" => Saved("api-off")'
    BY <1>21, <2>1, <2>3 DEF At
  <2> QED BY <1>2, <2>1, <2>2, <2>4, FallingOn DEF Asks, Findable
<1>26. CASE AskHost(p)
  <2>1. At(p, "host-off") /\ UNCHANGED <<api, ui, db, phase, receipt, exposed>>
    BY <1>26 DEF AskHost, services
  <2>2. \A h \in Host : phase[h] = "serving" /\ Findable(h) => receipt = h /\ h # None
    BY <1>1, ServicesAssumption DEF HostReachable, Findable
  <2>3. \A h \in Host : phase[h] \in {"spawned", "bound"} => Saved("host-off")'
    BY <1>21, <2>1 DEF At
  <2>4. \A s \in {"api-off", "ui-off", "db-off"} : Clears(p, s) => Clears(p, s)'
    BY <1>1, <1>26, <2>1, Keeping, Skipping DEF AskHost, Off, Outer
  <2>5. ASSUME NEW h \in Host, phase'[h] = "serving", Findable(h)' PROVE Asks(p, h)'
    <3>1. receipt = h /\ Next1(p) /\ job' = [job EXCEPT ![p].watch = receipt]
      BY <1>26, <2>1, <2>2, <2>5 DEF AskHost, Findable
    <3>2. At(p, "host-wait")'
      BY <1>1, <2>1, <3>1, Now, Pairs DEF At, Busy, Next1, TypeOK
    <3> QED BY <1>1, <3>1, <3>2 DEF Asks, TypeOK
  <2> QED BY <1>2, <2>1, <2>3, <2>4, <2>5, FallingOn DEF Live, Findable
<1>27. CASE HostGone(p)
  <2>1. At(p, "host-wait") /\ Next1(p) /\ receipt # job[p].watch /\ UNCHANGED <<api, ui, db, phase, receipt, exposed>>
    BY <1>27 DEF HostGone, services, hosts
  <2>2. \A s \in Off : Clears(p, s) => Clears(p, s)'
    BY <1>1, <2>1, Keeping DEF Off, Outer
  <2>3. \A h \in Host : phase[h] \in {"spawned", "bound"} => Saved("host-off")'
    BY <1>21, <2>1 DEF At
  <2>4. \A h \in Host : phase[h] = "serving" /\ Findable(h) => ~Asks(p, h)
    BY <1>1, <2>1 DEF HostReachable, Asks, Findable
  <2>5. \A s \in {"api-off", "ui-off", "db-off", "host-off"} : Clears(p, s) => Clears(p, s)'
    BY <2>2 DEF Off, Outer
  <2> QED BY <1>2, <2>1, <2>3, <2>4, <2>5, FallingOn DEF Live, Findable
<1> QED BY <1>5, <1>6, <1>7, <1>8, <1>9, <1>10, <1>11, <1>12, <1>13, <1>14, <1>15, <1>16, <1>17, <1>19,
   <1>20, <1>23, <1>24, <1>25, <1>26, <1>27 DEF Work

\* No step of a command lets others meet that could not.
LEMMA WorkUsers ==
  ASSUME TypeOK, Shaped, Users, NEW p \in Proc, Work(p)
  PROVE  Users'
<1>1. /\ Busy(p) /\ Moves(p)
      /\ \A q \in Proc : q # p => todo'[q] = todo[q] /\ job'[q] = job[q]
  BY WorkMoves
<1>2. job'[p].cmd = job[p].cmd \/ job[p].cmd = "connectors"
  <2>1. At(p, "health") => job[p].cmd = "connectors"
    BY Now, Whose
  <2> QED BY <1>1, <2>1 DEF Moves, Same, Raised, Raise, TypeOK
<1>3. \A q \in Proc : Busy(q)' => Busy(q)
  BY <1>1 DEF Busy
<1> QED BY <1>1, <1>2, <1>3 DEF Users

\* Every other step leaves alone what start remembers and what the user has said.
LEMMA WorkStill ==
  ASSUME TypeOK, NEW p \in Proc, Work(p)
  PROVE  /\ Remember(p) \/ job'[p].was = job[p].was
         /\ Unstop(p) \/ Flag(p) \/ Restore(p) \/ stopped' = stopped
<1> USE DEF TypeOK, Plain, Fails, Raise, Keep, state
<1>1. CASE Remember(p) \/ Unstop(p) \/ Flag(p) \/ Restore(p) \/ Resume(p) \/ Ask(p) \/ Finally(p) \/ Recheck(p)
  BY <1>1 DEF Remember, Unstop, Flag, Restore, Resume, Ask, Finally, Recheck
<1>2. CASE OpenApi(p) \/ Look(p) \/ Write(p) \/ Again(p)
  BY <1>2 DEF OpenApi, Look, Write, Again
<1>5. CASE Health(p)
  BY <1>5 DEF Health
<1>6. CASE StartDb(p) \/ CheckRuntime(p)
  BY <1>6 DEF StartDb, CheckRuntime
<1>3. CASE LaunchApi(p) \/ AwaitApi(p) \/ LaunchUi(p) \/ AwaitUi(p) \/ LaunchHost(p) \/ AwaitHost(p)
  BY <1>3 DEF LaunchApi, AwaitApi, LaunchUi, AwaitUi, LaunchHost, AwaitHost
<1>4. CASE StopRelays(p) \/ AskHost(p) \/ HostGone(p) \/ HostLate(p) \/ StopUi(p) \/ StopApi(p) \/ StopDb(p)
  BY <1>4 DEF StopRelays, AskHost, HostGone, HostLate, StopUi, StopApi, StopDb
<1> QED BY <1>1, <1>2, <1>3, <1>4, <1>5, <1>6 DEF Work

\* A step, or two, is taken, and the rest is left.
LEMMA Rest ==
  ASSUME TypeOK, Shaped, NEW p \in Proc, NEW x, At(p, x), Next1(p) \/ (Skip2(p) /\ x \in {"host", "host-off"})
  PROVE  \A s : /\ Has(p, s)' => Has(p, s)
                /\ Has(p, s) /\ s \notin {x, "host-up", "host-wait"} => Has(p, s)'
<1>1. CASE Next1(p)
  BY <1>1, Onward DEF Has
<1>2. CASE Skip2(p) /\ x \in {"host", "host-off"}
  <2>1. /\ Tail(todo[p]) # <<>> /\ Head(Tail(todo[p])) \in {"host-up", "host-wait"}
        /\ todo'[p] = Tail(Tail(todo[p])) /\ Shape(job[p].cmd, Tail(todo[p]))
    BY <1>2, SkipHost
  <2>2. Left(todo[p]) = Left(Tail(todo[p])) \cup {x}
    BY Now, Ends1
  <2>3. Left(Tail(todo[p])) = Left(todo'[p]) \cup {Head(Tail(todo[p]))}
    BY <2>1, Ends1
  <2> QED BY <2>1, <2>2, <2>3 DEF Has
<1> QED BY <1>1, <1>2

\* A command that is over has nothing left to do.
LEMMA NothingLeft == \A p \in Proc : \A s : Has(p, s) => Busy(p)
<1>1. Left(<<>>) = {}
  BY DEF Left
<1> QED BY <1>1 DEF Has, Busy

\* A process takes the step it is at.
LEMMA OwnStep ==
  ASSUME NEW p \in Proc, Work(p)
  PROVE  /\ At(p, "remember") => Remember(p)
         /\ At(p, "unstop") => Unstop(p)
         /\ At(p, "flag") => Flag(p)
         /\ At(p, "restore") => Restore(p)
         /\ At(p, "health") => Health(p)
         /\ At(p, "again") => Again(p)
         /\ At(p, "relays") => StopRelays(p)
         /\ At(p, "host-off") => AskHost(p)
         /\ At(p, "host-wait") => HostGone(p) \/ HostLate(p)
         /\ At(p, "ui-off") => StopUi(p)
         /\ At(p, "api-off") => StopApi(p)
         /\ At(p, "db-off") => StopDb(p)
<1>1. \A s, t : At(p, s) /\ At(p, t) => s = t
  BY DEF At
<1>2. CASE Remember(p) \/ Unstop(p) \/ Flag(p) \/ Restore(p) \/ Resume(p) \/ Ask(p) \/ Finally(p) \/ Recheck(p)
  BY <1>1, <1>2 DEF Remember, Unstop, Flag, Restore, Resume, Ask, Finally, Recheck
<1>3. CASE OpenApi(p) \/ Look(p) \/ Write(p) \/ Again(p) \/ Health(p) \/ StartDb(p) \/ CheckRuntime(p)
  BY <1>1, <1>3 DEF OpenApi, Look, Write, Again, Health, StartDb, CheckRuntime
<1>4. CASE LaunchApi(p) \/ AwaitApi(p) \/ LaunchUi(p) \/ AwaitUi(p) \/ LaunchHost(p) \/ AwaitHost(p)
  BY <1>1, <1>4 DEF LaunchApi, AwaitApi, LaunchUi, AwaitUi, LaunchHost, AwaitHost
<1>5. CASE StopRelays(p) \/ AskHost(p) \/ HostGone(p) \/ HostLate(p) \/ StopUi(p) \/ StopApi(p) \/ StopDb(p)
  BY <1>1, <1>5 DEF StopRelays, AskHost, HostGone, HostLate, StopUi, StopApi, StopDb
<1> QED BY <1>2, <1>3, <1>4, <1>5 DEF Work

\* A start, on its own or out of connectors, goes on knowing what it knows.
LEMMA StartTold ==
  ASSUME TypeOK, Shaped, NEW p \in Proc, Work(p), Told(p), job'[p].cmd = "start", Busy(p)', job[p].cmd = "start"
  PROVE  Told(p)'
<1>1. /\ Busy(p) /\ Moves(p) /\ todo[p] # <<>> /\ Shape("start", todo[p])
  BY WorkMoves DEF Shaped, Busy
<1>2. /\ ~Has(p, "unstop") /\ ~Has(p, "restore") => ~stopped
      /\ ~Has(p, "remember") /\ (stopped \/ Has(p, "restore")) => job[p].was
      /\ Has(p, "restore") /\ ~Has(p, "flag") => stopped
  BY DEF Told
<1> SUFFICES /\ ~Has(p, "unstop")' /\ ~Has(p, "restore")' => ~stopped'
             /\ ~Has(p, "remember")' /\ (stopped' \/ Has(p, "restore")') => job'[p].was
             /\ Has(p, "restore")' /\ ~Has(p, "flag")' => stopped'
  BY DEF Told
<1>3. Starts(todo[p]) => ~Has(p, "restore")
  BY DEF Starts, Only, Has, Left, Early
<1>4. CASE Remember(p)
  <2>1. At(p, "remember") /\ Next1(p) /\ stopped' = stopped /\ job'[p].was = stopped
    BY <1>4 DEF Remember, state, TypeOK
  <2>2. ~Has(p, "restore")
    BY <1>1, <1>3, <2>1, Whose DEF At, Cmd
  <2> QED BY <1>2, <2>1, <2>2, Rest
<1>5. CASE Unstop(p)
  <2>1. At(p, "unstop") /\ Next1(p) /\ ~stopped' /\ job'[p].was = job[p].was
    BY <1>5 DEF Unstop, Plain
  <2>2. ~Has(p, "restore")
    BY <1>1, <1>3, <2>1, Whose DEF At, Cmd
  <2> QED BY <2>1, <2>2, Rest
<1>6. CASE Flag(p)
  <2>1. At(p, "flag") /\ Next1(p) /\ stopped' /\ job'[p].was = job[p].was
    BY <1>6 DEF Flag, Plain
  <2>2. Restores(todo[p]) /\ todo[p] \in Seq(Step) /\ todo[p][1] = "flag" /\ 1 \in 1..Len(todo[p])
    BY <1>1, <2>1, Whose, Tailed DEF At, Cmd, Shape, Ordered
  <2>3. Has(p, "restore")
    <3>1. PICK j \in 1 + 1..Len(todo[p]) : todo[p][j] = "restore"
      BY <2>2 DEF Restores, Leads
    <3> QED BY <2>2, <3>1 DEF Has, Left
  <2>4. ~Has(p, "remember")
    BY <2>2 DEF Restores, Only, Has, Left, Fall, Off, Outer
  <2> QED BY <1>2, <2>1, <2>3, <2>4, Rest
<1>7. CASE Restore(p)
  BY <1>7, Onward DEF Restore, Plain, Closing, Busy
<1>8. CASE Raise(p) /\ ~Remember(p) /\ stopped' = stopped
  <2>1. job'[p].was = job[p].was /\ todo'[p] = Handler(job[p])
    BY <1>8, RaisedTurn, WorkStill
  <2>2. job[p].was /\ todo'[p] = CleanUp
    BY <2>1, Plans DEF Handler, Busy
  <2>3. "restore" \in Left(CleanUp) /\ "flag" \in Left(CleanUp)
    <3>1. 1 \in 1..8 /\ Len(CleanUp) = 8 /\ CleanUp[1] = "flag" /\ CleanUp[8] = "restore"
      BY DEF CleanUp
    <3> QED BY <3>1 DEF Left
  <2> QED BY <2>1, <2>2, <2>3 DEF Has
<1>9. CASE ~Remember(p) /\ ~Unstop(p) /\ ~Flag(p) /\ ~Restore(p)
  <2>1. job'[p].was = job[p].was /\ stopped' = stopped
    BY <1>9, WorkStill
  <2>2. PICK x : At(p, x)
    BY <1>1 DEF At
  <2>3. x \notin {"remember", "unstop", "flag", "restore"}
    BY <1>9, <2>2, OwnStep
  <2>4. Raise(p) \/ Next1(p) \/ (Skip2(p) /\ x \in {"host", "host-off"})
    <3>1. x \notin {"finally", "recheck", "share", "again", "health"}
      BY <1>1, <2>2, Whose DEF At, Cmd
    <3>2. todo'[p] # <<>>
      BY DEF Busy
    <3> QED BY <1>1, <2>2, <3>1, <3>2 DEF Moves, Raised, At, Turn, TypeOK
  <2>5. CASE Next1(p) \/ (Skip2(p) /\ x \in {"host", "host-off"})
    BY <1>2, <2>1, <2>2, <2>3, <2>5, Rest
  <2> QED BY <1>8, <1>9, <2>1, <2>4, <2>5
<1> QED BY <1>4, <1>5, <1>6, <1>7, <1>9

\* A step leaves every command with what it knows: where the flag changes, the other commands are
\* stops and login tasks, which rely on no answer they have had.
LEMMA WorkTold ==
  ASSUME Basic, Users, AllTold, Falling, NEW p \in Proc, Work(p)
  PROVE  AllTold'
<1>1. TypeOK /\ Shaped
  BY DEF Basic
<1>2. /\ Busy(p) /\ Moves(p) /\ Told(p)
      /\ \A q \in Proc : q # p => todo'[q] = todo[q] /\ job'[q] = job[q]
  BY <1>1, WorkMoves DEF AllTold
<1>3. \A q \in Proc : q # p /\ Busy(q)' => job'[q].cmd \in {"stop", "login"}
  BY <1>2 DEF Users, Busy
<1>4. \A q \in Proc : q # p /\ Busy(q)' => Told(q)'
  BY <1>3 DEF Told
<1>5. PICK x : At(p, x)
  BY <1>2 DEF At
<1>6. /\ todo[p] # <<>> /\ Head(todo[p]) = x /\ Shape(job[p].cmd, todo[p]) /\ job[p].cmd \in Cmd
      /\ Has(p, x) /\ (\A s \in Opening \ {x} : ~Has(p, s)) /\ \A s : At(p, s) => s = x
  BY <1>1, <1>5, Now
<1>7. Flag(p) \/ Restore(p) => job[p].cmd \in {"start", "stop"}
  BY <1>6, Whose DEF Flag, Restore
<1>8. stopped' => stopped \/ Flag(p) \/ Restore(p)
  BY <1>1, WorkStill DEF Unstop
<1>9. job'[p].cmd = job[p].cmd \/ (At(p, "health") /\ job[p].cmd = "connectors" /\ job'[p].cmd = "start"
        /\ todo'[p] = AfterHealth)
  BY <1>1, <1>2, <1>6, Whose DEF Moves, Same, Raised, Raise, Turn, TypeOK
<1>10. CASE todo'[p] = AfterHealth /\ job'[p].cmd = "start"
  <2>1. "unstop" \in Left(AfterHealth) /\ "remember" \in Left(AfterHealth)
    <3>1. 10 \in 1..13 /\ 1 \in 1..13 /\ Len(AfterHealth) = 13 /\ AfterHealth[10] = "unstop"
            /\ AfterHealth[1] = "remember"
      BY DEF AfterHealth
    <3> QED BY <3>1 DEF Left
  <2>2. "restore" \notin Left(AfterHealth)
    BY DEF AfterHealth, Left
  <2> QED BY <1>4, <1>10, <2>1, <2>2 DEF AllTold, Told, Has
<1>11. CASE job'[p].cmd = job[p].cmd
  <2>1. CASE job[p].cmd = "start"
    BY <1>1, <1>2, <1>4, <1>11, <2>1, StartTold DEF AllTold
  <2>2. CASE job[p].cmd \in {"none", "stop", "login"}
    BY <1>4, <1>11, <2>2 DEF AllTold, Told
  <2>3. CASE job[p].cmd = "share"
    BY <1>2, <1>4, <1>7, <1>8, <1>11, <2>3 DEF AllTold, Told
  <2>4. CASE job[p].cmd = "connectors"
    <3>1. CASE At(p, "health")
      <4>1. api.st = "on"
        <5>1. Health(p)
          BY <3>1, OwnStep
        <5> QED BY <1>1, <1>11, <2>4, <5>1 DEF Health, TypeOK
      <4>2. \A s : Has(p, s) => s \in {"health", "host", "host-up"}
        BY <1>6, <2>4 DEF Shape, Only, Has, Left
      <4>3. ~Clears(p, "api-off")
        BY <4>2 DEF Clears
      <4>4. \A q \in Proc : Clears(q, "api-off") => Busy(q)
        BY NothingLeft DEF Clears
      <4>5. ~stopped
        BY <1>2, <2>4, <4>1, <4>3, <4>4 DEF Falling, Users
      <4> QED BY <1>4, <1>7, <1>8, <1>11, <2>4, <4>5 DEF AllTold, Told
    <3>2. CASE ~At(p, "health")
      <4>1. ~stopped
        BY <1>2, <1>5, <1>6, <2>4, <3>2 DEF Told, Opening
      <4> QED BY <1>4, <1>7, <1>8, <1>11, <2>4, <4>1 DEF AllTold, Told
    <3> QED BY <3>1, <3>2
  <2>5. CASE job[p].cmd = "unshare"
    <3>1. ASSUME NEW s \in Early, Has(p, s)', stopped PROVE FALSE
      <4>1. todo'[p] # <<>>
        BY <3>1, NothingLeft DEF Has, Left
      <4>2. x \notin {"finally", "recheck", "share", "health"}
        BY <1>6, <2>5, Whose
      <4>3. CASE Next1(p) \/ (Skip2(p) /\ x \in {"host", "host-off"})
        <5>1. Has(p, s)
          BY <1>1, <1>5, <3>1, <4>3, Rest
        <5> QED BY <1>2, <2>5, <3>1, <5>1 DEF Told
      <4>4. CASE Raise(p)
        BY <1>1, <2>5, <4>1, <4>4, RaisedTurn DEF Handler
      <4>5. CASE At(p, "again")
        <5>1. Again(p)
          BY <4>5, OwnStep
        <5> QED BY <1>1, <3>1, <4>1, <5>1 DEF Again, Turn, TypeOK
      <4> QED BY <1>1, <1>2, <1>5, <1>6, <4>1, <4>2, <4>3, <4>4, <4>5 DEF Moves, Raised, Turn, TypeOK
    <3> QED BY <1>4, <1>7, <1>8, <1>11, <2>5, <3>1 DEF AllTold, Told
  <2> QED BY <1>6, <2>1, <2>2, <2>3, <2>4, <2>5 DEF Cmd
<1> QED BY <1>9, <1>10, <1>11

\* Where a service loses its owner, or gets another, that is noted.
LEMMA OwningStep == Basic /\ Owning /\ [Next]_vars => Owning'
<1> SUFFICES ASSUME Basic, Owning, [Next]_vars PROVE Owning'
  OBVIOUS
<1>1. TypeOK /\ Shaped /\ Locked /\ Inv /\ OnePort
  BY DEF Basic, Inv
<1>2. CASE \E p \in Proc : Work(p)
  BY <1>1, <1>2, WorkHistory, WorkOwned DEF Owning
<1>3. ASSUME NEW p \in Proc, NEW c \in Asked, Begin(p, c) PROVE Owning'
  <2>1. /\ UNCHANGED <<api, ui, phase, lock>> /\ ~Busy(p)
        /\ \A q \in Proc : q # p => job'[q] = job[q]
    BY <1>1, <1>3 DEF Begin, TypeOK, services, hosts
  <2>2. lock["host"] # None => lock["host"] \in Proc /\ lock["host"] # p
    BY <1>1, <2>1 DEF Locked, At, TypeOK
  <2>3. CASE Owned
    BY <2>1, <2>2, <2>3 DEF Owning, Owned
  <2>4. CASE Clean(p, c)
    <3>1. api.st # "coming" /\ ui.st # "coming" /\ \A h \in Host : phase[h] \notin {"spawned", "bound"}
      BY <2>4 DEF Clean, Coming
    <3> QED BY <1>1, <2>1, <3>1 DEF Owning, Owned, OnePort, Live, Listening
  <2> QED BY <1>1, <1>3, <2>3, <2>4, BeginHistory DEF Owning
<1>4. CASE \E p \in Proc : Kill(p)
  BY <1>4 DEF Kill, Owning
<1>5. CASE Alone
  BY <1>1, <1>5, AloneKeeps, AloneOwned DEF Owning
<1>6. CASE Reboot
  BY <1>1, <1>6, RebootLocked DEF Owning
<1> QED BY <1>2, <1>3, <1>4, <1>5, <1>6, Cases

\* The invariant of StopHolds.
StopInv == ~history.undone => Users /\ AllTold /\ Falling

LEMMA BusyCmd == TypeOK /\ Shaped => \A p \in Proc : Busy(p) => job[p].cmd \in Cmd \ {"none"}
BY JobCmd DEF Shaped, Shape, Busy

\* A command begins: what it relies on is so, and a stop that begins alone covers
\* whatever runs.
LEMMA BeginStop ==
  ASSUME Basic, StopInv, NEW p \in Proc, NEW c \in Asked, Begin(p, c)
  PROVE  StopInv'
<1> SUFFICES ASSUME ~history'.undone PROVE Users' /\ AllTold' /\ Falling'
  BY DEF StopInv
<1>1. TypeOK /\ Shaped
  BY DEF Basic
<1>2. /\ UNCHANGED <<state, services, hosts>> /\ ~Busy(p) /\ todo'[p] = Plan(c) /\ job'[p].cmd = c
      /\ \A q \in Proc : q # p => todo'[q] = todo[q] /\ job'[q] = job[q]
  BY <1>1 DEF Begin, TypeOK
<1>3. c \in Cmd \ {"none"}
  BY ServicesAssumption DEF Cmd
<1>4. \/ Clean(p, c)
      \/ /\ ~history.undone /\ ~(c = "share" /\ stopped)
         /\ \A q \in Proc : Busy(q) => {c, job[q].cmd} \cap {"start", "share", "unshare", "connectors"} = {}
  BY <1>1, BeginHistory
<1>5. \A q \in Proc : q # p /\ Busy(q)' => c \in {"stop", "login"} /\ job'[q].cmd \in {"stop", "login"}
  BY <1>1, <1>2, <1>3, <1>4, BusyCmd DEF Busy, Clean, Cmd
<1>6. Users'
  <2>1. ~Clean(p, c) => Users
    BY <1>4 DEF StopInv
  <2> QED BY <1>2, <1>5 DEF Users
<1>7. AllTold'
  <2>1. \A q \in Proc : q # p /\ Busy(q)' => Told(q)'
    BY <1>5 DEF Told
  <2>2. c = "share" => ~stopped'
    BY <1>2, <1>4 DEF Clean, state
  <2>3. c = "connectors" => Has(p, "health")'
    <3>1. "health" \in Left(<<"health", "host", "host-up">>)
      <4>1. 1 \in 1..Len(<<"health", "host", "host-up">>) /\ <<"health", "host", "host-up">>[1] = "health"
        OBVIOUS
      <4> QED BY <4>1 DEF Left
    <3> QED BY <1>2, <3>1 DEF Has, Plan
  <2>4. c = "unshare" => \A s \in Early : ~Has(p, s)'
    <3>1. \A s \in Early : s \notin Left(UnshareSteps)
      BY DEF Left, UnshareSteps, Early
    <3> QED BY <1>2, <3>1, Plans DEF Has, Plan
  <2>5. c = "start" => Has(p, "unstop")' /\ Has(p, "remember")' /\ ~Has(p, "restore")'
    <3>1. "unstop" \in Left(StartSteps) /\ "remember" \in Left(StartSteps)
      <4>1. 1 \in 1..11 /\ 10 \in 1..11 /\ Len(StartSteps) = 11 /\ StartSteps[1] = "remember"
              /\ StartSteps[10] = "unstop"
        BY DEF StartSteps
      <4> QED BY <4>1 DEF Left
    <3>2. "restore" \notin Left(StartSteps)
      BY DEF Left, StartSteps
    <3> QED BY <1>2, <3>1, <3>2, Plans DEF Has, Plan
  <2>6. Told(p)'
    BY <1>2, <2>2, <2>3, <2>4, <2>5 DEF Told
  <2> QED BY <2>1, <2>6 DEF AllTold
<1>8. Falling'
  <2>1. CASE Clean(p, c)
    <3>1. Off \subseteq Left(StopSteps)
      <4>1. 1 \in 1..7 /\ Len(StopSteps) = 7 /\ StopSteps[3] = "host-off" /\ StopSteps[5] = "ui-off"
              /\ StopSteps[6] = "api-off" /\ StopSteps[7] = "db-off"
        BY DEF StopSteps
      <4> QED BY <4>1 DEF Left, Off, Outer
    <3>2. todo'[p] = StopSteps
      BY <1>2, <2>1, Plans DEF Clean, Plan
    <3> QED BY <3>1, <3>2, CoversFalling DEF Covers, Clears, Has
  <2>2. CASE ~Clean(p, c)
    <3>1. Falling /\ stopped' = stopped
      BY <1>2, <1>4, <2>2 DEF StopInv, state
    <3>2. \A s : ~Clears(p, s) /\ ~At(p, s)
      BY <1>2, NothingLeft DEF Clears, At
    <3>3. stopped => Falling'
      BY <1>2, <3>1, <3>2, FallingStill DEF hosts
    <3> QED BY <3>1, <3>3 DEF Falling
  <2> QED BY <2>1, <2>2
<1> QED BY <1>6, <1>7, <1>8

LEMMA StopStep == Basic /\ Owning /\ StopInv /\ [Next]_vars => StopInv'
<1> SUFFICES ASSUME Basic, Owning, StopInv, [Next]_vars PROVE StopInv'
  OBVIOUS
<1>1. TypeOK /\ Shaped /\ Basic'
  BY BasicStep DEF Basic
<1>2. ASSUME NEW p \in Proc, Work(p), ~history'.undone PROVE Users' /\ AllTold' /\ Falling'
  <2>1. ~history.undone /\ Users /\ AllTold /\ Falling /\ Owned
    BY <1>1, <1>2, WorkHistory DEF StopInv, Owning
  <2> QED BY <1>1, <1>2, <2>1, WorkUsers, WorkTold, WorkFalling
<1>3. CASE \E p \in Proc : Work(p)
  BY <1>2, <1>3 DEF StopInv
<1>4. CASE \E p \in Proc, c \in Asked : Begin(p, c)
  BY <1>4, BeginStop
<1>5. CASE \E p \in Proc : Kill(p)
  BY <1>5 DEF Kill, StopInv
<1>6. CASE Alone
  <2>1. UNCHANGED <<todo, job, lock, state, db, history>>
    BY <1>6, AloneKeeps
  <2>2. (api'.st # "off" => api.st # "off") /\ (ui'.st # "off" => ui.st # "off")
    BY <1>1, <1>6 DEF Alone, HostStep, Bind, Serve, Shut, Closed, Unlink, Ended, ApiUp, UiUp, Dies, vars, services, TypeOK,
       Server
  <2>3. \A h \in Host : Findable(h)' => Findable(h)
    BY <1>1, <1>6 DEF Alone, HostStep, Bind, Serve, Shut, Closed, Unlink, Ended, ApiUp, UiUp, Dies, vars, hosts, TypeOK, Live, Findable
  <2>4. \A p \in Proc : \A s : (Clears(p, s)' <=> Clears(p, s)) /\ (Asks(p, s)' <=> Asks(p, s))
    BY <2>1 DEF Clears, Asks, Has, At, Busy
  <2>5. Falling => Falling'
    BY <2>1, <2>2, <2>3, <2>4 DEF Falling, state
  <2>6. (Users => Users') /\ (AllTold => AllTold')
    BY <2>1 DEF Users, AllTold, Told, Has, Busy, state
  <2> QED BY <2>1, <2>5, <2>6 DEF StopInv
<1>7. CASE Reboot
  <2>1. (\A p \in Proc : todo'[p] = <<>>) /\ ~db' /\ api'.st = "off" /\ ui'.st = "off"
          /\ \A h \in Host : phase'[h] = "absent"
    BY <1>1, <1>7 DEF Reboot, TypeOK, Server
  <2> QED BY <2>1 DEF StopInv, Users, AllTold, Falling, Busy, Live, Findable
<1> QED BY <1>3, <1>4, <1>5, <1>6, <1>7, Cases

LEMMA StopInit == Init => Owning /\ StopInv
<1> SUFFICES ASSUME Init PROVE Owning /\ StopInv
  OBVIOUS
<1>1. Owned
  BY DEF Init, Owned, Live, Findable
<1>2. Users /\ AllTold /\ Falling
  BY DEF Init, Users, AllTold, Falling, Busy, Live, Findable
<1> QED BY <1>1, <1>2 DEF Owning, StopInv

\* The variables are of their types.
THEOREM TypeCorrect == Spec => []TypeOK
<1>1. Basic => TypeOK
  BY DEF Basic
<1> QED BY InitBasic, BasicStep, <1>1, PTL DEF Spec

\* However many stops and login tasks overlap, and whichever of their steps fail, nothing runs on
\* a stopped installation once all commands are over: a start that the flag has overtaken stops
\* what it has started, and a login task looks at the flag again.
THEOREM StopHoldsAlways == Spec => []StopHolds
<1> DEFINE SInv == Basic /\ Owning /\ StopInv
<1>1. Init => SInv
  BY InitBasic, StopInit
<1>2. SInv /\ [Next]_vars => SInv'
  BY BasicStep, OwningStep, StopStep
<1>3. SInv => StopHolds
  <2> SUFFICES ASSUME SInv, Quiet, stopped, ~history.undone
               PROVE  ~db /\ api.st = "off" /\ ui.st = "off"
                        /\ \A h \in Host : phase[h] \in Live => phase[h] = "serving" /\ h \in exposed
    BY DEF StopHolds, Live
  <2>1. \A p \in Proc : \A s : ~Clears(p, s) /\ ~Asks(p, s)
    BY NothingLeft DEF Quiet, Clears, Asks, At
  <2>2. ~db /\ api.st = "off" /\ ui.st = "off" /\ \A h \in Host : ~Findable(h)
    BY <2>1 DEF StopInv, Falling
  <2> QED BY <2>2 DEF Findable
<1> QED BY <1>1, <1>2, <1>3, PTL DEF Spec

-----------------------------------------------------------------------------
(* Keys and addresses agree.                                                                     *)

\* A share or an unshare is alone.
Single == \A p, q \in Proc : p # q /\ Busy(p) /\ Busy(q) => job[p].cmd \notin {"share", "unshare"}

\* What runs has the settings of the profile.
Current == /\ api.st # "off" => api.key = key
           /\ ui.st # "off" => ui.key = key
           /\ \A h \in Host : Findable(h) /\ phase[h] \in Listening => hostKey[h] = key

\* Before it writes new settings, a command stops whatever runs, or finds an error.
Silences(p) ==
  Has(p, "write") /\ ~job[p].errors =>
    /\ api.st # "off" => Has(p, "api-off")
    /\ ui.st # "off" => Has(p, "ui-off")
    /\ \A h \in Host : Findable(h) => Has(p, "host-off") \/ Asks(p, h)
Silenced == \A p \in Proc : Silences(p)

\* The invariant of KeysAgree.
KeyInv == ~history.mixed => Single /\ Current /\ Silenced

\* Who has settings to write is a share or an unshare.
LEMMA Writer ==
  ASSUME NEW c \in Cmd, NEW seq, Shape(c, seq), "write" \in Left(seq)
  PROVE  seq # <<>> /\ c \in {"share", "unshare"}
<1>1. seq # <<>>
  <2>1. Left(<<>>) = {}
    BY DEF Left
  <2> QED BY <2>1
<1>2. "write" \notin {"flag", "restore", "remember", "unstop", "resume", "ask", "finally", "recheck"}
        \cup Early \cup Fall
  BY DEF Early, Fall, Off, Outer
<1>3. c # "none" /\ c # "stop" /\ c # "connectors"
  BY <1>1, <1>2 DEF Shape, Stops, Only, Left
<1>4. c # "start" /\ c # "login"
  BY <1>2 DEF Shape, Starts, Restores, Logs, Only, Left
<1> QED BY <1>1, <1>3, <1>4 DEF Cmd

\* Once it writes, or starts something, it neither stops a service nor writes.
LEMMA Written ==
  ASSUME NEW c \in {"share", "unshare"}, NEW seq, Shape(c, seq), seq # <<>>, Head(seq) \in {"write"} \cup Early
  PROVE  Left(Tail(seq)) \cap ({"write"} \cup Outer) = {} /\ Left(seq) \cap Outer = {}
<1>1. seq \in Seq(Step) /\ Bars(seq, {"write"} \cup Early, {"write"} \cup Outer)
  BY DEF Shape, Ordered, Shares, Unshares
<1>2. /\ Len(seq) \in Nat \ {0} /\ Tail(seq) \in Seq(Step) /\ Len(Tail(seq)) = Len(seq) - 1
           /\ Head(seq) = seq[1]
      /\ \A i \in 1..Len(Tail(seq)) : Tail(seq)[i] = seq[i + 1]
  BY <1>1, Tailed
<1>3. ASSUME NEW i \in 1..Len(Tail(seq)) PROVE Tail(seq)[i] \notin {"write"} \cup Outer
  <2>1. 1 \in 1..Len(seq) /\ i + 1 \in 1..Len(seq) /\ 1 < i + 1 /\ Tail(seq)[i] = seq[i + 1]
    BY <1>2
  <2> QED BY <1>1, <1>2, <2>1 DEF Bars
<1>4. Left(Tail(seq)) \cap ({"write"} \cup Outer) = {}
  BY <1>3 DEF Left
<1>5. ({"write"} \cup Early) \cap Outer = {}
  BY DEF Early, Outer
<1>6. Left(seq) = Left(Tail(seq)) \cup {Head(seq)}
  BY <1>1, TailLeft
<1> QED BY <1>4, <1>5, <1>6

\* Nothing is coming while nobody waits for it.
LEMMA Calm ==
  ASSUME Basic, Owned, NEW p \in Proc, \A q \in Proc : q # p => ~Busy(q),
         ~At(p, "api-up"), ~At(p, "ui-up"), ~At(p, "host-up")
  PROVE  api.st # "coming" /\ ui.st # "coming" /\ \A h \in Host : phase[h] \notin {"spawned", "bound"}
<1>1. \A n \in {"api", "ui", "host"} : lock[n] \in Proc \cup {None}
  BY DEF Basic, TypeOK
<1>2. \A n \in {"api", "ui", "host"} : lock[n] = None
  BY <1>1 DEF Basic, Locked, At
<1> QED BY <1>2 DEF Owned

\* A step makes no command a share or an unshare.
LEMMA WorkSingle ==
  ASSUME TypeOK, Shaped, Single, NEW p \in Proc, Work(p)
  PROVE  Single'
<1>1. /\ Busy(p) /\ Moves(p)
      /\ \A q \in Proc : q # p => todo'[q] = todo[q] /\ job'[q] = job[q]
  BY WorkMoves
<1>2. job'[p].cmd = job[p].cmd \/ job'[p].cmd = "start"
  BY <1>1 DEF Moves, Same, Raised, Raise, TypeOK
<1>3. \A q \in Proc : Busy(q)' => Busy(q)
  BY <1>1 DEF Busy
<1> QED BY <1>1, <1>2, <1>3 DEF Single

\* What is written, is written while nothing runs.
LEMMA WriteSilent ==
  ASSUME TypeOK, Shaped, Silenced, NEW p \in Proc, At(p, "write"), ~job[p].errors
  PROVE  api.st = "off" /\ ui.st = "off" /\ \A h \in Host : ~Findable(h)
<1>1. /\ todo[p] # <<>> /\ Head(todo[p]) = "write" /\ Shape(job[p].cmd, todo[p])
           /\ job[p].cmd \in {"share", "unshare"}
      /\ Has(p, "write")
  BY Now, Whose
<1>2. Left(todo[p]) \cap Outer = {}
  BY <1>1, Written
<1> QED BY <1>1, <1>2 DEF Silenced, Silences, Has, Outer, Asks, At

\* A service is given the settings of the profile when it is launched, or when it loads them, and
\* the settings change only while none runs.
LEMMA WorkCurrent ==
  ASSUME TypeOK, Shaped, Current, Silenced, NEW p \in Proc, Work(p)
  PROVE  Current'
<1>1. api \in Server /\ ui \in Server /\ phase \in [Host -> Phase]
  BY DEF TypeOK, Phase
<1>2. ASSUME UNCHANGED <<api, ui, key, phase, hostKey, exposed>> PROVE Current'
  BY <1>2 DEF Current, Findable
<1>3. CASE Write(p)
  <2>1. CASE job[p].errors
    BY <1>2, <1>3, <2>1 DEF Write, services, hosts
  <2>2. CASE ~job[p].errors
    <3>1. api.st = "off" /\ ui.st = "off" /\ \A h \in Host : ~Findable(h)
      BY <1>3, <2>2, WriteSilent DEF Write
    <3> QED BY <1>3, <3>1 DEF Write, Current, services, hosts, Listening, Live, Findable
  <2> QED BY <2>1, <2>2
<1>4. CASE Remember(p) \/ Unstop(p) \/ Flag(p) \/ Restore(p) \/ Resume(p) \/ Ask(p) \/ Finally(p) \/ Recheck(p)
  BY <1>2, <1>4 DEF Remember, Unstop, Flag, Restore, Resume, Ask, Finally, Recheck, state, services, hosts
<1>5. CASE OpenApi(p) \/ Look(p) \/ Again(p) \/ Health(p) \/ StartDb(p) \/ CheckRuntime(p)
  BY <1>2, <1>5 DEF OpenApi, Look, Again, Health, StartDb, CheckRuntime, state, services, hosts
<1>6. CASE StopRelays(p) \/ AskHost(p) \/ HostGone(p) \/ HostLate(p) \/ StopDb(p)
  BY <1>2, <1>6 DEF StopRelays, AskHost, HostGone, HostLate, StopDb, state, services, hosts
<1>7. CASE LaunchApi(p) \/ AwaitApi(p) \/ StopApi(p)
  <2>1. UNCHANGED <<ui, key, phase, hostKey, exposed>>
    BY <1>7 DEF LaunchApi, AwaitApi, StopApi, state, hosts
  <2>2. \/ api' = api \/ api' = [st |-> "coming", key |-> key]
        \/ api' = [api EXCEPT !.st = "off"]
        \/ api' = [api EXCEPT !.st = IF api.st = "on" THEN "off" ELSE api.st]
    BY <1>7 DEF LaunchApi, AwaitApi, StopApi, StopLauncher
  <2>3. api'.st # "off" => api'.key = key
    BY <1>1, <2>2 DEF Current, Server
  <2> QED BY <2>1, <2>3 DEF Current, Findable
<1>8. CASE LaunchUi(p) \/ AwaitUi(p) \/ StopUi(p)
  <2>1. UNCHANGED <<api, key, phase, hostKey, exposed>>
    BY <1>8 DEF LaunchUi, AwaitUi, StopUi, state, hosts
  <2>2. \/ ui' = ui \/ ui' = [st |-> "coming", key |-> key]
        \/ ui' = [ui EXCEPT !.st = "off"]
        \/ ui' = [ui EXCEPT !.st = IF ui.st = "on" THEN "off" ELSE ui.st]
    BY <1>8 DEF LaunchUi, AwaitUi, StopUi
  <2>3. ui'.st # "off" => ui'.key = key
    BY <1>1, <2>2 DEF Current, Server
  <2> QED BY <2>1, <2>3 DEF Current, Findable
<1>9. CASE LaunchHost(p) \/ AwaitHost(p)
  <2>1. UNCHANGED <<api, ui, key>>
    BY <1>9 DEF LaunchHost, AwaitHost, state, services
  <2>2. \A h \in Host : phase'[h] \in Listening =>
          phase'[h] = phase[h] /\ hostKey'[h] = hostKey[h] /\ (h \in exposed => h \in exposed')
    BY <1>1, <1>9 DEF LaunchHost, AwaitHost, Ended, Listening, TypeOK
  <2> QED BY <2>1, <2>2 DEF Current, Findable
<1> QED BY <1>3, <1>4, <1>5, <1>6, <1>7, <1>8, <1>9 DEF Work

\* An error is kept until unshare looks, which is before it stops anything.
LEMMA Errors ==
  ASSUME TypeOK, NEW p \in Proc, Work(p), ~At(p, "look")
  PROVE  job'[p].errors = job[p].errors \/ job'[p].errors = TRUE
<1> USE DEF TypeOK, Plain, Fails, Raise, Keep
<1>1. CASE Remember(p) \/ Unstop(p) \/ Flag(p) \/ Restore(p) \/ Resume(p) \/ Ask(p) \/ Finally(p) \/ Recheck(p)
  BY <1>1 DEF Remember, Unstop, Flag, Restore, Resume, Ask, Finally, Recheck
<1>2. CASE OpenApi(p) \/ Look(p) \/ Write(p) \/ Again(p)
  BY <1>2 DEF OpenApi, Look, Write, Again
<1>3. CASE Health(p)
  BY <1>3 DEF Health
<1>4. CASE StartDb(p) \/ CheckRuntime(p)
  BY <1>4 DEF StartDb, CheckRuntime
<1>5. CASE LaunchApi(p) \/ AwaitApi(p)
  BY <1>5 DEF LaunchApi, AwaitApi
<1>6. CASE LaunchUi(p) \/ AwaitUi(p)
  BY <1>6 DEF LaunchUi, AwaitUi
<1>7. CASE LaunchHost(p) \/ AwaitHost(p)
  BY <1>7 DEF LaunchHost, AwaitHost
<1>8. CASE StopRelays(p) \/ AskHost(p) \/ HostGone(p)
  BY <1>8 DEF StopRelays, AskHost, HostGone
<1>9. CASE HostLate(p)
  BY <1>9 DEF HostLate
<1>10. CASE StopUi(p) \/ StopApi(p) \/ StopDb(p)
  BY <1>10 DEF StopUi, StopApi, StopDb
<1> QED BY <1>1, <1>2, <1>3, <1>4, <1>5, <1>6, <1>7, <1>8, <1>9, <1>10 DEF Work

\* A step that neither starts nor stops a service leaves them all alone.
LEMMA Untouched ==
  ASSUME NEW p \in Proc, Work(p), NEW x, At(p, x), x \notin Early \cup Fall
  PROVE  UNCHANGED <<services, phase, receipt, exposed>>
<1> USE DEF At, Early, Fall, Off, Outer, services, hosts
<1>1. CASE Remember(p) \/ Unstop(p) \/ Flag(p) \/ Restore(p) \/ Resume(p) \/ Ask(p) \/ Finally(p) \/ Recheck(p)
  BY <1>1 DEF Remember, Unstop, Flag, Restore, Resume, Ask, Finally, Recheck
<1>2. CASE OpenApi(p) \/ Look(p) \/ Write(p) \/ Again(p) \/ Health(p)
  BY <1>2 DEF OpenApi, Look, Write, Again, Health
<1>3. CASE StartDb(p) \/ CheckRuntime(p) \/ LaunchApi(p) \/ AwaitApi(p) \/ LaunchUi(p) \/ AwaitUi(p)
  BY <1>3 DEF StartDb, CheckRuntime, LaunchApi, AwaitApi, LaunchUi, AwaitUi
<1>4. CASE LaunchHost(p) \/ AwaitHost(p)
  BY <1>4 DEF LaunchHost, AwaitHost
<1>5. CASE StopRelays(p) \/ AskHost(p) \/ HostGone(p) \/ HostLate(p) \/ StopUi(p) \/ StopApi(p) \/ StopDb(p)
  BY <1>5 DEF StopRelays, AskHost, HostGone, HostLate, StopUi, StopApi, StopDb
<1> QED BY <1>1, <1>2, <1>3, <1>4, <1>5 DEF Work

\* A share or an unshare stops every service before it writes, or keeps the error that stops it
\* from writing; nobody starts one meanwhile.
LEMMA WorkSilenced ==
  ASSUME Basic, Basic', Owned, Single, Silenced, NEW p \in Proc, Work(p)
  PROVE  Silenced'
<1>1. TypeOK /\ Shaped /\ HostReachable /\ TypeOK' /\ Shaped'
  BY DEF Basic, Inv
<1>2. /\ Busy(p) /\ Moves(p)
      /\ \A q \in Proc : q # p => todo'[q] = todo[q] /\ job'[q] = job[q]
  BY <1>1, WorkMoves
<1>3. \A q \in Proc : q # p => ~Has(q, "write")'
  <2>1. ASSUME NEW q \in Proc, q # p, Has(q, "write") PROVE FALSE
    <3>1. job[q].cmd \in {"share", "unshare"} /\ Busy(q)
      BY <1>1, <2>1, JobCmd, Writer DEF Shaped, Has, Busy
    <3> QED BY <1>2, <2>1, <3>1 DEF Single
  <2> QED BY <1>2, <2>1 DEF Has
<1> SUFFICES ASSUME Has(p, "write")', ~job'[p].errors PROVE Silences(p)'
  BY <1>3 DEF Silenced, Silences
<1>4. todo'[p] # <<>> /\ job'[p].cmd \in {"share", "unshare"}
  <2>1. job'[p].cmd \in Cmd
    BY <1>1, ServicesAssumption DEF TypeOK, Cmd
  <2>2. Shape(job'[p].cmd, todo'[p]) /\ "write" \in Left(todo'[p])
    BY <1>1 DEF Shaped, Has
  <2> QED BY <2>1, <2>2, Writer
<1>5. job[p].cmd \in {"share", "unshare"} /\ job'[p].cmd = job[p].cmd
  BY <1>1, <1>2, <1>4 DEF Moves, Same, Raised, Raise, TypeOK
<1>6. \A q \in Proc : q # p => ~Busy(q)
  BY <1>2, <1>5 DEF Single
<1>7. PICK x : At(p, x)
  BY <1>2 DEF At
<1>8. /\ todo[p] # <<>> /\ Head(todo[p]) = x /\ Shape(job[p].cmd, todo[p]) /\ job[p].cmd \in Cmd
      /\ \A s : At(p, s) => s = x
  BY <1>1, <1>7, Now
<1>9. Next1(p) \/ (Skip2(p) /\ x \in {"host", "host-off"}) \/ todo'[p] = OpenSteps
  <2>1. x \notin {"finally", "recheck", "health"}
    BY <1>5, <1>8, Whose
  <2>2. ~Raise(p)
    BY <1>1, <1>4, <1>5, RaisedTurn DEF Handler
  <2>3. todo'[p] # Up
    <3>1. "write" \notin Left(Up)
      BY DEF Left, Up
    <3> QED BY <3>1 DEF Has
  <2> QED BY <1>1, <1>2, <1>4, <1>8, <2>1, <2>2, <2>3 DEF Moves, Raised, Turn, TypeOK
<1>10. CASE todo'[p] = OpenSteps
  <2>1. Outer \subseteq Left(OpenSteps)
    <3>1. 1 \in 1..16 /\ Len(OpenSteps) = 16 /\ OpenSteps[2] = "host-off" /\ OpenSteps[4] = "ui-off"
            /\ OpenSteps[5] = "api-off"
      BY DEF OpenSteps
    <3> QED BY <3>1 DEF Left, Outer
  <2> QED BY <1>10, <2>1 DEF Silences, Has, Outer
<1> SUFFICES ASSUME Next1(p) \/ (Skip2(p) /\ x \in {"host", "host-off"}) PROVE Silences(p)'
  BY <1>9, <1>10
<1>11. \A s : /\ Has(p, s)' => Has(p, s)
              /\ Has(p, s) /\ s \notin {x, "host-up", "host-wait"} => Has(p, s)'
  BY <1>1, <1>7, Rest
<1>12. x \notin {"write"} \cup Early
  <2>1. SUFFICES ASSUME x \in {"write"} \cup Early PROVE FALSE
    OBVIOUS
  <2>2. "write" \notin Left(Tail(todo[p]))
    BY <1>5, <1>8, <2>1, Written
  <2>3. ~Next1(p)
    BY <1>1, <2>2 DEF Next1, Has, TypeOK
  <2>4. ~Skip2(p)
    <3>1. SUFFICES ASSUME Skip2(p), At(p, "host") \/ At(p, "host-off") PROVE FALSE
      BY <1>7, <2>3
    <3>2. /\ Tail(todo[p]) # <<>> /\ todo'[p] = Tail(Tail(todo[p])) /\ Shape(job[p].cmd, Tail(todo[p]))
      BY <1>1, <3>1, SkipHost
    <3>3. Left(todo'[p]) \subseteq Left(Tail(todo[p]))
      BY <3>2, Ends1
    <3> QED BY <2>2, <3>3 DEF Has
  <2> QED BY <2>3, <2>4
<1>13. x # "share"
  <2>1. "write" \notin Left(ShareSteps)
    BY DEF Left, ShareSteps
  <2>2. x = "share" => todo[p] = ShareSteps
    BY <1>8, Whose, Plans
  <2> QED BY <1>11, <2>1, <2>2 DEF Has
<1>14. CASE x = "look"
  <2>1. /\ todo[p] \in Seq(Step) /\ todo[p][1] = "look" /\ 1 \in 1..Len(todo[p])
        /\ \A s \in Outer : Leads(todo[p], {"look"}, s)
    <3>1. job[p].cmd = "unshare"
      BY <1>8, <1>14, Whose
    <3> QED BY <1>8, <1>14, <3>1, Tailed DEF Shape, Ordered, Unshares
  <2>2. ASSUME NEW s \in Outer PROVE Has(p, s)'
    <3>1. PICK j \in 1 + 1..Len(todo[p]) : todo[p][j] = s
      BY <2>1 DEF Leads
    <3>2. Has(p, s)
      BY <2>1, <3>1 DEF Has, Left
    <3> QED BY <1>11, <1>14, <3>2 DEF Outer
  <2> QED BY <2>2 DEF Silences, Outer
<1> SUFFICES ASSUME x # "look" PROVE Silences(p)'
  BY <1>14
<1>15. /\ api.st # "off" => Has(p, "api-off")
       /\ ui.st # "off" => Has(p, "ui-off")
       /\ \A h \in Host : Findable(h) => Has(p, "host-off") \/ Asks(p, h)
  <2>1. ~job[p].errors
    BY <1>1, <1>8, Errors DEF TypeOK
  <2> QED BY <1>11, <2>1 DEF Silenced, Silences
<1>16. \A s \in Outer \ {x} : Has(p, s) => Has(p, s)'
  BY <1>11 DEF Outer
<1>17. x # "host-wait" => \A h : ~Asks(p, h)
  BY <1>8 DEF Asks
<1>18. api.st # "coming" /\ ui.st # "coming" /\ \A h \in Host : phase[h] \notin {"spawned", "bound"}
  BY <1>6, <1>8, <1>12, Calm DEF Early
<1>19. api \in Server /\ ui \in Server /\ job'[p].errors # TRUE
  BY <1>1 DEF TypeOK
<1>20. CASE x \notin Fall
  <2>1. UNCHANGED <<services, phase, receipt, exposed>>
    BY <1>7, <1>12, <1>20, Untouched
  <2> QED BY <1>15, <1>16, <1>17, <1>20, <2>1 DEF Silences, services, Fall, Off, Outer, Findable
<1>21. CASE x \in {"relays", "db-off"}
  <2>1. UNCHANGED <<api, ui, phase, exposed>>
    BY <1>7, <1>21, OwnStep DEF StopRelays, StopDb, services, hosts
  <2> QED BY <1>15, <1>16, <1>17, <1>21, <2>1 DEF Silences, Outer, Findable
<1>22. CASE x = "ui-off"
  <2>1. UNCHANGED <<api, phase, exposed>> /\ ui' = [ui EXCEPT !.st = IF ui.st = "on" THEN "off" ELSE ui.st]
    BY <1>1, <1>7, <1>19, <1>22, OwnStep DEF StopUi, Keep, hosts, TypeOK
  <2>2. ui'.st = "off"
    BY <1>18, <1>19, <2>1 DEF Server
  <2> QED BY <1>15, <1>16, <1>17, <1>22, <2>1, <2>2 DEF Silences, Outer, Findable
<1>23. CASE x = "api-off"
  <2>1. UNCHANGED <<ui, phase, exposed>> /\ api' = [api EXCEPT !.st = IF api.st = "on" THEN "off" ELSE api.st]
    BY <1>1, <1>7, <1>19, <1>23, OwnStep DEF StopApi, Keep, hosts, TypeOK
  <2>2. api'.st = "off"
    BY <1>18, <1>19, <2>1 DEF Server
  <2> QED BY <1>15, <1>16, <1>17, <1>23, <2>1, <2>2 DEF Silences, Outer, Findable
<1>24. \A h \in Host : Findable(h) => phase[h] = "serving" /\ receipt = h /\ h # None
  BY <1>1, <1>18, ServicesAssumption DEF Live, Findable, HostReachable
<1>25. CASE x = "host-off"
  <2>1. AskHost(p) /\ UNCHANGED <<api, ui, phase, receipt, exposed>>
    BY <1>7, <1>25, OwnStep DEF AskHost, services
  <2>2. ASSUME NEW h \in Host, Findable(h)' PROVE Asks(p, h)'
    <3>1. receipt = h /\ Next1(p) /\ job' = [job EXCEPT ![p].watch = receipt]
      BY <1>24, <2>1, <2>2 DEF AskHost, Findable
    <3>2. At(p, "host-wait")'
      <4>1. Tail(todo[p]) # <<>> /\ Head(Tail(todo[p])) = "host-wait"
        BY <1>8, <1>25, Pairs
      <4> QED BY <1>1, <3>1, <4>1 DEF At, Busy, Next1, TypeOK
    <3> QED BY <1>1, <3>1, <3>2 DEF Asks, TypeOK
  <2> QED BY <1>15, <1>16, <1>25, <2>1, <2>2 DEF Silences, Outer
<1>26. CASE x = "host-wait"
  <2>1. HostGone(p)
    <3>1. job' = [job EXCEPT ![p].errors = TRUE, ![p].watch = None] => job'[p].errors = TRUE
      BY <1>1 DEF TypeOK
    <3>2. ~HostLate(p)
      BY <1>19, <3>1 DEF HostLate
    <3> QED BY <1>7, <1>26, <3>2, OwnStep
  <2>2. receipt # job[p].watch /\ UNCHANGED <<api, ui, phase, receipt, exposed>>
    BY <2>1 DEF HostGone, services, hosts
  <2>3. \A h \in Host : Findable(h) => ~Asks(p, h)
    BY <1>24, <2>2 DEF Asks
  <2> QED BY <1>15, <1>16, <1>26, <2>2, <2>3 DEF Silences, Outer, Findable
<1> QED BY <1>20, <1>21, <1>22, <1>23, <1>25, <1>26 DEF Fall, Off, Outer

LEMMA KeyStep == Basic /\ Owning /\ KeyInv /\ [Next]_vars => KeyInv'
<1> SUFFICES ASSUME Basic, Owning, KeyInv, [Next]_vars, ~history'.mixed PROVE Single' /\ Current' /\ Silenced'
  BY DEF KeyInv
<1>1. TypeOK /\ Shaped /\ Basic'
  BY BasicStep DEF Basic
<1>2. ASSUME NEW p \in Proc, Work(p) PROVE Single' /\ Current' /\ Silenced'
  <2>1. ~history.mixed /\ Single /\ Current /\ Silenced /\ Owned
    BY <1>1, <1>2, WorkHistory DEF KeyInv, Owning
  <2> QED BY <1>1, <1>2, <2>1, WorkSingle, WorkCurrent, WorkSilenced
<1>3. ASSUME NEW p \in Proc, NEW c \in Asked, Begin(p, c) PROVE Single' /\ Current' /\ Silenced'
  <2>1. ~history.mixed /\ Single /\ Current /\ Silenced
    BY <1>1, <1>3, BeginHistory DEF KeyInv
  <2>2. /\ UNCHANGED <<state, services, hosts>> /\ ~Busy(p) /\ todo'[p] = Plan(c) /\ job'[p].cmd = c
        /\ \A q \in Proc : q # p => todo'[q] = todo[q] /\ job'[q] = job[q]
    BY <1>1, <1>3 DEF Begin, TypeOK
  <2>3. \A q \in Proc : Busy(q) => {c, job[q].cmd} \cap {"share", "unshare"} = {}
    BY <1>1, <1>3, BeginHistory
  <2>4. Single'
    BY <2>1, <2>2, <2>3 DEF Single, Busy
  <2>5. Current'
    BY <2>1, <2>2 DEF Current, state, services, hosts, Findable
  <2>6. "write" \in Left(Plan(c)) => Outer \subseteq Left(Plan(c))
    <3>1. c \in Cmd \ {"none"} /\ Shape(c, Plan(c))
      BY ServicesAssumption, PlanShape DEF Cmd
    <3>2. "write" \in Left(Plan(c)) => c \in {"share", "unshare"}
      BY <3>1, Writer
    <3>3. "write" \notin Left(ShareSteps)
      BY DEF Left, ShareSteps
    <3>4. Outer \subseteq Left(UnshareSteps)
      <4>1. 1 \in 1..8 /\ Len(UnshareSteps) = 8 /\ UnshareSteps[3] = "host-off"
              /\ UnshareSteps[5] = "ui-off" /\ UnshareSteps[6] = "api-off"
        BY DEF UnshareSteps
      <4> QED BY <4>1 DEF Left, Outer
    <3> QED BY <3>2, <3>3, <3>4, Plans DEF Plan
  <2>7. Silences(p)'
    BY <2>2, <2>6 DEF Silences, Has, Outer
  <2>8. \A q \in Proc : q # p => Silences(q)'
    BY <2>1, <2>2 DEF Silenced, Silences, Has, Asks, At, Busy, services, hosts, Findable
  <2> QED BY <2>4, <2>5, <2>7, <2>8 DEF Silenced
<1>4. CASE \E p \in Proc : Kill(p)
  BY <1>4 DEF Kill
<1>5. CASE Alone
  <2>1. UNCHANGED <<todo, job, lock, state, db, history>>
    BY <1>5, AloneKeeps
  <2>2. (api'.st # "off" => api.st # "off" /\ api'.key = api.key) /\ (ui'.st # "off" => ui.st # "off"
          /\ ui'.key = ui.key)
    BY <1>1, <1>5 DEF Alone, HostStep, Bind, Serve, Shut, Closed, Unlink, Ended, ApiUp, UiUp, Dies, vars, services, TypeOK,
       Server
  <2>3. \A h \in Host : Findable(h)' => Findable(h)
    BY <1>1, <1>5 DEF Alone, HostStep, Bind, Serve, Shut, Closed, Unlink, Ended, ApiUp, UiUp, Dies, vars, hosts, TypeOK, Live, Findable
  <2>4. \A h \in Host : phase'[h] \in Listening => hostKey'[h] = key \/ (phase[h] \in Listening
                          /\ hostKey'[h] = hostKey[h])
    BY <1>1, <1>5 DEF Alone, HostStep, Bind, Serve, Shut, Closed, Unlink, Ended, ApiUp, UiUp, Dies, vars, hosts, TypeOK,
       Listening
  <2>5. \A p \in Proc : \A s : (Has(p, s)' <=> Has(p, s)) /\ (Asks(p, s)' <=> Asks(p, s))
    BY <2>1 DEF Asks, Has, At, Busy
  <2>6. Single /\ Current /\ Silenced
    BY <2>1 DEF KeyInv
  <2>7. Single'
    BY <2>1, <2>6 DEF Single, Busy
  <2>8. Current'
    BY <2>1, <2>2, <2>3, <2>4, <2>6 DEF Current, state
  <2>9. Silenced'
    BY <2>1, <2>2, <2>3, <2>5, <2>6 DEF Silenced, Silences
  <2> QED BY <2>7, <2>8, <2>9
<1>6. CASE Reboot
  <2>1. (\A p \in Proc : todo'[p] = <<>>) /\ api'.st = "off" /\ ui'.st = "off"
          /\ \A h \in Host : phase'[h] = "absent"
    BY <1>1, <1>6 DEF Reboot, TypeOK, Server
  <2> QED BY <2>1 DEF Single, Current, Silenced, Silences, Busy, Live, Findable, Listening
<1> QED BY <1>2, <1>3, <1>4, <1>5, <1>6, Cases

LEMMA KeyInit == Init => KeyInv
<1> SUFFICES ASSUME Init PROVE Single /\ Current /\ Silenced
  BY DEF KeyInv
<1> QED BY DEF Init, Single, Current, Silenced, Silences, Busy, Live, Findable, Listening

\* However shares and unshares fail or are repeated, whatever runs when the commands are over has
\* the key and the address of the profile: nothing is left that accepts a revoked key.
THEOREM KeysAgreeAlways == Spec => []KeysAgree
<1> DEFINE SInv == Basic /\ Owning /\ KeyInv
<1>1. Init => SInv
  BY InitBasic, StopInit, KeyInit
<1>2. SInv /\ [Next]_vars => SInv'
  BY BasicStep, OwningStep, KeyStep
<1>3. SInv => KeysAgree
  BY DEF KeyInv, Current, KeysAgree, Listening, Live, Findable
<1> QED BY <1>1, <1>2, <1>3, PTL DEF Spec

=============================================================================
