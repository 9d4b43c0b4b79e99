---------------------------- MODULE MailScanProofs ----------------------------
(***************************************************************************)
(* What a scan of the mailbox guarantees for every set of folders and      *)
(* messages, every page size, overlap and delay up to it, and every bound: *)
(* an announced run has a scheduler, a saved cursor belongs to its window, *)
(* and a watermark never passes over a message that could be read.         *)
(***************************************************************************)
EXTENDS MailScan, FiniteSetTheorems, WellFoundedInduction, TLAPS

(* Lists and ranks.  A page is the front of what remains, and a cursor      *)
(* counts what is behind it or names the last of it.                        *)

LEMMA LeastOf ==
  ASSUME NEW S \in SUBSET Nat, S # {}
  PROVE  \E x \in S : \A y \in S : x <= y
<1>1. PICK x \in S : \A y \in S : ~(<<y, x>> \in OpToRel(<, Nat))
  BY NatLessThanWellFounded, WFMin
<1>2. ASSUME NEW y \in S PROVE x <= y
  <2>1. x \in Nat /\ y \in Nat
    OBVIOUS
  <2>2. y < x => <<y, x>> \in OpToRel(<, Nat)
    BY <2>1 DEF OpToRel
  <2>3. ~(y < x)
    BY <1>1, <2>2
  <2> QED BY <2>1, <2>3
<1> QED BY <1>2

LEMMA MinOf ==
  ASSUME NEW S \in SUBSET Nat, S # {}
  PROVE  Min(S) \in S /\ \A y \in S : Min(S) <= y
BY LeastOf DEF Min

Rank(S, m) == Cardinality({x \in S : x <= m})

LEMMA RankType ==
  ASSUME NEW S \in SUBSET Nat, IsFiniteSet(S), NEW m \in Nat
  PROVE  /\ Rank(S, m) \in Nat /\ Rank(S, m) <= Cardinality(S)
         /\ m \in S => Rank(S, m) >= 1
<1> DEFINE low == {x \in S : x <= m}
<1>1. low \in SUBSET S
  OBVIOUS
<1>2. IsFiniteSet(low) /\ Cardinality(low) <= Cardinality(S)
  BY <1>1, FS_Subset
<1>3. Cardinality(low) \in Nat
  BY <1>2, FS_CardinalityType
<1>4. m \in S => low # {}
  OBVIOUS
<1>5. Cardinality(low) = 0 <=> low = {}
  BY <1>2, FS_EmptySet
<1> HIDE DEF low
<1> QED BY <1>2, <1>3, <1>4, <1>5 DEF Rank, low

LEMMA RankGrows ==
  ASSUME NEW S \in SUBSET Nat, IsFiniteSet(S), NEW m \in Nat, NEW n \in S, m < n
  PROVE  Rank(S, m) < Rank(S, n)
<1> DEFINE low == {x \in S : x <= m}
           high == {x \in S : x <= n}
<1>1. low \in SUBSET high /\ high \in SUBSET S /\ n \in high /\ n \notin low
  <2>1. ASSUME NEW x \in low PROVE x \in high
    BY <2>1
  <2>2. n \in high /\ n \notin low /\ high \in SUBSET S
    OBVIOUS
  <2> HIDE DEF low, high
  <2> QED BY <2>1, <2>2
<1>2. IsFiniteSet(high) /\ IsFiniteSet(low)
  BY <1>1, FS_Subset
<1>3. Cardinality(low) <= Cardinality(high) /\ Cardinality(low) # Cardinality(high)
  BY <1>1, <1>2, FS_Subset
<1>4. Cardinality(low) \in Nat /\ Cardinality(high) \in Nat
  BY <1>2, FS_CardinalityType
<1> HIDE DEF low, high
<1> QED BY <1>3, <1>4 DEF Rank, low, high

\* A larger list ranks no lower.
LEMMA RankSubset ==
  ASSUME NEW S \in SUBSET Nat, IsFiniteSet(S), NEW T \in SUBSET S, NEW m \in Nat
  PROVE  Rank(T, m) <= Rank(S, m)
<1> DEFINE low == {x \in T : x <= m}
           all == {x \in S : x <= m}
<1>1. low \in SUBSET all /\ all \in SUBSET S
  OBVIOUS
<1>2. IsFiniteSet(all)
  BY <1>1, FS_Subset
<1> HIDE DEF low, all
<1>3. Cardinality(low) <= Cardinality(all)
  BY <1>1, <1>2, FS_Subset
<1> QED BY <1>3 DEF Rank, low, all

LEMMA GreatestOf ==
  ASSUME NEW S \in SUBSET Nat, IsFiniteSet(S), S # {}
  PROVE  \E x \in S : \A y \in S : x >= y
<1> DEFINE lag == {Cardinality(S) - Rank(S, m) : m \in S}
<1>1. Cardinality(S) \in Nat
  BY FS_CardinalityType
<1>2. lag \in SUBSET Nat
  <2>1. ASSUME NEW m \in S PROVE Cardinality(S) - Rank(S, m) \in Nat
    BY <1>1, RankType
  <2> QED BY <2>1
<1>3. lag # {}
  OBVIOUS
<1>4. PICK least \in lag : \A other \in lag : least <= other
  BY <1>2, <1>3, LeastOf
<1>5. PICK x \in S : least = Cardinality(S) - Rank(S, x)
  BY <1>4
<1>6. ASSUME NEW y \in S PROVE x >= y
  <2>1. Cardinality(S) - Rank(S, x) <= Cardinality(S) - Rank(S, y)
    BY <1>4, <1>5
  <2>2. Rank(S, y) <= Rank(S, x)
    BY <1>1, <2>1, RankType
  <2>3. CASE x < y
    BY <2>2, <2>3, RankGrows, RankType
  <2> QED BY <2>3
<1> QED BY <1>6

LEMMA MaxOf ==
  ASSUME NEW S \in SUBSET Nat, IsFiniteSet(S), S # {}
  PROVE  Max(S) \in S /\ \A y \in S : Max(S) >= y
BY GreatestOf DEF Max

LEMMA FrontOf ==
  ASSUME NEW S \in SUBSET Nat, IsFiniteSet(S)
  PROVE  /\ FirstOf(S) \in SUBSET S /\ IsFiniteSet(FirstOf(S))
         /\ \A p \in FirstOf(S), m \in S \ FirstOf(S) : p < m
         /\ S # {} => FirstOf(S) # {}
<1>1. FirstOf(S) = {m \in S : Rank(S, m) <= PageSize}
  BY DEF FirstOf, Rank
<1>2. FirstOf(S) \in SUBSET S /\ IsFiniteSet(FirstOf(S))
  <2>1. FirstOf(S) \in SUBSET S
    BY <1>1
  <2> QED BY <2>1, FS_Subset
<1>3. ASSUME NEW p \in FirstOf(S), NEW m \in S \ FirstOf(S), ~(p < m) PROVE FALSE
  <2>1. p \in S /\ p \in Nat /\ m \in Nat /\ Rank(S, p) <= PageSize /\ ~(Rank(S, m) <= PageSize)
    BY <1>1
  <2>2. Rank(S, m) \in Nat /\ Rank(S, p) \in Nat /\ PageSize \in Nat
    BY <2>1, RankType, ScanAssumption
  <2>3. CASE m = p
    BY <2>1, <2>3
  <2>4. CASE m < p
    <3>1. Rank(S, m) < Rank(S, p)
      BY <2>1, <2>4, RankGrows
    <3> QED BY <2>1, <2>2, <3>1
  <2> QED BY <1>3, <2>1, <2>3, <2>4
<1>4. ASSUME S # {} PROVE FirstOf(S) # {}
  <2>1. Min(S) \in S /\ \A y \in S : Min(S) <= y
    BY <1>4, MinOf
  <2>2. {x \in S : x <= Min(S)} = {Min(S)}
    <3>1. ASSUME NEW x \in S, x <= Min(S) PROVE x = Min(S)
      <4>1. x \in Nat /\ Min(S) \in Nat /\ Min(S) <= x
        BY <2>1
      <4> QED BY <3>1, <4>1
    <3>2. Min(S) \in Nat
      BY <2>1
    <3> QED BY <2>1, <3>1, <3>2
  <2>3. Rank(S, Min(S)) = 1
    BY <2>2, FS_Singleton DEF Rank
  <2> QED BY <1>1, <2>1, <2>3, ScanAssumption
<1> QED BY <1>2, <1>3, <1>4

\* What a cursor that counts has behind it: that many messages, if one remains.
LEMMA CountBehind ==
  ASSUME NEW S \in SUBSET Nat, IsFiniteSet(S), NEW n \in Nat, NEW m \in S, Rank(S, m) > n
  PROVE  Cardinality({x \in S : ~(Rank(S, x) > n)}) >= n
<1> DEFINE behind == {x \in S : ~(Rank(S, x) > n)}
           left == {x \in S : Rank(S, x) > n}
           first == Min(left)
<1>1. first \in left /\ \A y \in left : first <= y
  <2>1. left \in SUBSET Nat /\ m \in left
    OBVIOUS
  <2> HIDE DEF left
  <2> QED BY <2>1, MinOf
<1>2. first \in S /\ first \in Nat /\ Rank(S, first) > n
  BY <1>1
<1> HIDE DEF first
<1>3. behind = {x \in S : x <= first} \ {first}
  <2>1. ASSUME NEW x \in behind PROVE x <= first /\ x # first
    <3>1. x \in Nat /\ ~(Rank(S, x) > n) /\ x \in S
      BY <2>1
    <3>2. CASE first < x
      <4>1. Rank(S, first) < Rank(S, x)
        BY <1>2, <3>1, <3>2, RankGrows
      <4>2. Rank(S, first) \in Nat /\ Rank(S, x) \in Nat
        BY <1>2, <3>1, RankType
      <4> QED BY <1>2, <3>1, <4>1, <4>2
    <3> QED BY <1>2, <3>1, <3>2
  <2>2. ASSUME NEW x \in S, x <= first, x # first PROVE x \in behind
    <3>1. x \notin left
      BY <1>1, <1>2, <2>2
    <3> QED BY <3>1
  <2> HIDE DEF left
  <2>3. behind \in SUBSET S
    OBVIOUS
  <2> HIDE DEF behind
  <2> QED BY <2>1, <2>2, <2>3
<1> DEFINE low == {x \in S : x <= first}
<1>4. low \in SUBSET S /\ first \in low
  BY <1>2
<1>5. IsFiniteSet(low) /\ Cardinality(low) \in Nat
  BY <1>4, FS_Subset, FS_CardinalityType
<1>6. Cardinality(low) > n
  BY <1>2 DEF Rank
<1> HIDE DEF low
<1>7. Cardinality(low \ {first}) = Cardinality(low) - 1
  BY <1>4, <1>5, FS_RemoveElement
<1>8. behind = low \ {first}
  BY <1>3 DEF low
<1> QED BY <1>5, <1>6, <1>7, <1>8

\* A cursor that counts on by the length of a page has that page behind it, and no other
\* message that remained.
LEMMA CountOn ==
  ASSUME NEW S \in SUBSET Nat, IsFiniteSet(S), NEW n \in Nat, NEW m \in S, Rank(S, m) > n,
         m \notin FirstOf({x \in S : Rank(S, x) > n})
  PROVE  Rank(S, m) > n + Cardinality(FirstOf({x \in S : Rank(S, x) > n}))
<1> DEFINE behind == {x \in S : ~(Rank(S, x) > n)}
           left == {x \in S : Rank(S, x) > n}
           page == FirstOf(left)
           low == {x \in S : x <= m}
<1>1. left \in SUBSET S /\ left \in SUBSET Nat /\ m \in left /\ m \in Nat
  OBVIOUS
<1>2. IsFiniteSet(left)
  BY <1>1, FS_Subset
<1>3. page \in SUBSET left /\ IsFiniteSet(page) /\ \A p \in page : p < m
  <2>1. m \in left \ page
    BY <1>1
  <2> HIDE DEF left
  <2> QED BY <1>1, <1>2, <2>1, FrontOf
<1>4. behind \in SUBSET S /\ IsFiniteSet(behind) /\ Cardinality(behind) >= n
  <2>1. behind \in SUBSET S
    OBVIOUS
  <2>2. Cardinality(behind) >= n
    BY CountBehind
  <2> HIDE DEF behind
  <2> QED BY <2>1, <2>2, FS_Subset
<1>5. behind \in SUBSET low
  <2>1. ASSUME NEW x \in S, ~(Rank(S, x) > n), ~(x <= m) PROVE FALSE
    <3>1. Rank(S, m) < Rank(S, x)
      BY <1>1, <2>1, RankGrows
    <3>2. Rank(S, m) \in Nat /\ Rank(S, x) \in Nat
      BY <1>1, RankType
    <3> QED BY <2>1, <3>1, <3>2
  <2> QED BY <2>1
<1>6. page \in SUBSET low /\ behind \cap page = {} /\ m \in low /\ low \in SUBSET S
  <2>1. behind \cap left = {}
    OBVIOUS
  <2>2. m \in low /\ low \in SUBSET S
    BY <1>1
  <2>3. ASSUME NEW p \in page PROVE p \in low
    <3>1. p \in left /\ p < m /\ p \in S
      BY <1>1, <1>3
    <3> QED BY <1>1, <3>1
  <2> HIDE DEF page, left, behind, low
  <2> QED BY <1>3, <2>1, <2>2, <2>3
<1>7. m \notin behind /\ m \notin page
  OBVIOUS
<1>8. Rank(S, m) = Cardinality(low)
  BY DEF Rank
<1> HIDE DEF behind, left, page, low
<1>9. /\ IsFiniteSet(behind \cup page)
      /\ Cardinality(behind \cup page) = Cardinality(behind) + Cardinality(page)
  <2>1. Cardinality(behind) \in Nat /\ Cardinality(page) \in Nat
    BY <1>3, <1>4, FS_CardinalityType
  <2>2. Cardinality(behind \cap page) = 0
    BY <1>6, FS_EmptySet
  <2>3. /\ IsFiniteSet(behind \cup page)
        /\ Cardinality(behind \cup page) =
             Cardinality(behind) + Cardinality(page) - Cardinality(behind \cap page)
    BY <1>3, <1>4, FS_Union
  <2> QED BY <2>1, <2>2, <2>3
<1>10. Cardinality((behind \cup page) \cup {m}) = Cardinality(behind \cup page) + 1
  BY <1>7, <1>9, FS_AddElement
<1>11. Cardinality((behind \cup page) \cup {m}) <= Cardinality(low)
  <2>1. IsFiniteSet(low)
    BY <1>6, FS_Subset
  <2>2. ((behind \cup page) \cup {m}) \in SUBSET low
    BY <1>5, <1>6
  <2> QED BY <2>1, <2>2, FS_Subset
<1>12. /\ Cardinality(behind) \in Nat /\ Cardinality(page) \in Nat /\ Cardinality(low) \in Nat
  <2>1. IsFiniteSet(low)
    BY <1>6, FS_Subset
  <2> QED BY <1>3, <1>4, <2>1, FS_CardinalityType
<1>13. Cardinality(low) > n + Cardinality(page)
  BY <1>4, <1>9, <1>10, <1>11, <1>12
<1> QED BY <1>8, <1>13 DEF page, left

LEMMA RemainingIs ==
  ASSUME NEW S \in SUBSET Nat, NEW next \in Cursor \cup {None}
  PROVE  /\ next = None => Remaining(S, next) = S
         /\ next # None /\ next.by = "token" => Remaining(S, next) = {m \in S : m > next.at}
         /\ next # None /\ next.by = "skip" => Remaining(S, next) = {m \in S : Rank(S, m) > next.at}
         /\ Remaining(S, next) \in SUBSET S
BY NoneAssumption DEF Remaining, Rank, Cursor

\* What a cursor has behind it grows by the page and by nothing else.
LEMMA CursorOn ==
  ASSUME NEW S \in SUBSET Nat, IsFiniteSet(S), NEW next \in Cursor \cup {None}, NEW on \in Cursor,
         next # None => on.by = next.by, NEW page, page = FirstOf(Remaining(S, next)),
         Remaining(S, next) \ page # {},
         on.at = IF on.by = "token" THEN Max(page)
                 ELSE Cardinality(page) + (IF next = None THEN 0 ELSE next.at),
         NEW m \in S, m \notin Remaining(S, on), m \in Remaining(S, next)
  PROVE  m \in page
<1> DEFINE left == Remaining(S, next)
<1>1. left \in SUBSET S /\ left \in SUBSET Nat /\ left # {} /\ m \in left
  BY RemainingIs
<1>2. IsFiniteSet(left)
  BY <1>1, FS_Subset
<1>3. page = FirstOf(left)
  OBVIOUS
<1>4. on # None /\ on.by \in {"skip", "token"}
  BY NoneAssumption DEF Cursor
<1> HIDE DEF left
<1>5. /\ page \in SUBSET left /\ IsFiniteSet(page) /\ page # {}
      /\ \A p \in page, other \in left \ page : p < other
  BY <1>1, <1>2, <1>3, FrontOf
<1>6. CASE on.by = "token"
  <2>1. Max(page) \in page
    <3>1. page \in SUBSET Nat
      BY <1>1, <1>5
    <3> QED BY <1>5, <3>1, MaxOf
  <2>2. ~(m > Max(page))
    BY <1>4, <1>6, RemainingIs
  <2>3. m \in Nat /\ Max(page) \in Nat
    BY <1>1, <1>5, <2>1
  <2>4. m \notin page => Max(page) < m
    BY <1>1, <1>5, <2>1
  <2> QED BY <2>2, <2>3, <2>4
<1>7. CASE on.by = "skip"
  <2>1. ~(Rank(S, m) > on.at)
    BY <1>4, <1>7, RemainingIs
  <2>2. Rank(S, m) \in Nat /\ Cardinality(page) \in Nat
    BY <1>1, <1>5, RankType, FS_CardinalityType
  <2> DEFINE n == IF next = None THEN 0 ELSE next.at
  <2>3. n \in Nat
    BY DEF Cursor
  <2>4. on.at = n + Cardinality(page)
    BY <1>7, <2>2, <2>3
  <2>5. left = {x \in S : Rank(S, x) > n}
    <3>1. CASE next = None
      <4>1. \A x \in S : Rank(S, x) > 0
        BY RankType
      <4> QED BY <3>1, <4>1, RemainingIs DEF left
    <3>2. CASE next # None
      <4>1. next.by = "skip"
        BY <1>7, <3>2
      <4> QED BY <3>2, <4>1, RemainingIs DEF left
    <3> QED BY <3>1, <3>2
  <2> HIDE DEF n
  <2>6. ASSUME m \notin page PROVE FALSE
    <3>1. Rank(S, m) > n
      BY <1>1, <2>5
    <3>2. m \notin FirstOf({x \in S : Rank(S, x) > n})
      BY <1>3, <2>5, <2>6
    <3>3. Rank(S, m) > n + Cardinality(page)
      BY <1>3, <2>3, <2>5, <3>1, <3>2, CountOn
    <3> QED BY <2>1, <2>2, <2>3, <2>4, <3>3
  <2> QED BY <2>6
<1> QED BY <1>4, <1>6, <1>7

\* A message that arrives moves nobody behind a cursor ...
LEMMA ArrivalBehind ==
  ASSUME NEW S \in SUBSET Nat, IsFiniteSet(S), NEW T \in SUBSET S, NEW next \in Cursor \cup {None},
         NEW m \in T, m \notin Remaining(S, next)
  PROVE  m \notin Remaining(T, next)
<1>1. T \in SUBSET Nat /\ IsFiniteSet(T) /\ m \in S /\ m \in Nat
  BY FS_Subset
<1>2. CASE next = None
  BY <1>1, <1>2, RemainingIs
<1>3. CASE next # None /\ next.by = "token"
  BY <1>1, <1>3, RemainingIs
<1>4. CASE next # None /\ next.by = "skip"
  <2>1. ~(Rank(S, m) > next.at)
    BY <1>1, <1>4, RemainingIs
  <2>2. Rank(T, m) <= Rank(S, m)
    BY <1>1, RankSubset
  <2>3. Rank(T, m) \in Nat /\ Rank(S, m) \in Nat /\ next.at \in Nat
    BY <1>1, <1>4, RankType DEF Cursor
  <2>4. ~(Rank(T, m) > next.at)
    BY <2>1, <2>2, <2>3
  <2> QED BY <1>1, <1>4, <2>4, RemainingIs
<1> QED BY <1>2, <1>3, <1>4 DEF Cursor

\* ... and one that goes away moves nobody behind a cursor that names a message.
LEMMA DepartureBehind ==
  ASSUME NEW S \in SUBSET Nat, NEW T \in SUBSET S, NEW next \in Cursor \cup {None},
         next # None => next.by = "token", NEW m \in T, m \notin Remaining(T, next)
  PROVE  m \notin Remaining(S, next)
<1>1. T \in SUBSET Nat /\ m \in S
  OBVIOUS
<1> QED BY <1>1, RemainingIs

-----------------------------------------------------------------------------
(* Types, and what a run, an action and the settings have at each place *)

TaskType == [at : {"off", "queued", "discover", "bank", "page", "threads"},
             window : Window \cup {None}, marks : [Folder -> Time \cup {None}] \cup {None},
             start : Time \cup {None}, cancelled : BOOLEAN]

ActionType == [at : {"off", "pause", "reconfigure", "closing"}, base : Config \cup {None},
               updated : Config \cup {None}, model : BOOLEAN]

HostType == [up : BOOLEAN, loaded : BOOLEAN, scheduler : BOOLEAN]

MailType == [folder : Folder \cup {None}, received : Time, whole : BOOLEAN, since : Time,
             present : BOOLEAN]

\* Only a run that waits for a page holds copies of the settings.
Holds(run) ==
  /\ run \in TaskType
  /\ run.at = "page" => /\ run.window # None /\ run.marks # None /\ run.start # None
                        /\ run.window.todo # {}
  /\ run.at # "page" => run.window = None /\ run.marks = None

\* An action in progress changes something, and knows the lookback that is saved.
Asks(act, lookback) ==
  /\ act \in ActionType
  /\ act.at \in {"reconfigure", "closing"} =>
       /\ act.base # None /\ act.updated # None /\ act.updated # act.base
       /\ act.updated.enabled = act.base.enabled /\ act.base.lookback = lookback

\* There is no window and no watermark before there is a history.
Dated(db) ==
  /\ db \in Saved
  /\ db.history = None => db.window = None /\ db.marks = NoMarks
  /\ db.history # None => db.history <= now

Sane ==
  /\ now \in Time /\ now >= Start0 /\ mail \in [Message -> MailType]
  /\ Dated(saved) /\ Holds(task) /\ Asks(action, saved.config.lookback) /\ host \in HostType
  /\ task.at = "page" => saved.history # None
  /\ promised \in Time \cup {None, Nothing}
  /\ promised # Nothing => promised = saved.history
  /\ faults \in 0..MaxFaults

\* What discovery keeps and only a scan or configure() changes.
Kept(db) ==
  /\ db \in Saved
  /\ db.history = saved.history /\ db.marks = saved.marks /\ db.window = saved.window
  /\ db.sources = saved.sources /\ db.errors = saved.errors
  /\ db.config.folders = saved.config.folders /\ db.config.lookback = saved.config.lookback

\* The run goes on to something else than a page, or is told to.
Rests == \/ task'.at # "page"
         \/ /\ task'.at = task.at /\ task'.window = task.window
            /\ task'.marks = task.marks /\ task'.start = task.start

\* A step that touches neither mail nor what discovery keeps.
Quiet == /\ UNCHANGED <<now, mail, promised>>
         /\ Kept(saved') /\ Holds(task') /\ Rests /\ Asks(action', saved.config.lookback)
         /\ host' \in HostType /\ faults' \in 0..MaxFaults

LEMMA QuietSane == Sane /\ Quiet => Sane'
BY DEF Sane, Quiet, Kept, Dated, Rests, Asks, Holds, TaskType

LEMMA Counted ==
  ASSUME Sane
  PROVE  /\ \A kind : Fault(kind) => faults' \in 0..MaxFaults
         /\ \A kind : FaultTwice(kind) => faults' \in 0..MaxFaults
         /\ UNCHANGED faults => faults' \in 0..MaxFaults
BY ScanAssumption DEF Sane, Fault, FaultTwice

LEMMA OpenedKept ==
  ASSUME Sane
  PROVE  Kept(saved) /\ Kept(Opened(saved)) /\ Kept(Current)
BY DEF Sane, Dated, Kept, Opened, Current, Saved

\* The places a run that holds nothing can be at.
LEMMA HoldsNothing ==
  ASSUME NEW place \in {"off", "queued", "discover", "bank", "threads"}
  PROVE  /\ Holds([NoTask EXCEPT !.at = place]) /\ [NoTask EXCEPT !.at = place].at # "page"
         /\ Holds(NoTask) /\ NoTask.at # "page"
BY DEF Holds, NoTask, TaskType

LEMMA LaunchedQuiet ==
  ASSUME Sane, NEW db, Kept(db), Launched(db)
  PROVE  Kept(saved') /\ Holds(task') /\ Rests
<1>1. Kept(Queued(db))
  BY DEF Kept, Queued, Saved
<1>2. Holds([NoTask EXCEPT !.at = "queued"]) /\ [NoTask EXCEPT !.at = "queued"].at # "page"
  BY HoldsNothing
<1>3. Holds(task) /\ (task' = task => Rests)
  BY DEF Sane, Rests
<1>4. CASE task.at = "off"
  <2>1. saved' = Queued(db) /\ task' = [NoTask EXCEPT !.at = "queued"]
    BY <1>4 DEF Launched
  <2> QED BY <1>1, <1>2, <2>1 DEF Rests
<1>5. CASE task.at # "off"
  <2>1. saved' = db /\ task' = task
    BY <1>5 DEF Launched
  <2> QED BY <1>3, <2>1
<1> QED BY <1>4, <1>5

LEMMA HostTypes ==
  ASSUME Sane
  PROVE  /\ Down \in HostType /\ [Down EXCEPT !.up = TRUE] \in HostType
         /\ Loaded \in HostType /\ Booted \in HostType /\ [Booted EXCEPT !.up = TRUE] \in HostType
BY DEF Sane, Down, Loaded, Booted, HostType

LEMMA OpeningQuiet ==
  ASSUME Sane, Boot \/ Schedule \/ Start \/ Sync
  PROVE  Quiet
<1>1. UNCHANGED <<now, mail, promised, action>>
  BY DEF Boot, Schedule, Start, Sync
<1>2. host' \in HostType /\ faults' \in 0..MaxFaults
  <2>1. host \in HostType
    BY DEF Sane
  <2> QED BY <2>1, HostTypes, Counted DEF Boot, Schedule, Start, Sync
<1>3. Kept(saved') /\ Holds(task') /\ Rests
  <2>1. CASE Boot
    <3>1. Launched(Opened(saved)) => Kept(saved') /\ Holds(task') /\ Rests
      BY OpenedKept, LaunchedQuiet
    <3>2. UNCHANGED <<saved, task>> => Kept(saved') /\ Holds(task') /\ Rests
      BY OpenedKept DEF Rests, Sane
    <3> QED BY <2>1, <3>1, <3>2 DEF Boot
  <2>2. CASE Schedule
    BY <2>2, OpenedKept, LaunchedQuiet DEF Schedule
  <2>3. CASE Start
    <3>1. Kept([Current EXCEPT !.config.enabled = TRUE])
      BY OpenedKept DEF Kept, Saved, Config
    <3> QED BY <2>3, <3>1, LaunchedQuiet DEF Start
  <2>4. CASE Sync
    BY <2>4, OpenedKept, LaunchedQuiet DEF Sync
  <2> QED BY <2>1, <2>2, <2>3, <2>4
<1>4. Asks(action', saved.config.lookback)
  BY <1>1 DEF Sane
<1> QED BY <1>1, <1>2, <1>3, <1>4 DEF Quiet

LEMMA StoppingKept ==
  ASSUME NEW db, Kept(db)
  PROVE  /\ Kept(Stopping(db)) /\ Kept(Paused(db))
         /\ Kept([db EXCEPT !.state = "paused", !.due = FALSE])
         /\ Kept([db EXCEPT !.state = "running"])
         /\ \A enabled \in BOOLEAN : Kept([db EXCEPT !.state = "paused", !.due = enabled])
BY DEF Stopping, Paused, Kept, Saved, Config

LEMMA EndedQuiet ==
  ASSUME Sane, NEW db, Kept(db), NEW state \in {"idle", "paused"}, NEW enabled \in BOOLEAN,
         Ended(db, state, enabled)
  PROVE  Kept(saved') /\ Holds(task') /\ Rests
<1>1. saved' = [db EXCEPT !.state = state, !.config.enabled = enabled, !.due = enabled]
  BY DEF Ended
<1>2. Kept(saved')
  BY <1>1 DEF Kept, Saved, Config
<1>3. Holds(task') /\ Rests
  BY HoldsNothing DEF Ended, Rests
<1> QED BY <1>2, <1>3

LEMMA FailedQuiet ==
  ASSUME Sane, Failed(saved)
  PROVE  Kept(saved') /\ Holds(task') /\ Rests /\ faults' \in 0..MaxFaults
<1>1. saved.config.enabled \in BOOLEAN
  BY DEF Sane, Dated, Saved, Config
<1> QED BY <1>1, OpenedKept, EndedQuiet, Counted DEF Failed

LEMMA CancelledRests ==
  ASSUME Sane, task' = [task EXCEPT !.cancelled = TRUE]
  PROVE  Holds(task') /\ Rests
BY DEF Sane, Holds, Rests, TaskType

LEMMA RunQuiet ==
  ASSUME Sane, \/ Cancelled \/ Begin \/ Discovered \/ Crash \/ Shutdown
               \/ Scan /\ Failed(saved) /\ UNCHANGED promised
               \/ Page /\ (Failed(saved) \/ (Ended(saved, "idle", saved.config.enabled) /\ UNCHANGED faults))
               \/ Threads /\ Fault("systemic") /\ Ended(saved, "idle", FALSE)
  PROVE  Quiet
<1>1. UNCHANGED <<now, mail, promised>>
  BY DEF Cancelled, Begin, Discovered, Crash, Shutdown, Scan, Page, Threads
<1>2. /\ saved.config.enabled \in BOOLEAN /\ host \in HostType
      /\ Asks(action, saved.config.lookback) /\ Asks(NoAction, saved.config.lookback)
  BY DEF Sane, Dated, Saved, Config, Asks, NoAction, ActionType
<1>3. Asks(action', saved.config.lookback) /\ host' \in HostType
  BY <1>2, HostTypes DEF Cancelled, Begin, Discovered, Crash, Shutdown, Scan, Page, Threads
<1>4. Kept(saved') /\ Holds(task') /\ Rests /\ faults' \in 0..MaxFaults
  <2>1. CASE Cancelled
    <3>1. faults' \in 0..MaxFaults
      BY <2>1, Counted DEF Cancelled
    <3>2. CASE task.at = "queued"
      <4>1. task' = NoTask /\ saved' = saved
        BY <2>1, <3>2 DEF Cancelled
      <4> QED BY <3>1, <4>1, OpenedKept, HoldsNothing DEF Rests
    <3>3. CASE task.at # "queued"
      <4>1. Ended(saved, "paused", saved.config.enabled)
        BY <2>1, <3>3 DEF Cancelled
      <4> QED BY <1>2, <3>1, <4>1, OpenedKept, EndedQuiet
    <3> QED BY <3>2, <3>3
  <2>2. CASE Begin
    <3>1. faults' \in 0..MaxFaults
      BY <2>2, Counted DEF Begin
    <3>2. saved' = [saved EXCEPT !.state = "running"] /\ task' = [NoTask EXCEPT !.at = "discover"]
      BY <2>2 DEF Begin, Goto
    <3> QED BY <3>1, <3>2, OpenedKept, StoppingKept, HoldsNothing DEF Rests
  <2>3. CASE Discovered
    <3>1. CASE task' = Goto("bank") /\ UNCHANGED <<saved, faults>>
      BY <3>1, Counted, OpenedKept, HoldsNothing DEF Rests, Goto
    <3>2. CASE AccountChanged
      BY <3>2, Counted, OpenedKept, EndedQuiet DEF AccountChanged
    <3> QED BY <2>3, <3>1, <3>2, FailedQuiet DEF Discovered
  <2>4. CASE Crash
    <3>1. faults' \in 0..MaxFaults /\ task' = NoTask /\ saved' = saved
      BY <2>4, Counted DEF Crash
    <3> QED BY <3>1, OpenedKept, HoldsNothing DEF Rests
  <2>5. CASE Shutdown
    <3>1. faults' \in 0..MaxFaults /\ task' = NoTask
      BY <2>5, Counted DEF Shutdown
    <3>2. Kept(saved')
      BY <1>2, <2>5, OpenedKept, StoppingKept DEF Shutdown
    <3> QED BY <3>1, <3>2, HoldsNothing DEF Rests
  <2>6. CASE Failed(saved)
    BY <2>6, FailedQuiet
  <2>7. CASE Page /\ Ended(saved, "idle", saved.config.enabled) /\ UNCHANGED faults
    BY <1>2, <2>7, Counted, OpenedKept, EndedQuiet
  <2>8. CASE Threads /\ Fault("systemic") /\ Ended(saved, "idle", FALSE)
    BY <2>8, Counted, OpenedKept, EndedQuiet
  <2> QED BY <2>1, <2>2, <2>3, <2>4, <2>5, <2>6, <2>7, <2>8
<1> QED BY <1>1, <1>3, <1>4 DEF Quiet

LEMMA PauseQuiet ==
  ASSUME Sane, Pause
  PROVE  Quiet
<1>1. UNCHANGED <<now, mail, promised>> /\ faults' \in 0..MaxFaults
  BY Counted DEF Pause
<1>2. /\ host \in HostType /\ Asks(action, saved.config.lookback)
      /\ Asks([NoAction EXCEPT !.at = "pause"], saved.config.lookback)
  BY DEF Sane, Asks, NoAction, ActionType
<1>3. CASE task.at = "off"
  <2>1. /\ saved' = Paused(Current) /\ host' = [Down EXCEPT !.up = TRUE]
        /\ task' = task /\ action' = action
    BY <1>3 DEF Pause
  <2>2. Holds(task') /\ Rests
    BY <2>1 DEF Sane, Rests
  <2> QED BY <1>1, <1>2, <2>1, <2>2, OpenedKept, StoppingKept, HostTypes DEF Quiet
<1>4. CASE task.at # "off"
  <2>1. /\ saved' = Stopping(saved) /\ host' = host
        /\ task' = [task EXCEPT !.cancelled = TRUE]
        /\ action' = [NoAction EXCEPT !.at = "pause"]
    BY <1>4 DEF Pause
  <2> QED BY <1>1, <1>2, <2>1, OpenedKept, StoppingKept, CancelledRests DEF Quiet
<1> QED BY <1>3, <1>4

\* configure() at work: the settings it found, and those it is to leave.
Rewritten(db, base, updated, model) ==
  /\ Kept(db) /\ base \in Config /\ updated \in Config /\ updated # base
  /\ updated.enabled = base.enabled /\ base.lookback = saved.config.lookback
  /\ Write(db, base, updated, model)
  /\ UNCHANGED <<now, mail>> /\ faults' \in 0..MaxFaults

LEMMA ConfigureKinds ==
  ASSUME Sane, Configure
  PROVE  \/ Quiet
         \/ \E base, updated \in Config, model \in BOOLEAN : Rewritten(Current, base, updated, model)
<1>1. PICK folders \in SUBSET Folder, days \in Lookback, model \in BOOLEAN :
        LET base == saved.config
            updated == [base EXCEPT !.folders = folders, !.lookback = days]
        IN /\ updated # base
           /\ IF model THEN FaultTwice("builder") ELSE Fault("configure")
           /\ CASE task.at # "off" ->
                     /\ saved' = Stopping(saved)
                     /\ task' = [task EXCEPT !.cancelled = TRUE]
                     /\ action' = [at |-> "reconfigure", base |-> base, updated |-> updated,
                                   model |-> model]
                     /\ UNCHANGED <<host, promised>>
                [] task.at = "off" /\ model ->
                     /\ saved' = Current
                     /\ action' = [at |-> "closing", base |-> base, updated |-> updated,
                                   model |-> model]
                     /\ host' = Loaded
                     /\ UNCHANGED <<task, promised>>
                [] OTHER -> Write(Current, base, updated, model)
  BY DEF Configure
<1> DEFINE base == saved.config
           updated == [base EXCEPT !.folders = folders, !.lookback = days]
<1>2. /\ base \in Config /\ updated \in Config /\ updated # base
      /\ updated.enabled = base.enabled
  <2>1. base \in Config
    BY DEF Sane, Dated, Saved
  <2> QED BY <1>1, <2>1 DEF Config
<1>3. faults' \in 0..MaxFaults /\ UNCHANGED <<now, mail>>
  BY <1>1, Counted DEF Configure
<1> HIDE DEF updated
<1>4. CASE task.at # "off"
  <2>1. /\ saved' = Stopping(saved) /\ task' = [task EXCEPT !.cancelled = TRUE]
        /\ action' = [at |-> "reconfigure", base |-> base, updated |-> updated, model |-> model]
        /\ UNCHANGED <<host, promised>>
    BY <1>1, <1>4 DEF updated
  <2>2. Asks(action', base.lookback)
    BY <1>2, <2>1, NoneAssumption DEF Asks, ActionType
  <2>3. host' \in HostType
    BY <2>1 DEF Sane
  <2> QED BY <1>3, <2>1, <2>2, <2>3, OpenedKept, StoppingKept, CancelledRests DEF Quiet
<1>5. CASE task.at = "off" /\ model
  <2>1. /\ saved' = Current /\ UNCHANGED <<task, promised>> /\ host' = Loaded
        /\ action' = [at |-> "closing", base |-> base, updated |-> updated, model |-> model]
    BY <1>1, <1>5 DEF updated
  <2>2. Asks(action', base.lookback)
    BY <1>2, <2>1, NoneAssumption DEF Asks, ActionType
  <2>3. Holds(task') /\ Rests
    BY <2>1 DEF Sane, Rests
  <2> QED BY <1>3, <2>1, <2>2, <2>3, OpenedKept, HostTypes DEF Quiet
<1>6. CASE task.at = "off" /\ ~model
  <2>1. Write(Current, base, updated, model)
    BY <1>1, <1>6 DEF updated
  <2> QED BY <1>2, <1>3, <2>1, OpenedKept DEF Rewritten
<1> QED BY <1>4, <1>5, <1>6

LEMMA GatheredKinds ==
  ASSUME Sane, Gathered \/ BuilderClosed
  PROVE  \/ Quiet
         \/ \E db, base, updated, model : Rewritten(db, base, updated, model)
<1> DEFINE rested == [saved EXCEPT !.state = "paused", !.due = FALSE]
<1>1. /\ UNCHANGED <<now, mail>> /\ faults' \in 0..MaxFaults
  BY Counted DEF Gathered, BuilderClosed
<1>2. Kept(saved) /\ Kept(rested)
  BY OpenedKept, StoppingKept
<1>3. action.at \in {"reconfigure", "closing"} =>
        /\ action.base \in Config /\ action.updated \in Config /\ action.updated # action.base
        /\ action.updated.enabled = action.base.enabled
        /\ action.base.lookback = saved.config.lookback
  BY DEF Sane, Asks, ActionType
<1>4. Asks(NoAction, saved.config.lookback)
  BY DEF Sane, Asks, NoAction, ActionType
<1>5. Holds(task) /\ host \in HostType
  BY DEF Sane
<1> HIDE DEF rested
<1>6. CASE Gathered /\ action.at = "pause"
  <2>1. /\ saved' = rested /\ action' = NoAction /\ host' = [Down EXCEPT !.up = TRUE]
        /\ UNCHANGED <<task, promised>>
    BY <1>6 DEF Gathered, rested
  <2> QED BY <1>1, <1>2, <1>4, <1>5, <2>1, HostTypes DEF Quiet, Rests
<1>7. CASE Gathered /\ action.at = "reconfigure" /\ action.model
  <2>1. /\ saved' = rested /\ action' = [action EXCEPT !.at = "closing"]
        /\ UNCHANGED <<task, host, promised>>
    BY <1>7 DEF Gathered, rested
  <2>2. Asks(action', saved.config.lookback)
    BY <1>7, <2>1 DEF Sane, Asks, ActionType
  <2> QED BY <1>1, <1>2, <1>5, <2>1, <2>2 DEF Quiet, Rests
<1>8. CASE Gathered /\ action.at = "reconfigure" /\ ~action.model
  <2>1. Write(rested, action.base, action.updated, FALSE)
    BY <1>8 DEF Gathered, rested
  <2> QED BY <1>1, <1>2, <1>3, <1>8, <2>1 DEF Rewritten
<1>9. CASE BuilderClosed
  <2>1. action.at = "closing" /\ Write(saved, action.base, action.updated, TRUE)
    BY <1>9 DEF BuilderClosed
  <2> QED BY <1>1, <1>2, <1>3, <2>1 DEF Rewritten
<1> QED BY <1>6, <1>7, <1>8, <1>9 DEF Gathered

Wider(db, base, updated) == updated.lookback > base.lookback /\ db.history # None
Narrower(db, base, updated) == updated.lookback < base.lookback /\ db.history # None

\* The history configure() leaves.
Since(db, base, updated) ==
  LET from == now - updated.lookback
  IN CASE Wider(db, base, updated) -> IF from < db.history THEN from ELSE db.history
       [] Narrower(db, base, updated) -> from
       [] OTHER -> db.history

LEMMA SinceType ==
  ASSUME Sane, NEW db, Kept(db), NEW base \in Config, NEW updated \in Config
  PROVE  /\ Since(db, base, updated) \in Time \cup {None}
         /\ Since(db, base, updated) = None <=> db.history = None
         /\ db.history # None => Since(db, base, updated) <= now
         /\ ~Wider(db, base, updated) /\ ~Narrower(db, base, updated)
              => Since(db, base, updated) = db.history
<1>1. /\ updated.lookback \in Nat /\ updated.lookback <= Start0 /\ now \in Nat /\ now >= Start0
      /\ now <= MaxNow /\ MaxNow \in Nat /\ Start0 \in Nat
  <2>1. updated.lookback \in Lookback
    BY DEF Config
  <2>2. now \in 0..MaxNow /\ now >= Start0
    BY DEF Sane, Time
  <2>3. updated.lookback \in Nat /\ updated.lookback <= Start0
    BY <2>1, ScanAssumption
  <2>4. now \in Nat /\ now <= MaxNow
    BY <2>2, ScanAssumption
  <2> QED BY <2>2, <2>3, <2>4, ScanAssumption
<1>2. now - updated.lookback \in Time /\ now - updated.lookback <= now
  BY <1>1 DEF Time
<1>3. db.history \in Time \cup {None} /\ (db.history # None => db.history <= now)
  BY DEF Sane, Dated, Kept, Saved
<1>4. None \notin Time
  BY <1>1, ScanAssumption DEF Time
<1>5. CASE Wider(db, base, updated)
  BY <1>1, <1>2, <1>3, <1>4, <1>5 DEF Since, Wider
<1>6. CASE ~Wider(db, base, updated) /\ Narrower(db, base, updated)
  BY <1>1, <1>2, <1>3, <1>4, <1>6 DEF Since, Narrower
<1>7. CASE ~Wider(db, base, updated) /\ ~Narrower(db, base, updated)
  BY <1>3, <1>4, <1>7 DEF Since
<1> QED BY <1>5, <1>6, <1>7

\* The settings after each of configure()'s writes.
Reselected(db, base, updated) ==
  IF updated.folders # base.folders THEN [db EXCEPT !.window = None] ELSE db

Moved(db, base, updated) ==
  [Reselected(db, base, updated) EXCEPT !.history = Since(db, base, updated)]

Reset(db, base, updated) ==
  IF Wider(db, base, updated) THEN [Moved(db, base, updated) EXCEPT !.marks = NoMarks]
  ELSE Moved(db, base, updated)

Rewound(db, base, updated) ==
  IF Wider(db, base, updated) \/ Narrower(db, base, updated)
  THEN [Reset(db, base, updated) EXCEPT !.window = None] ELSE Reset(db, base, updated)

Configured(db, base, updated) ==
  [Rewound(db, base, updated) EXCEPT !.config = updated, !.due = updated.enabled]

LEMMA WritesAre ==
  ASSUME Sane, NEW db, Kept(db), NEW base \in Config, NEW updated \in Config
  PROVE  /\ Writes(db, base, updated)[1] = Reselected(db, base, updated)
         /\ Writes(db, base, updated)[2] = Moved(db, base, updated)
         /\ Writes(db, base, updated)[3] = Reset(db, base, updated)
         /\ Writes(db, base, updated)[4] = Rewound(db, base, updated)
         /\ Writes(db, base, updated)[5] = Configured(db, base, updated)
<1> DEFINE folders == Reselected(db, base, updated)
           wider == Wider(db, base, updated)
           narrower == Narrower(db, base, updated)
           from == now - updated.lookback
           old == CASE wider -> [folders EXCEPT !.history = IF from < @ THEN from ELSE @]
                    [] narrower -> [folders EXCEPT !.history = from]
                    [] OTHER -> folders
           history == [folders EXCEPT !.history = Since(db, base, updated)]
           marks == IF wider THEN [history EXCEPT !.marks = NoMarks] ELSE history
           window == IF wider \/ narrower THEN [marks EXCEPT !.window = None] ELSE marks
<1>1. folders \in Saved /\ folders.history = db.history
  BY DEF Kept, Saved, Reselected
<1>2. old = history
  <2> HIDE DEF folders
  <2>1. CASE wider
    BY <1>1, <2>1 DEF Since
  <2>2. CASE ~wider /\ narrower
    BY <1>1, <2>2 DEF Since
  <2>3. CASE ~wider /\ ~narrower
    <3>1. Since(db, base, updated) = folders.history
      BY <1>1, <2>3, SinceType
    <3>2. [folders EXCEPT !.history = folders.history] = folders
      BY <1>1 DEF Saved
    <3>3. old = folders
      BY <2>3
    <3> HIDE DEF old
    <3> QED BY <3>1, <3>2, <3>3
  <2> QED BY <2>1, <2>2, <2>3
<1>3. Writes(db, base, updated) =
        <<folders, old, IF wider THEN [old EXCEPT !.marks = NoMarks] ELSE old,
          IF wider \/ narrower
            THEN [(IF wider THEN [old EXCEPT !.marks = NoMarks] ELSE old) EXCEPT !.window = None]
            ELSE IF wider THEN [old EXCEPT !.marks = NoMarks] ELSE old,
          [(IF wider \/ narrower
            THEN [(IF wider THEN [old EXCEPT !.marks = NoMarks] ELSE old) EXCEPT !.window = None]
            ELSE IF wider THEN [old EXCEPT !.marks = NoMarks] ELSE old)
           EXCEPT !.config = updated, !.due = updated.enabled]>>
  BY DEF Writes, Wider, Narrower, Reselected
<1>4. Writes(db, base, updated) =
        <<folders, history, marks, window,
          [window EXCEPT !.config = updated, !.due = updated.enabled]>>
  <2> HIDE DEF folders, old, wider, narrower, history
  <2> QED BY <1>2, <1>3
<1> HIDE DEF folders, old, wider, narrower, history, marks, window
<1>5. /\ Writes(db, base, updated)[1] = folders /\ Writes(db, base, updated)[2] = history
      /\ Writes(db, base, updated)[3] = marks /\ Writes(db, base, updated)[4] = window
      /\ Writes(db, base, updated)[5] =
           [window EXCEPT !.config = updated, !.due = updated.enabled]
  BY <1>4
<1> QED BY <1>5 DEF folders, wider, narrower, history, marks, window, Moved, Reset, Rewound, Configured

\* Each write leaves settings that fit each other as far as types go; the last one leaves no
\* window, and watermarks only with a history that has not grown.
LEMMA WritesFit ==
  ASSUME Sane, NEW db, Kept(db), NEW base \in Config, NEW updated \in Config
  PROVE  /\ \A k \in 1..5 : Dated(Writes(db, base, updated)[k])
         /\ \A k \in 1..4 : Writes(db, base, updated)[k].config.lookback = saved.config.lookback
         /\ LET last == Writes(db, base, updated)[5]
            IN /\ last.config = updated
               /\ last.sources = saved.sources /\ last.errors = saved.errors
               /\ last.history = Since(db, base, updated)
               /\ last.marks = IF Wider(db, base, updated) THEN NoMarks ELSE saved.marks
               /\ last.window = None \/ (last.window = saved.window
                                         /\ updated.folders = base.folders
                                         /\ ~Wider(db, base, updated) /\ ~Narrower(db, base, updated))
<1> DEFINE folders == Reselected(db, base, updated)
           wider == Wider(db, base, updated)
           narrower == Narrower(db, base, updated)
<1> DEFINE history == [folders EXCEPT !.history = Since(db, base, updated)]
           marks == IF wider THEN [history EXCEPT !.marks = NoMarks] ELSE history
           window == IF wider \/ narrower THEN [marks EXCEPT !.window = None] ELSE marks
           last == [window EXCEPT !.config = updated, !.due = updated.enabled]
<1>1. /\ Writes(db, base, updated)[1] = folders /\ Writes(db, base, updated)[2] = history
      /\ Writes(db, base, updated)[3] = marks /\ Writes(db, base, updated)[4] = window
      /\ Writes(db, base, updated)[5] = last
  <2>1. /\ Moved(db, base, updated) = history /\ Reset(db, base, updated) = marks
        /\ Rewound(db, base, updated) = window /\ Configured(db, base, updated) = last
    BY DEF Moved, Reset, Rewound, Configured
  <2> HIDE DEF history, marks, window, last
  <2> QED BY <2>1, WritesAre
<1>2. /\ Since(db, base, updated) \in Time \cup {None}
      /\ Since(db, base, updated) = None <=> db.history = None
      /\ db.history # None => Since(db, base, updated) <= now
      /\ wider => db.history # None
  BY SinceType DEF Wider
<1>3. /\ db.history = saved.history /\ db.marks = saved.marks /\ db.window = saved.window
      /\ db.sources = saved.sources /\ db.errors = saved.errors
      /\ db.config.lookback = saved.config.lookback
      /\ saved.history = None => saved.window = None /\ saved.marks = NoMarks
      /\ saved.history # None => saved.history <= now
      /\ db \in Saved /\ NoMarks \in [Folder -> Time \cup {None}]
  BY DEF Kept, Sane, Dated, NoMarks
<1>4. /\ folders \in Saved /\ folders.history = db.history /\ folders.marks = db.marks
      /\ folders.window \in {None, db.window} /\ folders.config = db.config
      /\ folders.sources = db.sources /\ folders.errors = db.errors
      /\ folders.window # None => updated.folders = base.folders
  BY <1>3 DEF Saved, Reselected
<1> HIDE DEF folders, wider, narrower
<1>5. /\ history \in Saved /\ history.marks = db.marks /\ history.window = folders.window
      /\ history.history = Since(db, base, updated) /\ history.config = db.config
      /\ history.sources = db.sources /\ history.errors = db.errors
  BY <1>2, <1>4 DEF Saved
<1> HIDE DEF history
<1>6. /\ marks \in Saved /\ marks.marks = IF wider THEN NoMarks ELSE db.marks
      /\ marks.window = folders.window /\ marks.history = Since(db, base, updated)
      /\ marks.config = db.config /\ marks.sources = db.sources /\ marks.errors = db.errors
  BY <1>3, <1>5 DEF Saved
<1> HIDE DEF marks
<1>7. /\ window \in Saved /\ window.marks = marks.marks
      /\ window.window = IF wider \/ narrower THEN None ELSE folders.window
      /\ window.history = Since(db, base, updated)
      /\ window.config = db.config /\ window.sources = db.sources /\ window.errors = db.errors
  BY <1>6 DEF Saved
<1> HIDE DEF window
<1>8. /\ last \in Saved /\ last.marks = marks.marks /\ last.window = window.window
      /\ last.history = Since(db, base, updated) /\ last.config = updated
      /\ last.sources = db.sources /\ last.errors = db.errors
  BY <1>7 DEF Saved, Config
<1> HIDE DEF last
<1>9. Dated(folders) /\ Dated(history) /\ Dated(marks) /\ Dated(window) /\ Dated(last)
  BY <1>2, <1>3, <1>4, <1>5, <1>6, <1>7, <1>8 DEF Dated
<1>10. /\ Writes(db, base, updated)[1] = folders /\ Writes(db, base, updated)[2] = history
       /\ Writes(db, base, updated)[3] = marks /\ Writes(db, base, updated)[4] = window
       /\ Writes(db, base, updated)[5] = last
  BY <1>1 DEF history, marks, window, last
<1>11. /\ \A k \in 1..5 : Dated(Writes(db, base, updated)[k])
  BY <1>9, <1>10
<1>12. \A k \in 1..4 : Writes(db, base, updated)[k].config.lookback = saved.config.lookback
  BY <1>3, <1>4, <1>5, <1>6, <1>7, <1>10
<1> QED BY <1>3, <1>4, <1>6, <1>7, <1>8, <1>10, <1>11, <1>12 DEF wider, narrower

\* All of configure()'s writes were made, or the process died between two of them.
Whole(db, base, updated) ==
  /\ saved' = Writes(db, base, updated)[5] /\ promised' = Promised(saved') /\ UNCHANGED task

Torn(db, base, updated) ==
  /\ "torn" \in Faults /\ \E k \in 1..4 : saved' = Writes(db, base, updated)[k]
  /\ task' = NoTask /\ promised' = Nothing

LEMMA RewrittenIs ==
  ASSUME Sane, NEW db, NEW base, NEW updated, NEW model, Rewritten(db, base, updated, model)
  PROVE  /\ UNCHANGED <<now, mail>> /\ faults' \in 0..MaxFaults /\ action' = NoAction
         /\ host' \in HostType /\ Kept(db) /\ base \in Config /\ updated \in Config
         /\ updated # base /\ base.lookback = saved.config.lookback
         /\ Whole(db, base, updated) \/ Torn(db, base, updated)
BY HostTypes DEF Rewritten, Write, Whole, Torn

LEMMA RewrittenSane ==
  ASSUME Sane, NEW db, NEW base, NEW updated, NEW model, Rewritten(db, base, updated, model)
  PROVE  Sane'
<1>1. /\ UNCHANGED <<now, mail>> /\ faults' \in 0..MaxFaults /\ action' = NoAction
      /\ host' \in HostType /\ Kept(db) /\ base \in Config /\ updated \in Config
      /\ Whole(db, base, updated) \/ Torn(db, base, updated)
  BY RewrittenIs
<1>2. Asks(action', saved'.config.lookback)
  BY <1>1 DEF Asks, NoAction, ActionType
<1>3. CASE Torn(db, base, updated)
  <2>1. PICK k \in 1..4 : saved' = Writes(db, base, updated)[k]
    BY <1>3 DEF Torn
  <2>2. k \in 1..5
    BY <2>1
  <2>3. Dated(Writes(db, base, updated)[k])
    BY <1>1, <2>2, WritesFit
  <2>4. Dated(saved)'
    BY <1>1, <2>1, <2>3 DEF Dated
  <2>5. task' = NoTask /\ promised' = Nothing
    BY <1>3 DEF Torn
  <2> QED BY <1>1, <1>2, <2>4, <2>5, HoldsNothing DEF Sane
<1>4. CASE Whole(db, base, updated)
  <2>1. saved' = Writes(db, base, updated)[5] /\ promised' = Promised(saved') /\ task' = task
    BY <1>4 DEF Whole
  <2>2. Dated(Writes(db, base, updated)[5])
    BY <1>1, WritesFit
  <2>3. Dated(saved)'
    BY <1>1, <2>1, <2>2 DEF Dated
  <2>4. saved'.history = Since(db, base, updated)
    BY <1>1, <2>1, WritesFit
  <2>5. saved'.history \in Time \cup {None} /\ (saved'.history = None <=> saved.history = None)
    BY <1>1, <2>4, SinceType DEF Kept
  <2>6. promised' \in Time \cup {None, Nothing} /\ (promised' # Nothing => promised' = saved'.history)
    BY <2>1, <2>5 DEF Promised
  <2> QED BY <1>1, <1>2, <2>1, <2>3, <2>5, <2>6 DEF Sane
<1> QED BY <1>1, <1>3, <1>4

-----------------------------------------------------------------------------
(* The mailbox *)

LEMMA MailboxSane ==
  ASSUME Sane, Mailbox
  PROVE  Sane' /\ UNCHANGED <<saved, task, action, host, promised>>
<1>1. UNCHANGED <<saved, task, action, host, promised, faults>>
  BY DEF Mailbox, Tick, Arrive, Repair, Leave
<1>2. now \in Nat /\ now' \in Time /\ now' >= now
  <2>1. MaxNow \in Nat /\ now \in 0..MaxNow
    BY ScanAssumption DEF Sane, Time
  <2>2. CASE Tick
    <3>1. now < MaxNow /\ now' = now + 1
      BY <2>2 DEF Tick
    <3> QED BY <2>1, <3>1 DEF Time
  <2>3. CASE UNCHANGED now
    BY <2>1, <2>3 DEF Time
  <2> QED BY <2>2, <2>3 DEF Mailbox, Arrive, Repair, Leave
<1>3. mail' \in [Message -> MailType]
  <2>1. CASE Tick
    BY <2>1 DEF Tick, Sane
  <2>2. ASSUME NEW m \in Message, Arrive(m) PROVE mail' \in [Message -> MailType]
    <3>1. PICK f \in Folder, late \in 0..Delay, whole \in BOOLEAN :
            /\ late <= now
            /\ mail' = [mail EXCEPT ![m] = [folder |-> f, received |-> now - late, whole |-> whole,
                                       since |-> IF whole THEN now ELSE 0, present |-> TRUE]]
      BY <2>2 DEF Arrive
    <3>2. now - late \in Time /\ now \in Time /\ 0 \in Time
      <4>1. late \in Nat /\ MaxNow \in Nat
        BY ScanAssumption
      <4> QED BY <3>1, <4>1 DEF Sane, Time
    <3> QED BY <3>1, <3>2 DEF Sane, MailType
  <2>3. ASSUME NEW m \in Message, Repair(m) PROVE mail' \in [Message -> MailType]
    BY <2>3 DEF Repair, Sane, MailType
  <2>4. ASSUME NEW m \in Message, Leave(m) PROVE mail' \in [Message -> MailType]
    <3>1. 0 \in Time
      BY ScanAssumption DEF Time
    <3> QED BY <2>4, <3>1 DEF Leave, Sane, MailType, NoMail
  <2> QED BY <2>1, <2>2, <2>3, <2>4 DEF Mailbox
<1>4. Dated(saved)'
  <2>1. saved.history \in Time \cup {None} /\ Start0 \in Nat
    BY ScanAssumption DEF Sane, Dated, Saved
  <2>2. saved.history # None => saved.history <= now'
    BY <1>2, <2>1 DEF Sane, Dated, Time
  <2> QED BY <1>1, <2>2 DEF Sane, Dated
<1>5. now' >= Start0
  BY <1>2, ScanAssumption DEF Sane, Time
<1> QED BY <1>1, <1>2, <1>3, <1>4, <1>5 DEF Sane

-----------------------------------------------------------------------------
(* The run *)

LEMMA FromType ==
  ASSUME NEW db \in Saved, db.history # None, NEW f \in Folder
  PROVE  /\ From(db, f) \in Time /\ From(db, f) >= db.history
         /\ db.marks[f] # None => db.marks[f] \in Time /\ From(db, f) >= db.marks[f] - Overlap
<1>1. db.history \in Time /\ db.marks[f] \in Time \cup {None}
  BY DEF Saved
<1>2. Overlap \in Nat /\ MaxNow \in Nat
  BY ScanAssumption
<1> QED BY <1>1, <1>2 DEF From, Time

LEMMA FirstFolder ==
  ASSUME NEW window \in Window, window.todo # {}
  PROVE  Min(window.todo) \in Folder /\ Min(window.todo) \in window.todo
<1>1. window.todo \in SUBSET Folder /\ window.todo \in SUBSET Nat
  BY ScanAssumption DEF Window
<1> QED BY <1>1, MinOf

LEMMA RequestHolds ==
  ASSUME NEW db \in Saved, db.history # None, NEW window \in Window, Request(db, window)
  PROVE  /\ Holds(task')
         /\ task'.at = "page" => /\ task'.window = window /\ task'.marks = db.marks
                                 /\ task'.start = From(db, Min(window.todo))
<1>1. CASE window.todo = {}
  <2>1. task' = [NoTask EXCEPT !.at = "threads"]
    BY <1>1 DEF Request, Goto
  <2> QED BY <2>1, HoldsNothing
<1>2. CASE window.todo # {}
  <2> DEFINE start == From(db, Min(window.todo))
  <2>1. start \in Time
    BY <1>2, FirstFolder, FromType
  <2> HIDE DEF start
  <2>2. task' = [at |-> "page", window |-> window, marks |-> db.marks, start |-> start,
                 cancelled |-> FALSE]
    BY <1>2 DEF Request, start
  <2>3. db.marks \in [Folder -> Time \cup {None}]
    BY DEF Saved
  <2>4. window # None /\ db.marks # None /\ start # None
    BY <2>1, <2>3, NoneAssumption, ScanAssumption DEF Time
  <2>5. Holds(task')
    BY <1>2, <2>1, <2>2, <2>3, <2>4 DEF Holds, TaskType
  <2> QED BY <2>2, <2>5 DEF start
<1> QED BY <1>1, <1>2

\* _scan has read the settings: a history, and a window that is resumed or new.
Scanned ==
  /\ UNCHANGED <<now, mail, action, host, faults>>
  /\ saved' \in Saved /\ saved'.config = saved.config
  /\ saved'.sources = saved.sources /\ saved'.errors = saved.errors
  /\ saved'.history = IF saved.history = None THEN now - saved.config.lookback ELSE saved.history
  /\ promised' = IF saved.history = None THEN saved'.history ELSE promised
  /\ saved'.window \in Window /\ Request(saved', saved'.window)

Resumes == /\ saved.window # None /\ saved.window.todo # {}
           /\ saved'.window = saved.window /\ saved'.marks = saved.marks

Opens ==
  /\ saved'.window = [end |-> now, todo |-> saved.config.folders, next |-> None]
  /\ \A f \in Folder :
       /\ saved'.marks[f] \in {None, saved.marks[f]}
       /\ f \in saved.config.folders /\ saved'.marks[f] # None
            => \A m \in saved.errors : mail[m].folder # f

LEMMA ScanKinds ==
  ASSUME Sane, Scan
  PROVE  \/ Failed(saved) /\ UNCHANGED promised
         \/ Scanned /\ (Resumes \/ Opens)
<1> DEFINE started == IF saved.history = None
                      THEN [saved EXCEPT !.history = now - saved.config.lookback] ELSE saved
           fresh == saved.window = None \/ (saved.window # None /\ saved.window.todo = {})
           window == [end |-> now, todo |-> saved.config.folders, next |-> None]
           db == IF fresh THEN [started EXCEPT !.marks = MarksToUse(started), !.window = window]
                 ELSE started
<1>2. CASE ~(Failed(saved) /\ UNCHANGED promised)
  <2>1. /\ saved' = db /\ promised' = IF saved.history = None THEN db.history ELSE promised
        /\ Request(db, db.window) /\ UNCHANGED faults
    BY <1>2 DEF Scan
  <2>2. UNCHANGED <<now, mail, action, host>>
    BY DEF Scan
  <2>3. saved \in Saved /\ saved.config \in Config /\ now \in Time /\ now - saved.config.lookback \in Time
    <3>1. saved \in Saved /\ saved.config \in Config /\ now \in 0..MaxNow /\ now >= Start0
      BY DEF Sane, Dated, Saved, Time
    <3>2. saved.config.lookback \in Lookback
      BY <3>1 DEF Config
    <3>3. saved.config.lookback \in Nat /\ saved.config.lookback <= Start0
      BY <3>2, ScanAssumption
    <3> QED BY <3>1, <3>3, ScanAssumption DEF Time
  <2>4. /\ started \in Saved /\ started.config = saved.config /\ started.sources = saved.sources
        /\ started.errors = saved.errors /\ started.marks = saved.marks /\ started.window = saved.window
        /\ started.history = IF saved.history = None THEN now - saved.config.lookback ELSE saved.history
    BY <2>3 DEF Saved
  <2> HIDE DEF started
  <2>5. window \in Window
    BY <2>3 DEF Window, Config
  <2> HIDE DEF window
  <2>6. MarksToUse(started) \in [Folder -> Time \cup {None}]
    BY <2>4 DEF MarksToUse, Saved
  <2>7. CASE fresh
    <3>1. db = [started EXCEPT !.marks = MarksToUse(started), !.window = window]
      BY <2>7
    <3>2. /\ db \in Saved /\ db.config = saved.config /\ db.sources = saved.sources
          /\ db.errors = saved.errors /\ db.history = started.history
          /\ db.marks = MarksToUse(started) /\ db.window = window
      BY <2>4, <2>5, <2>6, <3>1 DEF Saved
    <3> HIDE DEF db
    <3>3. Scanned
      BY <2>1, <2>2, <2>4, <2>5, <3>2 DEF Scanned
    <3>4. ASSUME NEW f \in Folder
          PROVE  /\ saved'.marks[f] \in {None, saved.marks[f]}
                 /\ f \in saved.config.folders /\ saved'.marks[f] # None
                      => \A m \in saved.errors : mail[m].folder # f
      BY <2>1, <2>4, <3>2 DEF MarksToUse
    <3>5. Opens
      BY <2>1, <3>2, <3>4 DEF Opens, window
    <3> QED BY <3>3, <3>5
  <2>8. CASE ~fresh
    <3>1. db = started /\ saved.window \in Window /\ saved.window.todo # {} /\ saved.window # None
      BY <2>3, <2>8 DEF Saved
    <3> HIDE DEF db
    <3> QED BY <2>1, <2>2, <2>4, <3>1 DEF Scanned, Resumes
  <2> QED BY <2>7, <2>8
<1> QED BY <1>2

LEMMA ScannedSane ==
  ASSUME Sane, Scanned
  PROVE  Sane'
<1>1. now \in Nat /\ saved.config.lookback \in Nat /\ saved.config.lookback <= now
  <2>1. saved.config \in Config /\ now \in 0..MaxNow /\ now >= Start0
    BY DEF Sane, Dated, Saved, Time
  <2>2. saved.config.lookback \in Lookback
    BY <2>1 DEF Config
  <2>3. saved.config.lookback \in Nat /\ saved.config.lookback <= Start0
    BY <2>2, ScanAssumption
  <2> QED BY <2>1, <2>3, ScanAssumption
<1>2. now - saved.config.lookback \in Nat /\ now - saved.config.lookback <= now
  BY <1>1
<1>3. saved'.history # None /\ saved'.history <= now /\ saved'.history \in Time
  BY <1>2, ScanAssumption DEF Scanned, Sane, Dated, Saved
<1>4. Dated(saved)'
  BY <1>3 DEF Scanned, Dated
<1>5. Holds(task') /\ Request(saved', saved'.window)
  BY <1>3, RequestHolds DEF Scanned
<1>6. promised' \in Time \cup {None, Nothing} /\ (promised' # Nothing => promised' = saved'.history)
  BY <1>3 DEF Scanned, Sane
<1>7. Asks(action', saved'.config.lookback)
  BY DEF Scanned, Sane
<1> QED BY <1>3, <1>4, <1>5, <1>6, <1>7 DEF Scanned, Sane

ListOf(window) == Listed(Min(window.todo), task.start, window.end)

PageOf(window) == FirstOf(Remaining(ListOf(window), window.next))

More(window) == Remaining(ListOf(window), window.next) \ PageOf(window) # {}

\* The cursor a page that is not the last comes with.
Onward(window, on) ==
  /\ on \in Cursor /\ on.start = task.start
  /\ window.next # None => on.by = window.next.by
  /\ on.at = IF on.by = "token" THEN Max(PageOf(window))
             ELSE Cardinality(PageOf(window)) + (IF window.next = None THEN 0 ELSE window.next.at)

\* A page has been recorded.
PageRead ==
  LET window == task.window
      folder == Min(window.todo)
  IN /\ UNCHANGED <<now, mail, action, host, promised, faults>>
     /\ task.at = "page" /\ ~Refused(window.next, task.start)
     /\ saved' \in Saved /\ saved'.config = saved.config /\ saved'.history = saved.history
     /\ saved'.sources = saved.sources \cup {m \in PageOf(window) : mail[m].whole}
     /\ saved'.errors = (saved.errors \ PageOf(window)) \cup {m \in PageOf(window) : ~mail[m].whole}
     /\ saved'.window \in Window /\ saved'.window.end = window.end
     /\ Request(saved', saved'.window)
     /\ \/ /\ More(window) /\ Onward(window, saved'.window.next)
           /\ saved'.window.todo = window.todo /\ saved'.marks = task.marks
        \/ /\ ~More(window) /\ saved'.window.next = None
           /\ saved'.window.todo = window.todo \ {folder}
           /\ saved'.marks = [task.marks EXCEPT ![folder] = window.end]

LEMMA ListTypes ==
  ASSUME Sane, NEW window \in Window
  PROVE  /\ ListOf(window) \in SUBSET Nat /\ ListOf(window) \in SUBSET Message
         /\ IsFiniteSet(ListOf(window))
         /\ Remaining(ListOf(window), window.next) \in SUBSET ListOf(window)
         /\ IsFiniteSet(Remaining(ListOf(window), window.next))
         /\ PageOf(window) \in SUBSET Remaining(ListOf(window), window.next)
         /\ IsFiniteSet(PageOf(window))
         /\ More(window) => PageOf(window) # {}
<1>1. ListOf(window) \in SUBSET Message
  BY DEF ListOf, Listed
<1>2. ListOf(window) \in SUBSET Nat /\ IsFiniteSet(ListOf(window))
  BY <1>1, FS_Subset, ScanAssumption
<1>3. Remaining(ListOf(window), window.next) \in SUBSET ListOf(window)
  BY <1>2, RemainingIs DEF Window
<1>4. /\ Remaining(ListOf(window), window.next) \in SUBSET Nat
      /\ IsFiniteSet(Remaining(ListOf(window), window.next))
  BY <1>2, <1>3, FS_Subset
<1>5. /\ PageOf(window) \in SUBSET Remaining(ListOf(window), window.next)
      /\ IsFiniteSet(PageOf(window))
      /\ Remaining(ListOf(window), window.next) # {} => PageOf(window) # {}
  BY <1>4, FrontOf DEF PageOf
<1> QED BY <1>1, <1>2, <1>3, <1>4, <1>5 DEF More

LEMMA PageKinds ==
  ASSUME Sane, Page
  PROVE  \/ Failed(saved)
         \/ Ended(saved, "idle", saved.config.enabled) /\ UNCHANGED faults
         \/ PageRead
<1> DEFINE window == task.window
           folder == Min(window.todo)
           page == PageOf(window)
           more == More(window)
<1>1. /\ task.at = "page" /\ window \in Window /\ window # None /\ window.todo # {}
      /\ task.start \in Time /\ task.marks \in [Folder -> Time \cup {None}]
  BY DEF Sane, Holds, TaskType, Page, Step
<1>2. UNCHANGED <<now, mail, action, host, promised>>
  BY DEF Page
<1>4. CASE ~(Failed(saved) \/ (Ended(saved, "idle", saved.config.enabled) /\ UNCHANGED faults))
  <2>1. /\ ~Refused(window.next, task.start) /\ UNCHANGED faults
        /\ \E by \in {"skip", "token"} :
                /\ window.next # None => by = window.next.by
                /\ (window.next = None /\ ~more) => by = "token"
                /\ LET next == [start |-> task.start, by |-> by,
                                at |-> IF by = "token" THEN Max(page)
                                       ELSE Cardinality(page) +
                                            (IF window.next = None THEN 0 ELSE window.next.at)]
                       left == [window EXCEPT !.next = IF more THEN next ELSE None,
                                              !.todo = IF more THEN @ ELSE @ \ {folder}]
                       marks == IF more THEN task.marks
                                ELSE [task.marks EXCEPT ![folder] = Marked(window)]
                       db == [Recorded(saved, page) EXCEPT !.marks = marks, !.window = left]
                   IN saved' = db /\ Request(db, left)
    BY <1>4 DEF Page, PageOf, ListOf, More
  <2>2. PICK by \in {"skip", "token"} :
                /\ window.next # None => by = window.next.by
                /\ LET next == [start |-> task.start, by |-> by,
                                at |-> IF by = "token" THEN Max(page)
                                       ELSE Cardinality(page) +
                                            (IF window.next = None THEN 0 ELSE window.next.at)]
                       left == [window EXCEPT !.next = IF more THEN next ELSE None,
                                              !.todo = IF more THEN @ ELSE @ \ {folder}]
                       marks == IF more THEN task.marks
                                ELSE [task.marks EXCEPT ![folder] = Marked(window)]
                       db == [Recorded(saved, page) EXCEPT !.marks = marks, !.window = left]
                   IN saved' = db /\ Request(db, left)
    BY <2>1
  <2> DEFINE at == IF by = "token" THEN Max(page)
                   ELSE Cardinality(page) + (IF window.next = None THEN 0 ELSE window.next.at)
             next == [start |-> task.start, by |-> by, at |-> at]
             left == [window EXCEPT !.next = IF more THEN next ELSE None,
                                    !.todo = IF more THEN @ ELSE @ \ {folder}]
             marks == IF more THEN task.marks ELSE [task.marks EXCEPT ![folder] = Marked(window)]
             db == [Recorded(saved, page) EXCEPT !.marks = marks, !.window = left]
  <2>3. saved' = db /\ Request(db, left)
    BY <2>2
  <2>4. page \in SUBSET Message /\ page \in SUBSET Nat /\ IsFiniteSet(page) /\ (more => page # {})
    BY <1>1, ListTypes
  <2>5. more => at \in Nat
    <3>1. Cardinality(page) \in Nat
      BY <2>4, FS_CardinalityType
    <3>2. more => Max(page) \in Nat
      BY <2>4, MaxOf
    <3>3. window.next # None => window.next.at \in Nat
      BY <1>1 DEF Window, Cursor
    <3> HIDE DEF page, more, window
    <3> QED BY <3>1, <3>2, <3>3
  <2> HIDE DEF at
  <2>6. more => Onward(window, next)
    BY <1>1, <2>2, <2>5 DEF Onward, Cursor, at
  <2>7. /\ left \in Window /\ left.end = window.end
        /\ left.next = IF more THEN next ELSE None
        /\ left.todo = IF more THEN window.todo ELSE window.todo \ {folder}
    <3>1. more => next \in Cursor
      BY <2>6 DEF Onward
    <3> HIDE DEF next, folder, more, window
    <3> QED BY <1>1, <3>1 DEF Window
  <2> HIDE DEF next, left
  <2>8. marks \in [Folder -> Time \cup {None}]
    BY <1>1 DEF Window, Marked
  <2>9. marks = IF more THEN task.marks ELSE [task.marks EXCEPT ![folder] = window.end]
    BY DEF Marked
  <2> HIDE DEF marks
  <2>10. saved \in Saved
    BY DEF Sane, Dated
  <2>11. /\ db \in Saved /\ db.config = saved.config /\ db.history = saved.history
         /\ db.sources = saved.sources \cup {m \in page : mail[m].whole}
         /\ db.errors = (saved.errors \ page) \cup {m \in page : ~mail[m].whole}
         /\ db.marks = marks /\ db.window = left
    <3> HIDE DEF page
    <3> QED BY <2>4, <2>7, <2>8, <2>10 DEF Recorded, Saved
  <2> HIDE DEF db
  <2>12. PageRead
    BY <1>1, <1>2, <2>1, <2>3, <2>6, <2>7, <2>9, <2>11 DEF PageRead
  <2> QED BY <2>12
<1> QED BY <1>4

LEMMA PageReadSane ==
  ASSUME Sane, PageRead
  PROVE  Sane'
<1>1. /\ UNCHANGED <<now, mail, action, host, promised, faults>> /\ task.at = "page"
      /\ saved' \in Saved /\ saved'.config = saved.config /\ saved'.history = saved.history
      /\ saved'.window \in Window /\ Request(saved', saved'.window)
  BY DEF PageRead
<1>2. saved.history # None
  BY <1>1 DEF Sane
<1>3. Holds(task')
  BY <1>1, <1>2, RequestHolds
<1> QED BY <1>1, <1>2, <1>3 DEF Sane, Dated

\* The run ends with its window.
Over == /\ UNCHANGED <<now, mail, action, host, promised, faults>>
        /\ saved' \in Saved /\ saved'.config.lookback = saved.config.lookback
        /\ saved'.history = saved.history /\ saved'.marks = saved.marks /\ saved'.window = None
        /\ saved'.sources = saved.sources /\ saved'.errors = saved.errors
        /\ task' = NoTask

LEMMA ThreadsKinds ==
  ASSUME Sane, Threads
  PROVE  Quiet \/ Over
<1>1. CASE Fault("systemic") /\ Ended(saved, "idle", FALSE)
  BY <1>1, RunQuiet
<1>2. CASE Ended([saved EXCEPT !.window = None], "idle", saved.config.enabled) /\ UNCHANGED faults
  <2>1. saved \in Saved
    BY DEF Sane, Dated
  <2>2. Over
    BY <1>2, <2>1 DEF Ended, Over, Threads, Saved, Config
  <2> QED BY <2>2
<1> QED BY <1>1, <1>2 DEF Threads

LEMMA OverSane ==
  ASSUME Sane, Over
  PROVE  Sane'
BY HoldsNothing DEF Sane, Over, Dated

\* Every step is one of these.
LEMMA StepKinds ==
  ASSUME Sane, Next
  PROVE  \/ Quiet \/ Mailbox \/ PageRead \/ Over
         \/ Scanned /\ (Resumes \/ Opens)
         \/ \E db, base, updated, model : Rewritten(db, base, updated, model)
<1>1. CASE Scan
  BY <1>1, ScanKinds, RunQuiet
<1>2. CASE Page
  BY <1>2, PageKinds, RunQuiet
<1>3. CASE Gathered \/ BuilderClosed
  BY <1>3, GatheredKinds
<1>4. CASE Configure
  BY <1>4, ConfigureKinds
<1> QED BY <1>1, <1>2, <1>3, <1>4, OpeningQuiet, RunQuiet, PauseQuiet, ThreadsKinds
        DEF Next, User, Run

LEMMA InitSane == Init => Sane
<1> SUFFICES ASSUME Init PROVE Sane
  OBVIOUS
<1>1. now = Start0 /\ now \in Time /\ 0 \in Time /\ now >= Start0
  BY ScanAssumption DEF Init, Time
<1>2. mail \in [Message -> MailType]
  <2>1. Existing \subseteq MailType /\ NoMail \in MailType
    <3>1. \A n \in 1..(Start0 - 1) : n \in Time
      BY ScanAssumption DEF Time
    <3> QED BY <1>1, <3>1 DEF Existing, MailType, NoMail
  <2> QED BY <2>1 DEF Init
<1>3. /\ saved \in Saved /\ saved.history = None /\ saved.window = None /\ saved.marks = NoMarks
  BY DEF Init, Saved, Config, NoMarks
<1>4. Asks(action, saved.config.lookback) /\ host \in HostType /\ promised = None /\ faults = 0
  BY DEF Init, Asks, NoAction, ActionType, Down, HostType
<1>5. Holds(task) /\ task.at # "page"
  BY HoldsNothing DEF Init
<1> QED BY <1>1, <1>2, <1>3, <1>4, <1>5, ScanAssumption DEF Sane, Dated

LEMMA SaneStep == Sane /\ [Next]_vars => Sane'
<1> SUFFICES ASSUME Sane, [Next]_vars PROVE Sane'
  OBVIOUS
<1>1. CASE UNCHANGED vars
  BY <1>1 DEF vars, Sane, Dated, Holds, Asks
<1>2. CASE Next
  BY <1>2, StepKinds, QuietSane, MailboxSane, PageReadSane, OverSane, ScannedSane, RewrittenSane
<1> QED BY <1>1, <1>2

LEMMA SaneInvariant == Spec => []Sane
BY InitSane, SaneStep, PTL DEF Spec

\* Types of the settings, the run, the action and the mailbox.
THEOREM TypeCorrect == Spec => []TypeOK
<1>1. Sane => TypeOK
  BY DEF Sane, Dated, Holds, Asks, TaskType, ActionType, HostType, MailType, TypeOK
<1> QED BY <1>1, SaneInvariant, PTL

-----------------------------------------------------------------------------
(* The schedule *)

\* Without a scheduler the connector is switched off, and the action in progress
\* will not switch it on again.
Announced ==
  /\ ~host.up => host = Down
  /\ action.at # "off" => host.up
  /\ action.at \in {"pause", "reconfigure"} => ~saved.config.enabled
  /\ host.up /\ ~host.scheduler =>
       /\ ~saved.config.enabled
       /\ action.at \in {"reconfigure", "closing"} => ~action.updated.enabled

LEMMA Fields ==
  ASSUME Sane
  PROVE  /\ saved \in Saved /\ saved.config \in Config /\ saved.config.enabled \in BOOLEAN
         /\ host \in HostType /\ task \in TaskType /\ action \in ActionType
         /\ host = [up |-> host.up, loaded |-> host.loaded, scheduler |-> host.scheduler]
         /\ Current \in Saved /\ Current.config = saved.config
BY DEF Sane, Dated, Saved, Config, Holds, Asks, HostType, Current, Opened

LEMMA CalmAnnounced ==
  ASSUME Sane, Announced, UNCHANGED <<host, action>>,
         saved'.config.enabled => saved.config.enabled
  PROVE  Announced'
BY DEF Announced

LEMMA RunAnnounced ==
  ASSUME Sane, Announced, Mailbox \/ Schedule \/ Run
  PROVE  Announced'
<1>1. UNCHANGED <<host, action>>
  BY DEF Mailbox, Tick, Arrive, Repair, Leave, Schedule, Run, Cancelled, Begin, Discovered, Scan,
     Page, Threads
<1>2. ASSUME NEW db, db \in Saved, db.config = saved.config, NEW state \in {"idle", "paused"},
             NEW enabled \in BOOLEAN, enabled => saved.config.enabled, Ended(db, state, enabled)
      PROVE  saved'.config.enabled => saved.config.enabled
  BY <1>2 DEF Ended, Saved, Config
<1>3. Failed(saved) => (saved'.config.enabled => saved.config.enabled)
  BY <1>2, Fields DEF Failed
<1>4. saved'.config.enabled => saved.config.enabled
  <2>1. CASE Mailbox
    BY <2>1 DEF Mailbox, Tick, Arrive, Repair, Leave
  <2>2. CASE Schedule
    BY <2>2, Fields DEF Schedule, Launched, Queued, Saved
  <2>3. CASE Cancelled
    BY <1>2, <2>3, Fields DEF Cancelled
  <2>4. CASE Begin
    BY <2>4, Fields DEF Begin, Saved
  <2>5. CASE Discovered
    BY <1>2, <1>3, <2>5, Fields DEF Discovered, AccountChanged
  <2>6. CASE Scan
    <3>1. Scanned => saved'.config = saved.config
      BY DEF Scanned
    <3> QED BY <1>3, <2>6, <3>1, ScanKinds
  <2>7. CASE Page
    <3>1. PageRead => saved'.config = saved.config
      BY DEF PageRead
    <3>2. Ended(saved, "idle", saved.config.enabled) => (saved'.config.enabled => saved.config.enabled)
      BY <1>2, Fields
    <3> QED BY <1>3, <2>7, <3>1, <3>2, PageKinds
  <2>8. CASE Threads
    <3>1. [saved EXCEPT !.window = None] \in Saved /\ [saved EXCEPT !.window = None].config = saved.config
      BY Fields DEF Saved
    <3> QED BY <1>2, <2>8, <3>1, Fields DEF Threads
  <2> QED BY <2>1, <2>2, <2>3, <2>4, <2>5, <2>6, <2>7, <2>8 DEF Run
<1> QED BY <1>1, <1>4, CalmAnnounced

LEMMA UpAnnounced ==
  ASSUME Sane, Announced, "unavailable" \notin Faults, Boot \/ Start \/ Sync
  PROVE  Announced'
<1>1. ASSUME NEW db \in Saved, Launched(db) PROVE saved'.config = db.config
  BY <1>1 DEF Launched, Queued, Saved
<1>2. CASE Boot
  <2>1. action' = action /\ ~host.up /\ action.at = "off"
    BY <1>2 DEF Boot, Announced
  <2>2. CASE saved.config.enabled
    <3>1. host' = [Booted EXCEPT !.up = TRUE]
      BY <1>2, <2>2 DEF Boot, Fault
    <3>2. host'.up /\ host'.scheduler
      BY <3>1, Fields DEF Booted, Loaded
    <3> QED BY <2>1, <3>2 DEF Announced
  <2>3. CASE ~saved.config.enabled
    <3>1. host' = [Down EXCEPT !.up = TRUE] /\ saved' = saved
      BY <1>2, <2>3 DEF Boot
    <3>2. host'.up
      BY <3>1 DEF Down
    <3> QED BY <2>1, <2>3, <3>1, <3>2 DEF Announced
  <2> QED BY <2>2, <2>3
<1>3. CASE Start
  <2>1. action' = action /\ action.at = "off" /\ host.up /\ host' = Booted
    BY <1>3 DEF Start, Ready
  <2>2. host'.up /\ host'.scheduler
    BY <2>1, Fields DEF Booted, Loaded
  <2> QED BY <2>1, <2>2 DEF Announced
<1>4. CASE Sync
  <2>1. action' = action /\ action.at = "off" /\ host.up /\ host' = Loaded
    BY <1>4 DEF Sync, Ready
  <2>2. host'.up /\ host'.scheduler = host.scheduler
    BY <2>1, Fields DEF Loaded
  <2>3. saved'.config = saved.config
    BY <1>1, <1>4, Fields DEF Sync
  <2> QED BY <2>1, <2>2, <2>3 DEF Announced
<1> QED BY <1>2, <1>3, <1>4

\* A whole configure() leaves what it was told; a torn one a host that is down.
LEMMA WriteAnnounced ==
  ASSUME Sane, Announced, NEW db, NEW base, NEW updated, NEW model, Rewritten(db, base, updated, model),
         host.up, ~host.scheduler => ~updated.enabled
  PROVE  Announced'
<1>1. action' = NoAction
  BY RewrittenIs
<1>2. CASE host' = Down
  BY <1>1, <1>2 DEF Announced, NoAction, Down
<1>3. CASE host' = Loaded /\ saved' = Writes(db, base, updated)[5]
  <2>1. saved'.config = updated
    BY <1>3, WritesFit, RewrittenIs
  <2>2. host'.up /\ host'.scheduler = host.scheduler
    BY <1>3, Fields DEF Loaded
  <2> QED BY <1>1, <2>1, <2>2 DEF Announced, NoAction
<1> QED BY <1>2, <1>3 DEF Rewritten, Write

LEMMA ActionAnnounced ==
  ASSUME Sane, Announced, Pause \/ Gathered \/ BuilderClosed
  PROVE  Announced'
<1> DEFINE rested == [saved EXCEPT !.state = "paused", !.due = FALSE]
<1>1. /\ Kept(saved) /\ Kept(rested) /\ rested.config = saved.config
      /\ Stopping(saved).config.enabled = FALSE /\ Paused(Current).config.enabled = FALSE
  <2>1. Kept(saved) /\ Kept(rested)
    BY OpenedKept, StoppingKept
  <2> QED BY <2>1, Fields DEF Saved, Config, Stopping, Paused
<1>2. [Down EXCEPT !.up = TRUE].up
  BY DEF Down
<1> HIDE DEF rested
<1>3. CASE Pause
  <2>1. host.up /\ action.at = "off"
    BY <1>3 DEF Pause, Ready
  <2>2. CASE task.at = "off"
    <3>1. saved' = Paused(Current) /\ host' = [Down EXCEPT !.up = TRUE] /\ action' = action
      BY <1>3, <2>2 DEF Pause
    <3> QED BY <1>1, <1>2, <2>1, <3>1 DEF Announced
  <2>3. CASE task.at # "off"
    <3>1. saved' = Stopping(saved) /\ host' = host /\ action' = [NoAction EXCEPT !.at = "pause"]
      BY <1>3, <2>3 DEF Pause
    <3>2. action'.at = "pause"
      BY <3>1 DEF NoAction
    <3> QED BY <1>1, <2>1, <3>1, <3>2 DEF Announced
  <2> QED BY <2>2, <2>3
<1>4. CASE Gathered /\ action.at = "pause"
  <2>1. saved' = rested /\ action' = NoAction /\ host' = [Down EXCEPT !.up = TRUE]
    BY <1>4 DEF Gathered, rested
  <2>2. ~saved'.config.enabled
    BY <1>1, <1>4, <2>1 DEF Announced
  <2> QED BY <1>2, <2>1, <2>2 DEF Announced, NoAction
<1>5. CASE Gathered /\ action.at = "reconfigure" /\ action.model
  <2>1. saved' = rested /\ action' = [action EXCEPT !.at = "closing"] /\ host' = host
    BY <1>5 DEF Gathered, rested
  <2>2. action'.at = "closing" /\ action'.updated = action.updated
    BY <2>1, Fields DEF ActionType
  <2> QED BY <1>1, <1>5, <2>1, <2>2 DEF Announced
<1>6. CASE (Gathered /\ action.at = "reconfigure" /\ ~action.model) \/ BuilderClosed
  <2>1. \E db, model : Write(db, action.base, action.updated, model) /\ Kept(db)
    BY <1>1, <1>6 DEF Gathered, BuilderClosed, rested
  <2>2. /\ UNCHANGED <<now, mail>> /\ faults' \in 0..MaxFaults /\ action.at \in {"reconfigure", "closing"}
    BY <1>6, Counted DEF Gathered, BuilderClosed
  <2>3. /\ action.base \in Config /\ action.updated \in Config /\ action.updated # action.base
        /\ action.updated.enabled = action.base.enabled
        /\ action.base.lookback = saved.config.lookback
    BY <2>2 DEF Sane, Asks, ActionType
  <2>4. PICK db, model : Rewritten(db, action.base, action.updated, model)
    BY <2>1, <2>2, <2>3 DEF Rewritten
  <2>5. host.up /\ (~host.scheduler => ~action.updated.enabled)
    BY <2>2 DEF Announced
  <2> QED BY <2>4, <2>5, WriteAnnounced
<1> QED BY <1>3, <1>4, <1>5, <1>6 DEF Gathered

LEMMA ConfigureAnnounced ==
  ASSUME Sane, Announced, Configure
  PROVE  Announced'
<1>1. PICK folders \in SUBSET Folder, days \in Lookback, model \in BOOLEAN :
        LET base == saved.config
            updated == [base EXCEPT !.folders = folders, !.lookback = days]
        IN /\ updated # base
           /\ IF model THEN FaultTwice("builder") ELSE Fault("configure")
           /\ CASE task.at # "off" ->
                     /\ saved' = Stopping(saved)
                     /\ task' = [task EXCEPT !.cancelled = TRUE]
                     /\ action' = [at |-> "reconfigure", base |-> base, updated |-> updated,
                                   model |-> model]
                     /\ UNCHANGED <<host, promised>>
                [] task.at = "off" /\ model ->
                     /\ saved' = Current
                     /\ action' = [at |-> "closing", base |-> base, updated |-> updated,
                                   model |-> model]
                     /\ host' = Loaded
                     /\ UNCHANGED <<task, promised>>
                [] OTHER -> Write(Current, base, updated, model)
  BY DEF Configure
<1> DEFINE base == saved.config
           updated == [base EXCEPT !.folders = folders, !.lookback = days]
<1>2. /\ base \in Config /\ updated \in Config /\ updated # base
      /\ updated.enabled = base.enabled /\ host.up /\ action.at = "off"
  BY <1>1, Fields DEF Config, Configure, Ready
<1>3. ~host.scheduler => ~updated.enabled
  BY <1>2 DEF Announced
<1>4. faults' \in 0..MaxFaults /\ UNCHANGED <<now, mail>>
  BY <1>1, Counted DEF Configure
<1> HIDE DEF updated
<1>5. CASE task.at # "off"
  <2>1. /\ saved' = Stopping(saved) /\ host' = host
        /\ action' = [at |-> "reconfigure", base |-> base, updated |-> updated, model |-> model]
    BY <1>1, <1>5 DEF updated
  <2>2. ~saved'.config.enabled
    BY <2>1, Fields DEF Stopping, Saved, Config
  <2> QED BY <1>2, <1>3, <2>1, <2>2 DEF Announced
<1>6. CASE task.at = "off" /\ model
  <2>1. /\ saved' = Current /\ host' = Loaded
        /\ action' = [at |-> "closing", base |-> base, updated |-> updated, model |-> model]
    BY <1>1, <1>6 DEF updated
  <2>2. host'.up /\ host'.scheduler = host.scheduler /\ saved'.config = saved.config
    BY <1>2, <2>1, Fields DEF Loaded
  <2> QED BY <1>2, <1>3, <2>1, <2>2 DEF Announced
<1>7. CASE task.at = "off" /\ ~model
  <2>1. Write(Current, base, updated, model)
    BY <1>1, <1>7 DEF updated
  <2>2. Rewritten(Current, base, updated, model)
    BY <1>2, <1>4, <2>1, OpenedKept DEF Rewritten
  <2> QED BY <1>2, <1>3, <2>2, WriteAnnounced
<1> QED BY <1>5, <1>6, <1>7

LEMMA DownAnnounced ==
  ASSUME Sane, Announced, Crash \/ Shutdown
  PROVE  Announced'
<1>1. host' = Down /\ action'.at = "off"
  BY DEF Crash, Shutdown, Ready, NoAction
<1> QED BY <1>1 DEF Announced, Down

\* A run that is announced has a scheduler to start it, if every connector that is enabled can
\* be loaded when the host comes up (adapter.py:138): whatever pauses, configures, fails,
\* crashes or shuts down.
THEOREM ScheduledHolds ==
  ASSUME "unavailable" \notin Faults
  PROVE  Spec => []Scheduled
<1>1. Init => Announced
  BY DEF Init, Announced, NoAction, Down
<1>2. Sane /\ Announced /\ [Next]_vars => Announced'
  <2> SUFFICES ASSUME Sane, Announced, [Next]_vars PROVE Announced'
    OBVIOUS
  <2>1. CASE UNCHANGED vars
    BY <2>1, CalmAnnounced DEF vars
  <2>2. CASE Next
    BY <2>2, RunAnnounced, UpAnnounced, ActionAnnounced, ConfigureAnnounced, DownAnnounced
       DEF Next, User
  <2> QED BY <2>1, <2>2
<1>3. Announced => Scheduled
  BY DEF Announced, Scheduled, Down
<1> QED BY <1>1, <1>2, <1>3, SaneInvariant, PTL DEF Spec

-----------------------------------------------------------------------------
(* The cursor *)

\* The user's history is the one of the settings, and no run works with older copies of them.
Standing == promised # Nothing

Onset(window) == From(saved, Min(window.todo))

\* What a run holds while it waits for a page is what is saved.
Same == task.at = "page" => /\ task.window = saved.window /\ task.marks = saved.marks
                            /\ task.start = Onset(saved.window)

Usable == saved.window # None /\ saved.window.next # None
            => saved.window.next.start = Onset(saved.window)

\* configure() always leaves no window, so that the next scan opens one of its own.
LEMMA WrittenWindow ==
  ASSUME Sane, NEW db, NEW base, NEW updated, NEW model, Rewritten(db, base, updated, model),
         Whole(db, base, updated)
  PROVE  saved'.window = None
<1>1. /\ Kept(db) /\ base \in Config /\ updated \in Config /\ updated # base
      /\ saved' = Writes(db, base, updated)[5]
  BY RewrittenIs DEF Whole
<1>2. \/ saved'.window = None
      \/ /\ saved'.window = saved.window /\ updated.folders = base.folders
         /\ ~Wider(db, base, updated) /\ ~Narrower(db, base, updated)
  BY <1>1, WritesFit
<1>3. CASE db.history = None
  <2>1. saved.window = None
    BY <1>1, <1>3 DEF Kept, Sane, Dated
  <2> QED BY <1>2, <2>1
<1>4. CASE db.history # None /\ updated.folders = base.folders
           /\ ~Wider(db, base, updated) /\ ~Narrower(db, base, updated)
  <2>1. updated.lookback \in Nat /\ base.lookback \in Nat
    BY <1>1, ScanAssumption DEF Config
  <2>2. updated.lookback = base.lookback
    BY <1>4, <2>1 DEF Wider, Narrower
  <2>3. updated.enabled = base.enabled
    BY DEF Rewritten
  <2>4. updated = base
    BY <1>1, <1>4, <2>2, <2>3 DEF Config
  <2> QED BY <1>1, <2>4
<1> QED BY <1>2, <1>3, <1>4

\* A promise is renewed when no run works, and what was promised before still stands, or no
\* watermark is left from before.
LEMMA RenewedPromise ==
  ASSUME Sane, NEW db, NEW base, NEW updated, NEW model, Rewritten(db, base, updated, model), Standing'
  PROVE  /\ Whole(db, base, updated) /\ task.at = "off" /\ task' = task /\ saved'.window = None
         /\ Standing \/ saved'.marks = NoMarks
<1>1. Whole(db, base, updated) /\ promised' # Nothing
  BY RewrittenIs DEF Torn, Standing
<1>2. promised' = Promised(saved') /\ task' = task
  BY <1>1 DEF Whole
<1>3. task.at = "off" /\ ~(promised = Nothing /\ saved'.marks # NoMarks)
  BY <1>1, <1>2 DEF Promised
<1> QED BY <1>1, <1>2, <1>3, WrittenWindow DEF Standing

LEMMA CursorStep ==
  ASSUME Sane, Standing => Same /\ Usable, [Next]_vars, Standing'
  PROVE  Same' /\ Usable'
<1>1. CASE UNCHANGED vars
  BY <1>1 DEF vars, Standing, Same, Usable, Onset, From
<1>2. CASE Quiet
  <2>1. /\ saved'.history = saved.history /\ saved'.marks = saved.marks
        /\ saved'.window = saved.window /\ promised' = promised /\ Rests
    BY <1>2 DEF Quiet, Kept
  <2> QED BY <2>1 DEF Standing, Same, Usable, Onset, From, Rests
<1>3. CASE Mailbox
  <2>1. UNCHANGED <<saved, task, promised>>
    BY <1>3, MailboxSane
  <2> QED BY <2>1 DEF Standing, Same, Usable, Onset, From
<1>4. CASE PageRead
  <2> DEFINE window == task.window
             folder == Min(window.todo)
  <2>1. /\ promised' = promised /\ task.at = "page" /\ saved'.history = saved.history
        /\ saved' \in Saved /\ saved'.window \in Window /\ Request(saved', saved'.window)
        /\ \/ /\ More(window) /\ Onward(window, saved'.window.next)
              /\ saved'.window.todo = window.todo /\ saved'.marks = task.marks
           \/ /\ ~More(window) /\ saved'.window.next = None
              /\ saved'.window.todo = window.todo \ {folder}
              /\ saved'.marks = [task.marks EXCEPT ![folder] = window.end]
    BY <1>4 DEF PageRead
  <2>2. saved.history # None /\ Same
    BY <2>1 DEF Sane, Standing
  <2>3. Same'
    BY <2>1, <2>2, RequestHolds DEF Same, Onset
  <2>4. Usable'
    <3>1. CASE saved'.window.next = None
      BY <3>1 DEF Usable
    <3>2. CASE saved'.window.next # None
      <4>1. /\ saved'.window.next.start = task.start /\ saved'.window.todo = saved.window.todo
            /\ saved'.marks = saved.marks /\ task.start = From(saved, Min(saved.window.todo))
        BY <2>1, <2>2, <3>2 DEF Onward, Same, Onset
      <4> QED BY <2>1, <4>1 DEF Usable, Onset, From
    <3> QED BY <3>1, <3>2
  <2> QED BY <2>3, <2>4
<1>5. CASE Over
  BY <1>5 DEF Over, NoTask, Same, Usable
<1>6. CASE Scanned /\ (Resumes \/ Opens)
  <2>1. /\ saved' \in Saved /\ saved'.window \in Window /\ Request(saved', saved'.window)
        /\ saved'.history = IF saved.history = None THEN now - saved.config.lookback ELSE saved.history
        /\ promised' = IF saved.history = None THEN saved'.history ELSE promised
    BY <1>6 DEF Scanned
  <2>2. saved'.history # None
    <3>1. Sane'
      BY <1>6, ScannedSane
    <3> QED BY <2>1, <3>1, NoneAssumption DEF Sane, Dated
  <2>3. Same'
    BY <2>1, <2>2, RequestHolds DEF Same, Onset
  <2>4. Usable'
    <3>1. CASE Opens
      BY <3>1 DEF Opens, Usable
    <3>2. CASE Resumes
      <4>1. saved.window # None /\ saved'.window = saved.window /\ saved'.marks = saved.marks
        BY <3>2 DEF Resumes
      <4>2. saved.history # None
        BY <4>1 DEF Sane, Dated
      <4> QED BY <2>1, <4>1, <4>2 DEF Usable, Onset, From, Standing
    <3> QED BY <1>6, <3>1, <3>2
  <2> QED BY <2>3, <2>4
<1>7. ASSUME NEW db, NEW base, NEW updated, NEW model, Rewritten(db, base, updated, model)
      PROVE  Same' /\ Usable'
  <2>1. task.at = "off" /\ task' = task /\ saved'.window = None
    BY <1>7, RenewedPromise
  <2> QED BY <2>1 DEF Same, Usable
<1> QED BY <1>1, <1>2, <1>3, <1>4, <1>5, <1>6, <1>7, StepKinds

\* A scan that is resumed asks for the window its cursor belongs to, whatever was configured,
\* cancelled, torn or restarted since (source.py refuses a cursor with another filter).
THEOREM CursorUsableHolds == Spec => []CursorUsable
<1> DEFINE Cursors == Standing => Same /\ Usable
<1>1. Init => Cursors
  BY DEF Init, Same, Usable, NoTask
<1>2. Sane /\ Cursors /\ [Next]_vars => Cursors'
  BY CursorStep
<1>3. Cursors => CursorUsable
  BY DEF Standing, Usable, Onset, CursorUsable
<1> QED BY <1>1, <1>2, <1>3, SaneInvariant, PTL DEF Spec

-----------------------------------------------------------------------------
(* The watermarks *)

InHistory(m, f) ==
  mail[m].present /\ mail[m].folder = f /\ mail[m].received >= saved.history

\* Whoever could read a message before the end has recorded it.  One that is not recorded at
\* all came late, so that the next window, which overlaps this one, asks for it again.
Handled(m, end) ==
  /\ mail[m].whole /\ mail[m].since < end => m \in saved.sources
  /\ m \in saved.sources \cup saved.errors \/ mail[m].received >= end - Overlap

Covered ==
  \A f \in Folder : saved.marks[f] # None =>
    \A m \in Message : InHistory(m, f) => Handled(m, saved.marks[f])

\* What lies behind the cursor of the folder that is being read.
Behind(listed, window) == listed \ Remaining(listed, window.next)

Delivered ==
  saved.window # None /\ saved.window.next # None =>
    \A m \in Behind(Listed(Min(saved.window.todo), Onset(saved.window), saved.window.end), saved.window) :
      Handled(m, saved.window.end)

\* A folder that is still to be read has its unreadable messages in front of it.
Retried ==
  saved.window # None =>
    \A f \in saved.window.todo : saved.marks[f] # None =>
      \A m \in saved.errors : InHistory(m, f) => mail[m].received >= saved.marks[f] - Overlap

\* No date lies in the future, and nothing is visible before it was received.
Visible ==
  \A m \in Message : mail[m].present =>
    /\ mail[m].folder # None /\ mail[m].received <= now
    /\ mail[m].whole => mail[m].since >= mail[m].received \/ mail[m].received < Start0

Past(marks, window) ==
  /\ \A f \in Folder : marks[f] # None => marks[f] <= now
  /\ window # None => window.end >= Start0 /\ window.end <= now

Dates ==
  /\ Visible
  /\ saved.history # None => saved.history + saved.config.lookback <= now
  /\ Past(saved.marks, saved.window)
  /\ task.marks # None => Past(task.marks, task.window)

LEMMA Clock ==
  ASSUME Sane
  PROVE  now \in Nat /\ Start0 \in Nat /\ now >= Start0 /\ Overlap \in Nat /\ None \notin Nat
BY ScanAssumption DEF Sane, Time

LEMMA MessageTypes ==
  ASSUME Sane, NEW m \in Message
  PROVE  /\ mail[m].received \in Nat /\ mail[m].since \in Nat
         /\ mail[m].whole \in BOOLEAN /\ mail[m].present \in BOOLEAN
<1>1. mail[m] \in MailType
  BY DEF Sane
<1>2. mail[m].received \in Time /\ mail[m].since \in Time
  BY <1>1 DEF MailType
<1> QED BY <1>1, <1>2, ScanAssumption DEF MailType, Time

LEMMA SavedTypes ==
  ASSUME Sane
  PROVE  /\ saved \in Saved
         /\ saved.history # None => saved.history \in Nat
         /\ saved.config.lookback \in Nat
         /\ \A f \in Folder : saved.marks[f] # None => saved.marks[f] \in Nat
         /\ saved.window # None => saved.window \in Window /\ saved.window.end \in Nat
<1>1. saved \in Saved
  BY DEF Sane, Dated
<1>2. MaxNow \in Nat
  BY ScanAssumption
<1>3. saved.history # None => saved.history \in Nat
  BY <1>1, <1>2 DEF Saved, Time
<1>4. saved.config.lookback \in Lookback
  BY <1>1 DEF Saved, Config
<1>5. \A f \in Folder : saved.marks[f] # None => saved.marks[f] \in Nat
  BY <1>1, <1>2 DEF Saved, Time
<1>6. saved.window # None => saved.window \in Window /\ saved.window.end \in Nat
  BY <1>1, <1>2 DEF Saved, Time, Window
<1> QED BY <1>1, <1>3, <1>4, <1>5, <1>6, ScanAssumption

LEMMA InitDates == Init => Dates
<1> SUFFICES ASSUME Init PROVE Dates
  OBVIOUS
<1>1. Sane
  BY InitSane
<1>2. ASSUME NEW m \in Message, mail[m].present
      PROVE  /\ mail[m].folder # None /\ mail[m].received <= now
             /\ mail[m].received < Start0
  <2>1. mail[m] \in Existing
    <3>1. mail[m] \in Existing \cup {NoMail}
      BY DEF Init
    <3> QED BY <1>2, <3>1 DEF NoMail
  <2>2. mail[m].folder \in Folder /\ mail[m].received \in 1..(Start0 - 1) /\ now = Start0
    BY <2>1 DEF Existing, Init
  <2>3. mail[m].folder # None
    BY <2>2, ScanAssumption
  <2> QED BY <1>1, <2>2, <2>3, Clock
<1>3. saved.history = None /\ saved.marks = NoMarks /\ saved.window = None /\ task.marks = None
  BY DEF Init, NoTask
<1>4. Past(saved.marks, saved.window)
  BY <1>3 DEF Past, NoMarks
<1> QED BY <1>2, <1>3, <1>4 DEF Dates, Visible

\* What becomes visible becomes visible now, and was received the delay ago at most.
LEMMA MailboxKinds ==
  ASSUME Sane, Mailbox
  PROVE  \/ Tick
         \/ UNCHANGED now /\ \E m \in Message : Leave(m)
         \/ UNCHANGED now /\ \E m \in Message : Arrive(m) \/ Repair(m)
BY DEF Mailbox, Arrive, Repair, Leave

\* One message of the mailbox changes: it is new to the mailbox, or to its readers.
Shown(m) ==
  /\ mail[m].present => mail'[m].folder = mail[m].folder /\ mail'[m].received = mail[m].received
  /\ ~mail[m].present => mail'[m].received >= now - Overlap
  /\ mail'[m].present /\ mail'[m].folder # None /\ mail'[m].received <= now
  /\ mail'[m].whole => mail'[m].since >= now
  /\ UNCHANGED now /\ \A other \in Message : other # m => mail'[other] = mail[other]

Gone(m) ==
  /\ ~mail'[m].present
  /\ UNCHANGED now /\ \A other \in Message : other # m => mail'[other] = mail[other]

LEMMA ShownIs ==
  ASSUME Sane, Visible, NEW m \in Message, Arrive(m) \/ Repair(m)
  PROVE  Shown(m)
<1>1. /\ mail \in [Message -> MailType] /\ mail[m] \in MailType /\ now \in Nat /\ Overlap \in Nat
      /\ now' = now
  BY Clock DEF Sane, Arrive, Repair
<1>2. CASE Arrive(m)
  <2>1. mail[m].folder = None /\ ~mail[m].present
    BY <1>1, <1>2 DEF Arrive, Visible, MailType
  <2>2. PICK f \in Folder, late \in 0..Delay, whole \in BOOLEAN :
          mail' = [mail EXCEPT ![m] = [folder |-> f, received |-> now - late, whole |-> whole,
                                       since |-> IF whole THEN now ELSE 0, present |-> TRUE]]
    BY <1>2 DEF Arrive
  <2>3. mail'[m] = [folder |-> f, received |-> now - late, whole |-> whole,
                    since |-> IF whole THEN now ELSE 0, present |-> TRUE]
    BY <1>1, <2>2
  <2>4. late \in Nat /\ late <= Overlap /\ f # None
    BY ScanAssumption
  <2>5. mail'[m].received = now - late /\ now - late >= now - Overlap /\ now - late <= now
    BY <1>1, <2>3, <2>4
  <2>6. \A other \in Message : other # m => mail'[other] = mail[other]
    BY <1>1, <2>2
  <2>7. mail'[m].whole => mail'[m].since >= now
    BY <1>1, <2>3
  <2>8. mail'[m].present /\ mail'[m].folder # None
    BY <2>3, <2>4
  <2> QED BY <1>1, <2>1, <2>5, <2>6, <2>7, <2>8 DEF Shown
<1>3. CASE Repair(m)
  <2>1. mail' = [mail EXCEPT ![m].whole = TRUE, ![m].since = now] /\ mail[m].present
    BY <1>3 DEF Repair
  <2>2. /\ mail'[m].folder = mail[m].folder /\ mail'[m].received = mail[m].received
        /\ mail'[m].since = now /\ mail'[m].present
    BY <1>1, <2>1 DEF MailType
  <2>3. \A other \in Message : other # m => mail'[other] = mail[other]
    BY <1>1, <2>1
  <2> QED BY <1>1, <2>1, <2>2, <2>3 DEF Shown, Visible
<1> QED BY <1>2, <1>3

LEMMA GoneIs ==
  ASSUME Sane, NEW m \in Message, Leave(m), UNCHANGED now
  PROVE  Gone(m)
BY DEF Sane, Leave, NoMail, Gone

LEMMA VisibleStep ==
  ASSUME Sane, Visible, Mailbox
  PROVE  Visible' /\ now' >= now
<1>1. now \in Nat
  BY Clock
<1>2. CASE Tick
  <2>1. now' = now + 1 /\ mail' = mail
    BY <1>2 DEF Tick
  <2>2. ASSUME NEW m \in Message, mail[m].present PROVE mail[m].received <= now + 1
    <3>1. mail[m].received \in Nat /\ mail[m].received <= now
      BY <2>2, MessageTypes DEF Visible
    <3> QED BY <1>1, <3>1
  <2> QED BY <1>1, <2>1, <2>2 DEF Visible
<1>3. ASSUME NEW m \in Message, Leave(m), UNCHANGED now PROVE Visible'
  BY <1>3, GoneIs DEF Gone, Visible
<1>4. ASSUME NEW m \in Message, Arrive(m) \/ Repair(m), UNCHANGED now PROVE Visible'
  <2>1. Shown(m)
    BY <1>4, ShownIs
  <2>2. Sane'
    BY MailboxSane
  <2>3. mail'[m].received \in Nat /\ mail'[m].since \in Nat
    <3>1. mail'[m] \in MailType
      BY <2>2 DEF Sane
    <3> QED BY <3>1, ScanAssumption DEF MailType, Time
  <2>4. mail'[m].whole => mail'[m].since >= mail'[m].received
    BY <1>1, <2>1, <2>3 DEF Shown
  <2> QED BY <1>4, <2>1, <2>4 DEF Shown, Visible
<1> QED BY <1>1, <1>2, <1>3, <1>4, MailboxKinds

LEMMA PastLater ==
  ASSUME Sane, Dates, now' \in Nat, now' >= now, UNCHANGED <<saved, task>>
  PROVE  /\ Past(saved.marks, saved.window)' /\ (task.marks # None => Past(task.marks, task.window))'
         /\ saved'.history # None => saved'.history + saved'.config.lookback <= now'
<1>1. now \in Nat
  BY Clock
<1>2. Past(saved.marks, saved.window)'
  BY <1>1, SavedTypes DEF Dates, Past
<1>3. CASE task.marks = None
  BY <1>1, <1>2, <1>3, SavedTypes DEF Dates
<1>4. CASE task.marks # None
  <2>1. task.marks \in [Folder -> Time \cup {None}] /\ task.window \in Window \cup {None}
    BY <1>4 DEF Sane, Holds, TaskType
  <2>2. MaxNow \in Nat
    BY ScanAssumption
  <2>3. \A f \in Folder : task.marks[f] # None => task.marks[f] \in Nat
    BY <2>1, <2>2 DEF Time
  <2>4. task.window # None => task.window.end \in Nat
    BY <2>1, <2>2 DEF Time, Window
  <2>5. Past(task.marks, task.window)'
    BY <1>1, <1>4, <2>3, <2>4 DEF Dates, Past
  <2> QED BY <1>1, <1>2, <2>5, SavedTypes DEF Dates
<1> QED BY <1>3, <1>4

\* The run's next step has what was saved, or nothing.
LEMMA RequestPast ==
  ASSUME Sane', Past(saved.marks, saved.window)', saved' \in Saved, saved'.history # None,
         saved'.window \in Window, Request(saved', saved'.window)
  PROVE  (task.marks # None => Past(task.marks, task.window))'
<1>1. task'.at = "page" => task'.window = saved'.window /\ task'.marks = saved'.marks
  BY RequestHolds
<1>2. task'.at # "page" => task'.marks = None
  BY DEF Sane, Holds
<1> QED BY <1>1, <1>2

LEMMA QuietDates ==
  ASSUME Sane, Dates, Quiet
  PROVE  Dates'
<1>1. /\ now' = now /\ mail' = mail /\ saved'.history = saved.history /\ saved'.marks = saved.marks
      /\ saved'.window = saved.window /\ saved'.config.lookback = saved.config.lookback
      /\ Holds(task') /\ Rests
  BY DEF Quiet, Kept
<1>2. Visible' /\ Past(saved.marks, saved.window)'
  BY <1>1 DEF Dates, Visible, Past
<1>3. (task.marks # None => Past(task.marks, task.window))'
  BY <1>1 DEF Rests, Holds, Dates, Past
<1> QED BY <1>1, <1>2, <1>3 DEF Dates

LEMMA PageReadDates ==
  ASSUME Sane, Dates, PageRead
  PROVE  Dates'
<1> DEFINE window == task.window
           folder == Min(window.todo)
<1>1. /\ now' = now /\ mail' = mail /\ task.at = "page" /\ saved'.config = saved.config
      /\ saved'.history = saved.history /\ saved' \in Saved /\ saved'.window \in Window
      /\ saved'.window.end = window.end /\ Request(saved', saved'.window)
      /\ \/ saved'.marks = task.marks
         \/ saved'.marks = [task.marks EXCEPT ![folder] = window.end]
  BY DEF PageRead
<1>2. /\ window # None /\ task.marks # None /\ saved.history # None
      /\ task.marks \in [Folder -> Time \cup {None}]
  BY <1>1 DEF Sane, Holds, TaskType
<1>3. Past(task.marks, window)
  BY <1>2 DEF Dates
<1> HIDE DEF window, folder
<1>4. Past(saved.marks, saved.window)'
  <2>1. ASSUME NEW f \in Folder, saved'.marks[f] # None PROVE saved'.marks[f] <= now'
    BY <1>1, <1>2, <1>3, <2>1 DEF Past
  <2> QED BY <1>1, <1>2, <1>3, <2>1 DEF Past
<1>5. Sane'
  BY PageReadSane
<1>6. (task.marks # None => Past(task.marks, task.window))'
  BY <1>1, <1>2, <1>4, <1>5, RequestPast
<1> QED BY <1>1, <1>4, <1>6 DEF Dates, Visible

LEMMA ScannedDates ==
  ASSUME Sane, Dates, Scanned, Resumes \/ Opens
  PROVE  Dates'
<1>1. /\ now' = now /\ mail' = mail /\ saved' \in Saved /\ saved'.config = saved.config
      /\ saved'.history = IF saved.history = None THEN now - saved.config.lookback ELSE saved.history
      /\ saved'.window \in Window /\ Request(saved', saved'.window)
  BY DEF Scanned
<1>2. Sane' /\ now \in Nat /\ now >= Start0 /\ None \notin Nat
  BY ScannedSane, Clock
<1>3. saved'.history # None
  BY <1>1, <1>2, NoneAssumption DEF Sane, Dated
<1>4. saved'.history + saved'.config.lookback <= now'
  BY <1>1, <1>2, <1>3, SavedTypes DEF Dates
<1>5. Past(saved.marks, saved.window)'
  <2>1. CASE Resumes
    BY <1>1, <2>1 DEF Resumes, Dates, Past
  <2>2. CASE Opens
    <3>1. saved'.window.end = now
      BY <2>2 DEF Opens
    <3>2. \A f \in Folder : saved'.marks[f] # None => saved'.marks[f] <= now
      BY <2>2 DEF Opens, Dates, Past
    <3> QED BY <1>1, <1>2, <3>1, <3>2 DEF Past
  <2> QED BY <2>1, <2>2
<1>6. (task.marks # None => Past(task.marks, task.window))'
  BY <1>1, <1>2, <1>3, <1>5, RequestPast
<1> QED BY <1>1, <1>4, <1>5, <1>6 DEF Dates, Visible

\* A lookback that becomes smaller does not reach further back.
LEMMA SinceLater ==
  ASSUME Sane, Dates, NEW db, Kept(db), NEW base \in Config, NEW updated \in Config,
         base.lookback = saved.config.lookback
  PROVE  /\ Since(db, base, updated) # None => Since(db, base, updated) + updated.lookback <= now
         /\ ~Wider(db, base, updated) /\ saved.history # None
              => Since(db, base, updated) >= saved.history
<1>1. db.history = saved.history /\ now \in Nat /\ None \notin Nat
  BY Clock DEF Kept
<1>2. updated.lookback \in Nat /\ base.lookback \in Nat
  <2>1. updated.lookback \in Lookback /\ base.lookback \in Lookback
    BY DEF Config
  <2> QED BY <2>1, ScanAssumption
<1>3. saved.history # None => saved.history \in Nat /\ saved.history + base.lookback <= now
  BY SavedTypes DEF Dates
<1>4. CASE Wider(db, base, updated)
  BY <1>1, <1>2, <1>3, <1>4 DEF Since, Wider
<1>5. CASE ~Wider(db, base, updated) /\ Narrower(db, base, updated)
  BY <1>1, <1>2, <1>3, <1>5 DEF Since, Narrower
<1>6. CASE ~Wider(db, base, updated) /\ ~Narrower(db, base, updated)
  <2>1. saved.history # None => updated.lookback = base.lookback
    BY <1>1, <1>2, <1>6 DEF Wider, Narrower
  <2>2. Since(db, base, updated) = saved.history
    BY <1>1, <1>6 DEF Since
  <2> QED BY <1>2, <1>3, <2>1, <2>2
<1> QED BY <1>4, <1>5, <1>6

LEMMA WholeIs ==
  ASSUME "torn" \notin Faults, Sane, NEW db, NEW base, NEW updated, NEW model,
         Rewritten(db, base, updated, model)
  PROVE  /\ UNCHANGED <<now, mail, task>> /\ Kept(db) /\ base \in Config /\ updated \in Config
         /\ base.lookback = saved.config.lookback
         /\ saved'.config = updated /\ saved'.history = Since(db, base, updated)
         /\ saved'.marks = IF Wider(db, base, updated) THEN NoMarks ELSE saved.marks
         /\ saved'.window = None
         /\ saved'.sources = saved.sources /\ saved'.errors = saved.errors
<1>1. Whole(db, base, updated)
  BY RewrittenIs DEF Torn
<1>2. /\ UNCHANGED <<now, mail, task>> /\ Kept(db) /\ base \in Config /\ updated \in Config
      /\ base.lookback = saved.config.lookback /\ saved' = Writes(db, base, updated)[5]
  BY <1>1, RewrittenIs DEF Whole
<1>3. saved'.window = None
  BY <1>1, WrittenWindow
<1> QED BY <1>2, <1>3, WritesFit

LEMMA RewrittenDates ==
  ASSUME "torn" \notin Faults, Sane, Dates, NEW db, NEW base, NEW updated, NEW model,
         Rewritten(db, base, updated, model)
  PROVE  Dates'
<1>1. /\ UNCHANGED <<now, mail, task>> /\ Kept(db) /\ base \in Config /\ updated \in Config
      /\ base.lookback = saved.config.lookback
      /\ saved'.config = updated /\ saved'.history = Since(db, base, updated)
      /\ saved'.marks = IF Wider(db, base, updated) THEN NoMarks ELSE saved.marks
      /\ saved'.window = None
  BY WholeIs
<1>2. saved'.history # None => saved'.history + saved'.config.lookback <= now'
  BY <1>1, SinceLater
<1>3. Past(saved.marks, saved.window)'
  BY <1>1 DEF Dates, Past, NoMarks
<1> QED BY <1>1, <1>2, <1>3 DEF Dates, Visible, Past

LEMMA DatesStep ==
  ASSUME "torn" \notin Faults, Sane, Dates, [Next]_vars
  PROVE  Dates'
<1>1. CASE UNCHANGED vars
  BY <1>1 DEF vars, Dates, Visible, Past
<1>2. CASE Mailbox
  <2>1. UNCHANGED <<saved, task>> /\ now' \in Nat /\ now' >= now /\ Visible'
    <3>1. Sane' /\ UNCHANGED <<saved, task>>
      BY <1>2, MailboxSane
    <3>2. now' \in Nat
      BY <3>1, ScanAssumption DEF Sane, Time
    <3> QED BY <1>2, <3>1, <3>2, VisibleStep DEF Dates
  <2> QED BY <2>1, PastLater DEF Dates
<1>3. CASE Over
  BY <1>3 DEF Over, NoTask, Dates, Visible, Past
<1>4. ASSUME NEW db, NEW base, NEW updated, NEW model, Rewritten(db, base, updated, model)
      PROVE  Dates'
  BY <1>4, RewrittenDates
<1> QED BY <1>1, <1>2, <1>3, <1>4, StepKinds, QuietDates, PageReadDates, ScannedDates

\* What is recorded accounts for every watermark, for the cursor and for the folders to read.
Accounted == Covered /\ Delivered /\ Retried

\* The same settings and the same mail: nothing to show.
LEMMA SameMarks ==
  ASSUME Accounted, UNCHANGED mail, saved'.history = saved.history, saved'.marks = saved.marks,
         saved'.window = saved.window, saved'.sources = saved.sources, saved'.errors = saved.errors
  PROVE  Accounted'
<1>1. /\ \A m, f : InHistory(m, f)' = InHistory(m, f)
      /\ \A m, end : Handled(m, end)' = Handled(m, end)
  BY DEF InHistory, Handled
<1>2. Covered' /\ Retried'
  BY <1>1 DEF Accounted, Covered, Retried, InHistory, Handled
<1>3. Delivered'
  BY DEF Accounted, Delivered, Behind, Onset, From, Listed, Handled
<1> QED BY <1>2, <1>3 DEF Accounted

LEMMA ListedTypes ==
  ASSUME NEW f, NEW start, NEW end
  PROVE  /\ Listed(f, start, end) \in SUBSET Message /\ Listed(f, start, end) \in SUBSET Nat
         /\ IsFiniteSet(Listed(f, start, end))
<1>1. Listed(f, start, end) \in SUBSET Message
  BY DEF Listed
<1> QED BY <1>1, FS_Subset, ScanAssumption

\* A message that comes into view is too young for every watermark and window there is.
LEMMA ShownHandled ==
  ASSUME Sane, Sane', NEW m \in Message, Shown(m), saved' = saved, NEW end \in Nat, end <= now,
         mail[m].present => Handled(m, end)
  PROVE  Handled(m, end)'
<1>1. now \in Nat /\ Overlap \in Nat /\ mail'[m].since \in Nat /\ mail'[m].received \in Nat
  <2>1. mail'[m] \in MailType
    BY DEF Sane
  <2> QED BY <2>1, Clock, ScanAssumption DEF MailType, Time
<1>2. ~(mail'[m].whole /\ mail'[m].since < end)
  BY <1>1 DEF Shown
<1>3. m \in saved.sources \cup saved.errors \/ mail'[m].received >= end - Overlap
  BY <1>1 DEF Shown, Handled
<1> QED BY <1>2, <1>3 DEF Handled

LEMMA ShownMarks ==
  ASSUME Sane, Sane', Dates, Accounted, NEW m \in Message, Shown(m), saved' = saved
  PROVE  Accounted'
<1>1. /\ \A other \in Message : other # m => mail'[other] = mail[other]
      /\ mail[m].present => mail'[m].folder = mail[m].folder /\ mail'[m].received = mail[m].received
      /\ ~mail[m].present => mail'[m].received >= now - Overlap
      /\ mail'[m].present
  BY DEF Shown
<1>2. Covered'
  <2>1. ASSUME NEW f \in Folder, saved.marks[f] # None, NEW n \in Message, InHistory(n, f)'
        PROVE  Handled(n, saved.marks[f])'
    <3>1. saved.marks[f] \in Nat /\ saved.marks[f] <= now
      BY <2>1, SavedTypes DEF Dates, Past
    <3>2. CASE n # m
      BY <1>1, <2>1, <3>2 DEF InHistory, Handled, Accounted, Covered
    <3>3. CASE n = m
      <4>1. mail[m].present => Handled(m, saved.marks[f])
        BY <1>1, <2>1, <3>3 DEF InHistory, Accounted, Covered
      <4> QED BY <3>1, <3>3, <4>1, ShownHandled DEF Handled
    <3> QED BY <3>2, <3>3
  <2> QED BY <2>1 DEF Covered, Handled
<1>3. Delivered'
  <2>1. SUFFICES ASSUME saved.window # None, saved.window.next # None PROVE Delivered'
    BY DEF Delivered
  <2> DEFINE f == Min(saved.window.todo)
             start == Onset(saved.window)
             end == saved.window.end
             old == Listed(f, start, end)
             new == Listed(f, start, end)'
  <2>2. start' = start /\ end' = end /\ f' = f
    BY DEF Onset, From
  <2>3. saved.window \in Window /\ end \in Nat /\ end <= now /\ saved.window.next \in Cursor \cup {None}
    BY <2>1, SavedTypes DEF Dates, Past, Window
  <2>4. new = {n \in Message : /\ mail'[n].present /\ mail'[n].folder = f
                               /\ start <= mail'[n].received /\ mail'[n].received < end}
    BY <2>2 DEF Listed
  <2>5. new \in SUBSET Nat /\ IsFiniteSet(new) /\ new \in SUBSET Message
    <3>1. new \in SUBSET Message
      BY <2>4
    <3> HIDE DEF new
    <3> QED BY <3>1, FS_Subset, ScanAssumption
  <2>6. old \in SUBSET new
    BY <1>1, <2>4 DEF Listed
  <2>7. new \ {m} \in SUBSET old
    BY <1>1, <2>4 DEF Listed
  <2>8. m \in new /\ mail[m].present => m \in old
    BY <1>1, <2>4 DEF Listed
  <2>9. old \in SUBSET Nat /\ IsFiniteSet(old)
    BY ListedTypes
  <2>10. \A n \in old \ Remaining(old, saved.window.next) : Handled(n, end)
    BY <2>1 DEF Accounted, Delivered, Behind
  <2> HIDE DEF old, new, start, f
  <2>11. ASSUME NEW n \in new, n \notin Remaining(new, saved.window.next) PROVE Handled(n, saved.window.end)'
    <3>1. n \in old => Handled(n, end)
      <4>1. n \in old => n \notin Remaining(old, saved.window.next)
        BY <2>3, <2>5, <2>6, <2>11, ArrivalBehind
      <4> QED BY <2>10, <4>1
    <3>2. CASE n # m
      BY <1>1, <2>5, <2>7, <3>1, <3>2 DEF Handled
    <3>3. CASE n = m
      BY <2>3, <2>8, <2>11, <3>1, <3>3, ShownHandled DEF Handled
    <3> QED BY <3>2, <3>3
  <2>12. Behind(Listed(Min(saved.window.todo), Onset(saved.window), saved.window.end), saved.window)'
           = new \ Remaining(new, saved.window.next)
    BY <2>1 DEF Behind, new, Remaining, f, start
  <2> QED BY <2>11, <2>12 DEF Delivered
<1>4. Retried'
  <2>1. ASSUME NEW f \in saved.window.todo, saved.window # None, saved.marks[f] # None,
               NEW n \in saved.errors, InHistory(n, f)'
        PROVE  mail'[n].received >= saved.marks[f] - Overlap
    <3>1. saved \in Saved /\ saved.window \in Window /\ f \in Folder /\ n \in Message
      BY <2>1, SavedTypes DEF Window, Saved
    <3>2. saved.marks[f] \in Nat /\ saved.marks[f] <= now /\ now \in Nat /\ Overlap \in Nat
      BY <2>1, <3>1, SavedTypes, Clock DEF Dates, Past
    <3>3. mail'[n].received \in Nat
      <4>1. mail'[n] \in MailType
        BY <3>1 DEF Sane
      <4> QED BY <4>1, ScanAssumption DEF MailType, Time
    <3>4. CASE n # m \/ mail[m].present
      BY <1>1, <2>1, <3>1, <3>4 DEF InHistory, Accounted, Retried
    <3>5. CASE n = m /\ ~mail[m].present
      BY <1>1, <3>2, <3>3, <3>5
    <3> QED BY <3>4, <3>5, MessageTypes
  <2> QED BY <2>1 DEF Retried
<1> QED BY <1>2, <1>3, <1>4 DEF Accounted

LEMMA GoneMarks ==
  ASSUME Sane, Accounted, NEW m \in Message, Gone(m), saved' = saved, ~Skipping
  PROVE  Accounted'
<1>1. ~mail'[m].present /\ \A other \in Message : other # m => mail'[other] = mail[other]
  BY DEF Gone
<1>2. Covered'
  BY <1>1 DEF Accounted, Covered, InHistory, Handled
<1>3. Retried'
  <2>1. ASSUME NEW f \in saved.window.todo, saved.window # None, saved.marks[f] # None,
               NEW n \in saved.errors, InHistory(n, f)'
        PROVE  mail'[n].received >= saved.marks[f] - Overlap
    <3>1. n \in Message
      BY SavedTypes DEF Saved
    <3> QED BY <1>1, <2>1, <3>1 DEF InHistory, Accounted, Retried
  <2> QED BY <2>1 DEF Retried
<1>4. Delivered'
  <2>1. SUFFICES ASSUME saved.window # None, saved.window.next # None PROVE Delivered'
    BY DEF Delivered
  <2> DEFINE f == Min(saved.window.todo)
             start == Onset(saved.window)
             end == saved.window.end
             old == Listed(f, start, end)
             new == Listed(f, start, end)'
  <2>2. start' = start /\ end' = end /\ f' = f
    BY DEF Onset, From
  <2>3. /\ saved.window \in Window /\ saved.window.next \in Cursor
        /\ saved.window.next.by = "token"
    <3>1. saved.window \in Window /\ saved.window.next \in Cursor
      BY <2>1, SavedTypes DEF Window
    <3> QED BY <2>1, <3>1 DEF Skipping, Cursor
  <2>4. new = {n \in Message : /\ mail'[n].present /\ mail'[n].folder = f
                               /\ start <= mail'[n].received /\ mail'[n].received < end}
    BY <2>2 DEF Listed
  <2>5. new \in SUBSET old /\ m \notin new /\ new \in SUBSET Message
    BY <1>1, <2>4 DEF Listed
  <2>6. old \in SUBSET Nat
    BY ListedTypes
  <2>7. \A n \in old \ Remaining(old, saved.window.next) : Handled(n, end)
    BY <2>1 DEF Accounted, Delivered, Behind
  <2> HIDE DEF old, new, start, f
  <2>8. ASSUME NEW n \in new, n \notin Remaining(new, saved.window.next) PROVE Handled(n, saved.window.end)'
    <3>1. n \notin Remaining(old, saved.window.next)
      BY <2>3, <2>5, <2>6, <2>8, DepartureBehind
    <3>2. Handled(n, end) /\ n # m /\ n \in Message
      BY <2>5, <2>7, <2>8, <3>1
    <3> QED BY <1>1, <3>2 DEF Handled
  <2>9. Behind(Listed(Min(saved.window.todo), Onset(saved.window), saved.window.end), saved.window)'
           = new \ Remaining(new, saved.window.next)
    BY <2>1 DEF Behind, new, Remaining, f, start
  <2> QED BY <2>8, <2>9 DEF Delivered
<1> QED BY <1>2, <1>3, <1>4 DEF Accounted

\* What has been read is recorded once and for all.
LEMMA ReadRecorded ==
  ASSUME PageRead, NEW m, NEW end
  PROVE  /\ m \in PageOf(task.window) => Handled(m, end)'
         /\ Handled(m, end) => Handled(m, end)'
         /\ m \in saved'.errors => m \in saved.errors \/ m \in PageOf(task.window)
         /\ m \in saved.sources => m \in saved'.sources
<1>1. /\ mail' = mail
      /\ saved'.sources = saved.sources \cup {n \in PageOf(task.window) : mail[n].whole}
      /\ saved'.errors = (saved.errors \ PageOf(task.window))
                           \cup {n \in PageOf(task.window) : ~mail[n].whole}
  BY DEF PageRead
<1>2. m \in PageOf(task.window) => m \in saved'.sources \/ m \in saved'.errors
  BY <1>1
<1>3. m \in PageOf(task.window) /\ mail[m].whole => m \in saved'.sources
  BY <1>1
<1>4. m \in saved.sources \cup saved.errors => m \in saved'.sources \cup saved'.errors
  BY <1>1, <1>2
<1> QED BY <1>1, <1>2, <1>3, <1>4 DEF Handled

\* When the last page of a folder has been read, its window has nothing left to show.
LEMMA FolderRead ==
  ASSUME Sane, Same, Usable, Dates, Accounted, PageRead, ~More(task.window),
         NEW m \in Message, InHistory(m, Min(task.window.todo)), NEW end, end = task.window.end
  PROVE  Handled(m, end)'
<1> DEFINE window == task.window
           folder == Min(window.todo)
<1>1. /\ task.at = "page" /\ window = saved.window /\ task.marks = saved.marks
      /\ task.start = From(saved, folder)
  BY DEF PageRead, Same, Onset
<1>2. window \in Window /\ window # None /\ window.todo # {} /\ saved.history # None
  BY <1>1 DEF Sane, Holds, TaskType
<1>3. folder \in Folder /\ folder \in window.todo
  BY <1>2, FirstFolder
<1>4. end \in Nat /\ end >= Start0 /\ Start0 \in Nat /\ Overlap \in Nat
  BY <1>1, <1>2, SavedTypes, Clock DEF Dates, Past
<1>5. /\ mail[m].received \in Nat /\ mail[m].since \in Nat
      /\ mail[m].present /\ mail[m].folder = folder /\ mail[m].received >= saved.history
  BY MessageTypes DEF InHistory
<1>6. /\ task.start \in Nat
      /\ saved.marks[folder] # None => saved.marks[folder] \in Nat
      /\ \/ task.start = saved.history
         \/ /\ saved.marks[folder] # None
            /\ task.start = saved.marks[folder] - Overlap
  <2>1. saved \in Saved /\ MaxNow \in Nat
    BY ScanAssumption DEF Sane, Dated
  <2>2. From(saved, folder) \in Nat
    BY <1>2, <1>3, <2>1, FromType DEF Time
  <2> QED BY <1>1, <1>3, <2>2, SavedTypes DEF From
<1> HIDE DEF folder
<1>7. CASE mail[m].received >= end
  <2>1. mail[m].whole => mail[m].since >= mail[m].received
    BY <1>4, <1>5, <1>7 DEF Dates, Visible
  <2>2. ~(mail[m].whole /\ mail[m].since < end)
    BY <1>4, <1>5, <1>7, <2>1
  <2>3. mail[m].received >= end - Overlap
    BY <1>4, <1>5, <1>7
  <2>4. Handled(m, end)
    BY <2>2, <2>3 DEF Handled
  <2> QED BY <2>4, ReadRecorded
<1>8. CASE mail[m].received < task.start
  <2>1. saved.marks[folder] # None /\ task.start = saved.marks[folder] - Overlap
    BY <1>5, <1>6, <1>8, SavedTypes, <1>2
  <2>2. Handled(m, saved.marks[folder])
    BY <1>3, <2>1 DEF Accounted, Covered, InHistory, folder
  <2>3. m \in saved.sources \cup saved.errors
    BY <1>8, <1>4, <1>5, <1>6, <2>1, <2>2 DEF Handled
  <2>4. m \notin saved.errors
    <3>1. ASSUME m \in saved.errors PROVE mail[m].received >= saved.marks[folder] - Overlap
      BY <1>1, <1>2, <1>3, <2>1, <3>1 DEF Accounted, Retried, InHistory, folder
    <3> QED BY <1>4, <1>5, <1>6, <1>8, <2>1, <3>1
  <2>5. Handled(m, end)
    BY <2>3, <2>4 DEF Handled
  <2> QED BY <2>5, ReadRecorded
<1>9. CASE task.start <= mail[m].received /\ mail[m].received < end
  <2>1. m \in ListOf(window)
    BY <1>5, <1>9 DEF ListOf, Listed, folder
  <2>2. CASE m \in Remaining(ListOf(window), window.next)
    <3>1. m \in PageOf(window)
      BY <2>2 DEF More
    <3> QED BY <3>1, ReadRecorded
  <2>3. CASE m \notin Remaining(ListOf(window), window.next)
    <3>1. window.next # None
      BY <1>2, <2>1, <2>3, RemainingIs, ListTypes DEF Window
    <3>2. m \in Behind(Listed(Min(saved.window.todo), Onset(saved.window), saved.window.end), saved.window)
      BY <1>1, <2>1, <2>3 DEF Behind, ListOf, Onset, folder
    <3>3. Handled(m, end)
      BY <1>1, <1>2, <3>1, <3>2 DEF Accounted, Delivered
    <3> QED BY <3>3, ReadRecorded
  <2> QED BY <2>2, <2>3
<1> QED BY <1>4, <1>5, <1>6, <1>7, <1>8, <1>9

LEMMA PageReadMarks ==
  ASSUME Sane, Same, Usable, Dates, Accounted, PageRead
  PROVE  Accounted'
<1> DEFINE window == task.window
           folder == Min(window.todo)
<1>1. /\ task.at = "page" /\ mail' = mail /\ saved'.history = saved.history /\ saved' \in Saved
      /\ saved'.window \in Window /\ saved'.window.end = window.end
      /\ \/ /\ More(window) /\ Onward(window, saved'.window.next)
            /\ saved'.window.todo = window.todo /\ saved'.marks = task.marks
         \/ /\ ~More(window) /\ saved'.window.next = None
            /\ saved'.window.todo = window.todo \ {folder}
            /\ saved'.marks = [task.marks EXCEPT ![folder] = window.end]
  BY DEF PageRead
<1>2. /\ window = saved.window /\ task.marks = saved.marks /\ task.start = From(saved, folder)
      /\ window \in Window /\ window # None /\ window.todo # {} /\ saved.history # None
      /\ saved.marks \in [Folder -> Time \cup {None}]
  BY <1>1 DEF Sane, Same, Onset, Holds, TaskType, Dated, Saved
<1>3. folder \in Folder /\ window.todo \in SUBSET Folder
  BY <1>2, FirstFolder DEF Window
<1>4. \A m, f : InHistory(m, f)' = InHistory(m, f)
  BY <1>1 DEF InHistory
<1>5. PageOf(window) \in SUBSET ListOf(window) /\ ListOf(window) \in SUBSET Message
  BY <1>2, ListTypes
<1>6. ASSUME NEW m \in PageOf(window) PROVE mail[m].folder = folder /\ mail[m].received >= task.start
  <2>1. m \in ListOf(window)
    BY <1>5
  <2>2. task.start <= mail[m].received /\ mail[m].folder = folder /\ m \in Message
    BY <2>1 DEF ListOf, Listed
  <2>3. task.start \in Nat
    <3>1. saved \in Saved /\ MaxNow \in Nat
      BY ScanAssumption DEF Sane, Dated
    <3> QED BY <1>2, <1>3, <3>1, FromType DEF Time
  <2> QED BY <2>2, <2>3, MessageTypes
<1>7. Retried'
  <2>1. ASSUME NEW f \in saved'.window.todo, saved'.marks[f] # None, NEW m \in saved'.errors,
               InHistory(m, f)
        PROVE  mail[m].received >= saved'.marks[f] - Overlap
    <3>1. f \in Folder /\ f \in window.todo /\ (f = folder => More(window))
      BY <1>1, <1>3, <2>1
    <3>2. saved'.marks[f] = saved.marks[f]
      BY <1>1, <1>2, <3>1
    <3>3. CASE m \in saved.errors
      BY <1>2, <2>1, <3>1, <3>2, <3>3 DEF Accounted, Retried
    <3>4. CASE m \in PageOf(window)
      <4>1. f = folder /\ mail[m].received >= task.start /\ m \in Message
        BY <1>5, <1>6, <2>1, <3>4 DEF InHistory
      <4>2. saved \in Saved
        BY DEF Sane, Dated
      <4>3. task.start >= saved.marks[f] - Overlap /\ task.start \in Time
        BY <1>2, <2>1, <3>1, <3>2, <4>1, <4>2, FromType
      <4>4. task.start \in Nat /\ Overlap \in Nat /\ mail[m].received \in Nat
        BY <4>1, <4>3, MessageTypes, ScanAssumption DEF Time
      <4>5. saved.marks[f] \in Nat
        BY <2>1, <3>1, <3>2, SavedTypes
      <4> QED BY <3>2, <4>1, <4>3, <4>4, <4>5
    <3> QED BY <2>1, <3>3, <3>4, ReadRecorded
  <2> QED BY <1>1, <1>4, <2>1 DEF Retried
<1>8. CASE More(window)
  <2>1. /\ Onward(window, saved'.window.next) /\ saved'.window.todo = window.todo
        /\ saved'.marks = saved.marks
    BY <1>1, <1>2, <1>8
  <2>2. Covered'
    <3>1. ASSUME NEW f \in Folder, saved.marks[f] # None, NEW m \in Message, InHistory(m, f),
                 NEW end, end = saved.marks[f]
          PROVE  Handled(m, end)'
      BY <3>1, ReadRecorded DEF Accounted, Covered
    <3>2. \A f \in Folder : saved.marks[f] # None =>
            \A m \in Message : InHistory(m, f) => \A end : end = saved.marks[f] => Handled(m, end)'
      BY <3>1
    <3> QED BY <1>4, <2>1, <3>2 DEF Covered, Handled
  <2>3. ASSUME NEW m \in ListOf(window), m \notin Remaining(ListOf(window), saved'.window.next),
               NEW end, end = window.end
        PROVE  Handled(m, end)'
    <3>1. CASE m \in Remaining(ListOf(window), window.next)
      <4> DEFINE list == ListOf(window)
                 on == saved'.window.next
                 page == PageOf(window)
      <4>1. /\ list \in SUBSET Nat /\ IsFiniteSet(list) /\ window.next \in Cursor \cup {None}
            /\ on \in Cursor /\ (window.next # None => on.by = window.next.by)
            /\ page = FirstOf(Remaining(list, window.next))
            /\ Remaining(list, window.next) \ page # {}
            /\ on.at = IF on.by = "token" THEN Max(page)
                       ELSE Cardinality(page) + (IF window.next = None THEN 0 ELSE window.next.at)
        BY <1>2, <1>8, <2>1, ListTypes DEF Onward, Window, PageOf, More
      <4>2. m \in page
        <5> HIDE DEF list, on, page
        <5>1. m \in list /\ m \notin Remaining(list, on) /\ m \in Remaining(list, window.next)
          BY <2>3, <3>1 DEF list, on
        <5> QED BY <4>1, <5>1, CursorOn
      <4> QED BY <4>2, ReadRecorded
    <3>2. CASE m \notin Remaining(ListOf(window), window.next)
      <4>1. window.next # None
        BY <1>2, <3>2, RemainingIs, ListTypes DEF Window
      <4>2. m \in Behind(Listed(Min(saved.window.todo), Onset(saved.window), saved.window.end), saved.window)
        BY <1>2, <3>2 DEF Behind, ListOf, Onset
      <4>3. Handled(m, end)
        BY <1>2, <2>3, <4>1, <4>2 DEF Accounted, Delivered
      <4> QED BY <4>3, ReadRecorded
    <3> QED BY <3>1, <3>2
  <2>4. Behind(Listed(Min(saved.window.todo), Onset(saved.window), saved.window.end), saved.window)'
          = ListOf(window) \ Remaining(ListOf(window), saved'.window.next)
    <3>1. Onset(saved.window)' = task.start
      BY <1>1, <1>2, <2>1 DEF Onset, From
    <3> QED BY <1>1, <2>1, <3>1 DEF Behind, ListOf, Listed, Remaining
  <2>5. Delivered'
    <3>1. \A m \in ListOf(window) \ Remaining(ListOf(window), saved'.window.next) :
            \A end : end = window.end => Handled(m, end)'
      BY <2>3
    <3>2. saved'.window.end = window.end
      BY <1>1
    <3> QED BY <2>4, <3>1, <3>2 DEF Delivered, Handled
  <2> QED BY <1>7, <2>2, <2>5 DEF Accounted
<1>9. CASE ~More(window)
  <2>1. /\ saved'.window.next = None /\ saved'.marks = [saved.marks EXCEPT ![folder] = window.end]
    BY <1>1, <1>2, <1>9
  <2>2. ASSUME NEW f \in Folder, saved'.marks[f] # None, NEW m \in Message, InHistory(m, f),
               NEW end, end = saved'.marks[f]
        PROVE  Handled(m, end)'
    <3>1. CASE f = folder
      <4>1. end = window.end
        BY <1>2, <1>3, <2>1, <2>2, <3>1
      <4> QED BY <1>9, <2>2, <3>1, <4>1, FolderRead
    <3>2. CASE f # folder
      <4>1. saved'.marks[f] = saved.marks[f]
        BY <1>2, <2>1, <3>2
      <4>2. Handled(m, end)
        BY <2>2, <4>1 DEF Accounted, Covered
      <4> QED BY <4>2, ReadRecorded
    <3> QED BY <3>1, <3>2
  <2>3. Covered'
    <3>1. \A f \in Folder : saved'.marks[f] # None =>
            \A m \in Message : InHistory(m, f) => \A end : end = saved'.marks[f] => Handled(m, end)'
      BY <2>2
    <3> QED BY <1>4, <3>1 DEF Covered, Handled
  <2>4. Delivered'
    BY <2>1 DEF Delivered
  <2> QED BY <1>7, <2>3, <2>4 DEF Accounted
<1> QED BY <1>8, <1>9

\* A new window starts without a cursor, and without the watermarks of the folders in which a
\* message could not be read.
LEMMA ScannedMarks ==
  ASSUME Sane, Standing => Accounted, Scanned, Resumes \/ Opens, Standing'
  PROVE  Accounted'
<1>1. /\ mail' = mail /\ saved'.sources = saved.sources /\ saved'.errors = saved.errors
      /\ saved'.history = IF saved.history = None THEN now - saved.config.lookback ELSE saved.history
      /\ promised' = IF saved.history = None THEN saved'.history ELSE promised
  BY DEF Scanned
<1>2. saved.history = None => saved.window = None /\ saved.marks = NoMarks
  BY DEF Sane, Dated
<1>3. CASE Resumes
  <2>1. saved.history # None /\ saved'.window = saved.window /\ saved'.marks = saved.marks
    BY <1>2, <1>3 DEF Resumes
  <2>2. Accounted /\ saved'.history = saved.history
    BY <1>1, <2>1 DEF Standing
  <2> QED BY <1>1, <2>1, <2>2, SameMarks
<1>4. CASE Opens
  <2>1. saved'.window.next = None /\ saved'.window.todo = saved.config.folders
    BY <1>4 DEF Opens
  <2>2. saved.config.folders \in SUBSET Folder
    BY SavedTypes DEF Saved, Config
  <2>3. Covered'
    <3>1. CASE saved.history = None
      BY <1>2, <1>4, <3>1 DEF Opens, NoMarks, Covered
    <3>2. CASE saved.history # None
      <4>1. Accounted /\ saved'.history = saved.history
        BY <1>1, <3>2 DEF Standing
      <4>2. \A f \in Folder : saved'.marks[f] # None => saved'.marks[f] = saved.marks[f]
        BY <1>4 DEF Opens
      <4> QED BY <1>1, <4>1, <4>2 DEF Accounted, Covered, InHistory, Handled
    <3> QED BY <3>1, <3>2
  <2>4. Retried'
    BY <1>1, <1>4, <2>1, <2>2 DEF Opens, Retried, InHistory
  <2>5. Delivered'
    BY <2>1 DEF Delivered
  <2> QED BY <2>3, <2>4, <2>5 DEF Accounted
<1> QED BY <1>3, <1>4

\* A new configuration starts without a window; it keeps the watermarks only of a history that
\* reaches no further back.
LEMMA RewrittenMarks ==
  ASSUME "torn" \notin Faults, Sane, Dates, Standing => Accounted,
         NEW db, NEW base, NEW updated, NEW model, Rewritten(db, base, updated, model), Standing'
  PROVE  Accounted'
<1>1. /\ UNCHANGED <<now, mail, task>> /\ Kept(db) /\ base \in Config /\ updated \in Config
      /\ base.lookback = saved.config.lookback
      /\ saved'.config = updated /\ saved'.history = Since(db, base, updated)
      /\ saved'.marks = IF Wider(db, base, updated) THEN NoMarks ELSE saved.marks
      /\ saved'.window = None
      /\ saved'.sources = saved.sources /\ saved'.errors = saved.errors
  BY WholeIs
<1>2. Delivered' /\ Retried'
  BY <1>1 DEF Delivered, Retried
<1>3. CASE saved'.marks = NoMarks
  BY <1>2, <1>3 DEF Accounted, Covered, NoMarks
<1>4. CASE saved'.marks # NoMarks
  <2>1. Accounted /\ saved'.marks = saved.marks /\ ~Wider(db, base, updated)
    BY <1>1, <1>4, RenewedPromise
  <2>2. saved.history # None
    BY <1>4, <2>1 DEF Sane, Dated
  <2>3. saved'.history >= saved.history
    BY <1>1, <2>1, <2>2, SinceLater
  <2>4. saved'.history \in Nat /\ saved.history \in Nat
    <3>1. Sane' /\ MaxNow \in Nat
      BY RewrittenSane, ScanAssumption
    <3>2. saved'.history \in Time \cup {None}
      BY <3>1 DEF Sane, Dated, Saved
    <3>3. saved'.history # None
      BY <1>1, <2>2, SinceType DEF Kept
    <3> QED BY <2>2, <3>1, <3>2, <3>3, SavedTypes DEF Time
  <2>5. ASSUME NEW m \in Message, NEW f \in Folder, InHistory(m, f)' PROVE InHistory(m, f)
    BY <1>1, <2>3, <2>4, <2>5, MessageTypes DEF InHistory
  <2>6. Covered'
    BY <1>1, <2>1, <2>5 DEF Accounted, Covered, Handled
  <2> QED BY <1>2, <2>6 DEF Accounted
<1> QED BY <1>3, <1>4

LEMMA AccountedStep ==
  ASSUME "torn" \notin Faults, "shift" \notin Faults, Sane, Dates,
         Standing => Same /\ Usable /\ Accounted, [Next]_vars, Standing'
  PROVE  Accounted'
<1>1. CASE UNCHANGED vars
  BY <1>1, SameMarks DEF vars, Standing
<1>2. CASE Quiet
  BY <1>2, SameMarks DEF Quiet, Kept, Standing
<1>3. CASE Mailbox
  <2>1. Sane' /\ UNCHANGED <<saved, task, promised>>
    BY <1>3, MailboxSane
  <2>2. Accounted
    BY <2>1 DEF Standing
  <2>3. CASE Tick
    BY <2>1, <2>2, <2>3, SameMarks DEF Tick
  <2>4. ASSUME NEW m \in Message, Leave(m), UNCHANGED now PROVE Accounted'
    <3>1. ~Skipping
      BY <2>4 DEF Leave
    <3> QED BY <2>1, <2>2, <2>4, <3>1, GoneIs, GoneMarks
  <2>5. ASSUME NEW m \in Message, Arrive(m) \/ Repair(m) PROVE Accounted'
    BY <2>1, <2>2, <2>5, ShownIs, ShownMarks DEF Dates
  <2> QED BY <1>3, <2>3, <2>4, <2>5, MailboxKinds
<1>4. CASE PageRead
  <2>1. promised' = promised
    BY <1>4 DEF PageRead
  <2> QED BY <1>4, <2>1, PageReadMarks DEF Standing
<1>5. CASE Over
  BY <1>5 DEF Over, Standing, Accounted, Covered, Delivered, Retried, InHistory, Handled
<1>6. CASE Scanned /\ (Resumes \/ Opens)
  BY <1>6, ScannedMarks
<1>7. ASSUME NEW db, NEW base, NEW updated, NEW model, Rewritten(db, base, updated, model)
      PROVE  Accounted'
  BY <1>7, RewrittenMarks
<1> QED BY <1>1, <1>2, <1>3, <1>4, <1>5, <1>6, <1>7, StepKinds

LEMMA AccountedMissesNothing ==
  ASSUME Sane, Dates, Standing => Accounted
  PROVE  NothingMissed
<1> SUFFICES ASSUME NEW m \in Message, Owed(m) PROVE m \in saved.sources
  BY DEF NothingMissed
<1> DEFINE f == mail[m].folder
<1>1. /\ mail[m].present /\ promised # None /\ mail[m].received >= promised
      /\ mail[m].whole /\ saved.marks[f] # None /\ mail[m].since < saved.marks[f]
  BY DEF Owed, Wanted
<1>2. f \in Folder
  <2>1. mail[m] \in MailType
    BY DEF Sane
  <2> QED BY <1>1, <2>1 DEF MailType, Dates, Visible
<1>3. Standing
  <2>1. mail[m].received \in Time /\ MaxNow \in Nat
    BY ScanAssumption DEF Sane, MailType
  <2> QED BY <1>1, <2>1 DEF Standing, Nothing, Time
<1>4. promised = saved.history
  BY <1>3 DEF Sane, Standing
<1>5. InHistory(m, f)
  BY <1>1, <1>4 DEF InHistory
<1>6. Handled(m, saved.marks[f])
  BY <1>1, <1>2, <1>3, <1>5 DEF Accounted, Covered
<1> QED BY <1>1, <1>6 DEF Handled

\* Watermarks never run ahead of what was recorded: every message of the history the user chose
\* that could be read before the end of the last finished window of its folder is recorded,
\* however late or repaired it came, and whatever was paused, resumed, reconfigured, failed or
\* interrupted in between.  It is left out that the process dies between two of configure()'s
\* writes, and that a message goes away in front of a $skip cursor (sync.py: configure, _scan).
THEOREM NothingMissedHolds ==
  ASSUME "torn" \notin Faults, "shift" \notin Faults
  PROVE  Spec => []NothingMissed
<1> DEFINE Marks == Dates /\ (Standing => Same /\ Usable /\ Accounted)
<1>1. Init => Marks
  <2>1. Init => Same /\ Usable
    BY DEF Init, Same, Usable, NoTask
  <2>2. Init => Accounted
    BY DEF Init, Accounted, Covered, Delivered, Retried, NoMarks
  <2> QED BY <2>1, <2>2, InitDates
<1>2. Sane /\ Marks /\ [Next]_vars => Marks'
  BY CursorStep, DatesStep, AccountedStep
<1>3. Sane /\ Marks => NothingMissed
  BY AccountedMissesNothing
<1> HIDE DEF Marks
<1> QED BY <1>1, <1>2, <1>3, SaneInvariant, PTL DEF Spec

=============================================================================
