------------------------- MODULE PageSessionProofs -------------------------
(***************************************************************************)
(* Theorems about PageSession, for any number of connections cut, requests *)
(* and aggregation points.                                                 *)
(*                                                                         *)
(* The page's level agrees with the daemon's because of what is under way  *)
(* to the page (LevelInv): as long as a message that carries a level is,   *)
(* the last of them carries the daemon's.  A command sent while none was   *)
(* under way either way therefore finds the daemon at the level the page   *)
(* let it through with: no login is ahead of it in the queue (PowerInv).   *)
(* The points of the aggregated plot are accounted for at the end.         *)
(***************************************************************************)
EXTENDS PageSession, FiniteSetTheorems, TLAPS

TellsLevel(m) == m.type \in {"init", "auth_result"}
LevelIn(m) == IF m.type = "init" THEN m.level ELSE m.granted

\* No message of the queue carries a level; the last that does carries l.
Silent(q) == \A i \in DOMAIN q : ~TellsLevel(q[i])
Tells(q, l) ==
  \E i \in DOMAIN q : /\ TellsLevel(q[i]) /\ LevelIn(q[i]) = l
                      /\ \A j \in DOMAIN q : i < j => ~TellsLevel(q[j])

\* A connection that is not open holds nothing, and the page is a guest.
ClosedInv == sock # "open" => wire = <<>> /\ toDaemon = <<>> /\ accessLevel = 0 /\ ~pill

LevelInv ==
  sock = "open" =>
    Tells(wire, level) \/ (Silent(wire) /\ accessLevel = level /\ allowed = level)

\* The init message comes first, to a page that is still a guest.
InitFirst == \A i \in DOMAIN wire : wire[i].type = "init" => i = 1 /\ accessLevel = 0

\* A command sent with no login under way has none before it.
Alone(c) == c.type = "power" /\ c.asking = "nothing"
PowerInv ==
  /\ \A i \in DOMAIN toDaemon : Alone(toDaemon[i]) =>
       level >= 1 /\ \A j \in DOMAIN toDaemon : j < i => toDaemon[j].type # "auth"
  /\ refused # "nothing"

AccessInv == ClosedInv /\ LevelInv /\ InitFirst /\ PowerInv

-----------------------------------------------------------------------------
\* What the queues of the two directions look like after a step.
LEMMA AppendFacts ==
    ASSUME NEW S, NEW q \in Seq(S), NEW e \in S
    PROVE  /\ Append(q, e) \in Seq(S)
           /\ DOMAIN q = 1..Len(q) /\ Len(q) \in Nat
           /\ DOMAIN Append(q, e) = 1..Len(q) + 1
           /\ \A i \in DOMAIN q : Append(q, e)[i] = q[i]
           /\ Append(q, e)[Len(q) + 1] = e
OBVIOUS

LEMMA TailFacts ==
    ASSUME NEW S, NEW q \in Seq(S), q # <<>>
    PROVE  /\ Tail(q) \in Seq(S) /\ Head(q) \in S
           /\ 1 \in DOMAIN q /\ Head(q) = q[1]
           /\ DOMAIN q \subseteq Nat \ {0}
           /\ DOMAIN Tail(q) \subseteq Nat \ {0}
           /\ \A i \in DOMAIN Tail(q) : i + 1 \in DOMAIN q /\ Tail(q)[i] = q[i + 1]
           /\ \A i \in DOMAIN q : i # 1 => i - 1 \in DOMAIN Tail(q) /\ Tail(q)[i - 1] = q[i]
OBVIOUS

LEMMA ConcatFacts ==
    ASSUME NEW S, NEW q \in Seq(S), NEW r \in Seq(S)
    PROVE  /\ q \o r \in Seq(S)
           /\ DOMAIN q = 1..Len(q) /\ Len(q) \in Nat
           /\ DOMAIN r = 1..Len(r) /\ Len(r) \in Nat
           /\ DOMAIN (q \o r) = 1..Len(q) + Len(r)
           /\ \A i \in DOMAIN q : (q \o r)[i] = q[i]
           /\ \A i \in DOMAIN (q \o r) :
                i \notin DOMAIN q => i - Len(q) \in DOMAIN r /\ (q \o r)[i] = r[i - Len(q)]
OBVIOUS

\* What a queue tells, when its head is taken, ...
LEMMA TailTells ==
    ASSUME NEW S, NEW q \in Seq(S), q # <<>>, NEW l
    PROVE  /\ Silent(q) => Silent(Tail(q)) /\ ~TellsLevel(Head(q))
           /\ Tells(q, l) =>
                \/ Tells(Tail(q), l)
                \/ Silent(Tail(q)) /\ TellsLevel(Head(q)) /\ LevelIn(Head(q)) = l
<1> USE TailFacts
<1>1. Silent(q) => Silent(Tail(q)) /\ ~TellsLevel(Head(q))
  BY DEF Silent
<1>2. ASSUME Tells(q, l)
      PROVE  \/ Tells(Tail(q), l)
             \/ Silent(Tail(q)) /\ TellsLevel(Head(q)) /\ LevelIn(Head(q)) = l
  <2>1. PICK i \in DOMAIN q :
          /\ TellsLevel(q[i]) /\ LevelIn(q[i]) = l
          /\ \A j \in DOMAIN q : i < j => ~TellsLevel(q[j])
    BY <1>2 DEF Tells
  <2>2. CASE i = 1
    <3>1. \A j \in DOMAIN Tail(q) : j + 1 \in DOMAIN q /\ 1 < j + 1 /\ Tail(q)[j] = q[j + 1]
      OBVIOUS
    <3>2. Silent(Tail(q))
      BY <2>1, <2>2, <3>1 DEF Silent
    <3> QED
      BY <2>1, <2>2, <3>2
  <2>3. CASE i # 1
    <3>1. i - 1 \in DOMAIN Tail(q) /\ Tail(q)[i - 1] = q[i]
      BY <2>3
    <3>2. \A j \in DOMAIN Tail(q) :
            j + 1 \in DOMAIN q /\ Tail(q)[j] = q[j + 1] /\ (i - 1 < j => i < j + 1)
      OBVIOUS
    <3>3. \A j \in DOMAIN Tail(q) : i - 1 < j => ~TellsLevel(Tail(q)[j])
      BY <2>1, <3>2
    <3> QED
      BY <2>1, <3>1, <3>3 DEF Tells
  <2> QED
    BY <2>2, <2>3
<1> QED
  BY <1>1, <1>2

\* ... when a message is appended, ...
LEMMA AppendTells ==
    ASSUME NEW S, NEW q \in Seq(S), NEW m \in S, NEW l
    PROVE  /\ TellsLevel(m) => Tells(Append(q, m), LevelIn(m))
           /\ ~TellsLevel(m) =>
                /\ Silent(q) => Silent(Append(q, m))
                /\ Tells(q, l) => Tells(Append(q, m), l)
<1> DEFINE a == Append(q, m)
<1> USE AppendFacts
<1>1. /\ Len(q) + 1 \in DOMAIN a /\ a[Len(q) + 1] = m
      /\ \A j \in DOMAIN a : j = Len(q) + 1 \/ (j \in DOMAIN q /\ a[j] = q[j])
      /\ \A j \in DOMAIN q : j \in DOMAIN a /\ a[j] = q[j]
      /\ \A j \in DOMAIN a : ~(Len(q) + 1 < j)
  OBVIOUS
<1> HIDE DEF a
<1>2. TellsLevel(m) => Tells(a, LevelIn(m))
  BY <1>1 DEF Tells
<1>3. ~TellsLevel(m) /\ Silent(q) => Silent(a)
  BY <1>1 DEF Silent
<1>4. ~TellsLevel(m) /\ Tells(q, l) => Tells(a, l)
  BY <1>1 DEF Tells
<1> QED
  BY <1>2, <1>3, <1>4 DEF a

\* ... and when the snapshots are.
LEMMA ConcatTells ==
    ASSUME NEW S, NEW q \in Seq(S), NEW r \in Seq(S), Silent(r), NEW l
    PROVE  /\ Silent(q) => Silent(q \o r)
           /\ Tells(q, l) => Tells(q \o r, l)
<1> DEFINE a == q \o r
<1>1. /\ \A j \in DOMAIN a : (j \in DOMAIN q /\ a[j] = q[j]) \/ ~TellsLevel(a[j])
      /\ \A j \in DOMAIN q : j \in DOMAIN a /\ a[j] = q[j]
  BY ConcatFacts DEF Silent
<1> HIDE DEF a
<1>2. Silent(q) => Silent(a)
  BY <1>1 DEF Silent
<1>3. Tells(q, l) => Tells(a, l)
  BY <1>1 DEF Tells
<1> QED
  BY <1>2, <1>3 DEF a

-----------------------------------------------------------------------------
(* Types. *)

LEMMA IntervalIsNat == Interval \in Nat \ {0}
BY IntervalAssumption

LEMMA SnapshotsFacts ==
    ASSUME TypeOK
    PROVE  /\ Snapshots \in Seq(Messages) /\ Silent(Snapshots)
           /\ \A i \in DOMAIN Snapshots : Snapshots[i].type \in Sources
<1>1. \A src \in Sources : /\ Snapshot(src) \in Messages
                          /\ Snapshot(src).type = src
                          /\ ~TellsLevel(Snapshot(src))
  BY DEF Snapshot, Messages, Sources, TellsLevel
<1>2. "ch" \in Sources /\ "bd" \in Sources /\ "bst" \in Sources
  BY DEF Sources
<1> DEFINE a == Snapshot("ch")
           b == Snapshot("bd")
           c == Snapshot("bst")
<1>3. /\ Snapshots = <<a, b, c>>
      /\ a \in Messages /\ b \in Messages /\ c \in Messages
      /\ a.type \in Sources /\ b.type \in Sources /\ c.type \in Sources
      /\ ~TellsLevel(a) /\ ~TellsLevel(b) /\ ~TellsLevel(c)
  BY <1>1, <1>2 DEF Snapshots
<1> HIDE DEF a, b, c
<1>4. Snapshots \in Seq(Messages) /\ DOMAIN Snapshots = 1..3
  BY <1>3
<1>5. \A i \in DOMAIN Snapshots : Snapshots[i] \in {a, b, c}
  BY <1>3, <1>4
<1> QED
  BY <1>3, <1>4, <1>5 DEF Silent

\* An evaluation, the mute button and the clock.
LEMMA AlarmTypes ==
    ASSUME AlarmTypeOK
    PROVE  /\ AlarmQuiet => AlarmTypeOK'
           /\ \A f \in SUBSET Sources : Evaluate(f) => AlarmTypeOK'
           /\ ToggleMute => AlarmTypeOK'
           /\ Tick => AlarmTypeOK'
<1> USE IntervalIsNat
<1>1. AlarmQuiet => AlarmTypeOK'
  BY DEF AlarmQuiet, alarmVars, AlarmTypeOK
<1>2. ASSUME NEW f \in SUBSET Sources, Evaluate(f)
      PROVE  AlarmTypeOK'
  <2>1. Quieted(f) \in BOOLEAN /\ Age(f) \in 0..Interval
    BY DEF Quieted, Age, AlarmTypeOK
  <2>2. button' \in [on : BOOLEAN, quiet : BOOLEAN, dots : SUBSET Sources]
    BY <1>2, <2>1 DEF Evaluate, ButtonShows
  <2> QED
    BY <1>2, <2>1, <2>2 DEF Evaluate, AlarmTypeOK
<1>3. ASSUME ToggleMute
      PROVE  AlarmTypeOK'
  <2>1. button.dots \in SUBSET Sources
    BY DEF AlarmTypeOK
  <2>2. button' \in [on : BOOLEAN, quiet : BOOLEAN, dots : SUBSET Sources]
    BY <1>3, <2>1 DEF ToggleMute, ButtonShows, AlarmTypeOK
  <2> QED
    BY <1>3, <2>2 DEF ToggleMute, AlarmTypeOK
<1>4. Tick => AlarmTypeOK'
  BY DEF Tick, Older, AlarmTypeOK
<1> QED
  BY <1>1, <1>2, <1>3, <1>4

LEMMA SendTypes ==
    ASSUME TypeOK, NEW m \in Messages, Send(m)
    PROVE  wire' \in Seq(Messages)
BY AppendFacts DEF TypeOK, Send

LEMMA DeltaIsMessage ==
    ASSUME TypeOK, taken < flushed
    PROVE  [type |-> "agg", points |-> Delta] \in Messages
<1>1. taken \in Nat /\ flushed \in Nat /\ taken < flushed
  BY DEF TypeOK
<1>2. Delta \in Seq(Nat)
  BY <1>1 DEF Delta
<1> QED
  BY <1>2 DEF Messages

LEMMA ReceiveTypes ==
    ASSUME TypeOK, NEW t, Receive(t)
    PROVE  /\ wire' \in Seq(Messages) /\ Head(wire) \in Messages /\ Head(wire).type = t
           /\ wire # <<>> /\ wire' = Tail(wire)
BY TailFacts DEF TypeOK, Receive

LEMMA AskTypes ==
    ASSUME TypeOK, NEW c \in Requests, Ask(c)
    PROVE  toDaemon' \in Seq(Requests) /\ events' \in Nat
BY AppendFacts DEF TypeOK, Ask, Event

LEMMA InitTypes == Init => TypeOK
<1> SUFFICES ASSUME Init PROVE TypeOK
  OBVIOUS
<1>1. button = [on |-> FALSE, quiet |-> FALSE, dots |-> {}]
  BY DEF Init, AlarmInit, ButtonShows
<1>2. button \in [on : BOOLEAN, quiet : BOOLEAN, dots : SUBSET Sources]
  BY <1>1
<1>3. AlarmTypeOK
  <2>1. faults = {} /\ active = FALSE /\ muted = FALSE /\ since = 0 /\ up = 0
    BY DEF Init, AlarmInit
  <2>2. since \in 0..Interval /\ up \in 0..Interval
    BY <2>1, IntervalIsNat
  <2> QED
    BY <1>2, <2>1, <2>2 DEF AlarmTypeOK
<1>4. initData \in [level : 0..2, points : Nat, none : BOOLEAN]
  BY DEF Init, NoInit
<1>5. wire \in Seq(Messages) /\ toDaemon \in Seq(Requests) /\ series \in Seq(Nat)
  BY DEF Init
<1>6. booted \in BOOLEAN /\ once \in SUBSET Sources /\ loaded \in SUBSET Static
  BY DEF Init
<1>7. /\ hw \in SUBSET Sources /\ passwords \in BOOLEAN /\ level \in 0..2
      /\ flushed \in Nat /\ taken \in Nat /\ events \in Nat
      /\ requester \in {"none", "page", "other"}
      /\ sock \in {"closed", "connecting", "open"}
  BY DEF Init
<1>8. /\ accessLevel \in 0..2 /\ allowed \in 0..2
      /\ saveBtn \in {"Save", "Saving"} /\ refused \in {"none", "login", "nothing"}
  BY DEF Init
<1>9. /\ lost \in SUBSET Nat /\ early \in SUBSET Nat
      /\ pill \in BOOLEAN /\ lostSave \in BOOLEAN /\ overtaken \in BOOLEAN
  BY DEF Init
<1> QED
  BY <1>3, <1>4, <1>5, <1>6, <1>7, <1>8, <1>9 DEF TypeOK

\* The type is kept by every step.
LEMMA StepTypes == TypeOK /\ [Next]_vars => TypeOK'
<1> SUFFICES ASSUME TypeOK, [Next]_vars PROVE TypeOK'
  OBVIOUS
<1>0. AlarmTypeOK /\ (AlarmQuiet => AlarmTypeOK')
  BY AlarmTypes DEF TypeOK
<1> USE DEF daemonVars, linkVars, bootVars, viewVars, historyVars
<1>1. CASE Connect
  BY <1>0, <1>1 DEF Connect, TypeOK, NoInit
<1>2. CASE Open
  <2>1. Opening \in 0..2
    BY DEF Opening
  <2> DEFINE m == [type |-> "init", level |-> Opening, points |-> flushed]
  <2>2. m \in Messages
    BY <2>1 DEF TypeOK, Messages
  <2>3. <<m>> \in Seq(Messages)
    BY <2>2
  <2>4. wire' \in Seq(Messages)
    BY <1>2, <2>3, SnapshotsFacts, ConcatFacts DEF Open
  <2>5. once' \in SUBSET Sources /\ early' \in SUBSET Nat
    BY <1>2 DEF Open, TypeOK, Waiting, Sources
  <2> QED
    BY <1>0, <1>2, <2>1, <2>4, <2>5 DEF Open, TypeOK
<1>3. CASE Cut
  <2>1. UNION {PointsOf(wire[i]) : i \in DOMAIN wire} \in SUBSET Nat
    <3>1. ASSUME NEW i \in DOMAIN wire
          PROVE  PointsOf(wire[i]) \subseteq Nat
      <4>1. wire[i] \in Messages
        BY DEF TypeOK
      <4>2. wire[i].type = "agg" => wire[i].points \in Seq(Nat)
        BY <4>1 DEF Messages, Sources
      <4> QED
        BY <4>2 DEF PointsOf, ToSet
    <3> QED
      BY <3>1
  <2>2. lost' \in SUBSET Nat
    BY <1>3, <2>1 DEF Cut, TypeOK
  <2>3. wire' \in Seq(Messages) /\ toDaemon' \in Seq(Requests)
    BY <1>3 DEF Cut
  <2>4. accessLevel' \in 0..2
    BY <1>3 DEF Cut, LevelAfterCut
  <2>5. events' \in Nat /\ sock' \in {"closed", "connecting", "open"}
    BY <1>3 DEF Cut, Event, TypeOK
  <2>6. AlarmTypeOK'
    BY <1>0, <1>3 DEF Cut
  <2>7. lostSave' \in BOOLEAN
    BY <1>3, Zenon DEF Cut
  <2>8. UNCHANGED <<hw, passwords, level, flushed, taken, bootVars, allowed, saveBtn,
                    early, overtaken, refused>>
    BY <1>3 DEF Cut
  <2>9. pill' \in BOOLEAN
    BY <1>3, Zenon DEF Cut, PillAfterCut
  <2>10. /\ hw' \in SUBSET Sources /\ passwords' \in BOOLEAN /\ level' \in 0..2
         /\ flushed' \in Nat /\ taken' \in Nat
         /\ initData' \in [level : 0..2, points : Nat, none : BOOLEAN]
         /\ booted' \in BOOLEAN /\ once' \in SUBSET Sources /\ loaded' \in SUBSET Static
         /\ series' \in Seq(Nat)
    BY <2>8 DEF TypeOK
  <2>12. requester' \in {"none", "page", "other"} /\ overtaken' \in BOOLEAN
    BY <1>3, <2>8 DEF Cut, TypeOK
  <2>11. /\ allowed' \in 0..2 /\ saveBtn' \in {"Save", "Saving"}
         /\ early' \in SUBSET Nat /\ refused' \in {"none", "login", "nothing"}
    BY <2>8 DEF TypeOK
  <2> QED
    BY <2>2, <2>3, <2>4, <2>5, <2>6, <2>7, <2>9, <2>10, <2>11, <2>12 DEF TypeOK
<1>4. CASE HardwareChanges
  BY <1>0, <1>4 DEF HardwareChanges, Event, TypeOK
<1>5. CASE Broadcast
  <2>1. wire' \in Seq(Messages)
    BY <1>5, SnapshotsFacts, ConcatFacts DEF Broadcast, TypeOK
  <2> QED
    BY <1>0, <1>5, <2>1 DEF Broadcast, TypeOK
<1>6. CASE Flush
  BY <1>0, <1>6 DEF Flush, Event, TypeOK
<1>7. CASE BroadcastDelta
  <2>1. taken \in Nat /\ flushed \in Nat /\ taken < flushed
    BY <1>7 DEF BroadcastDelta, TypeOK
  <2>2. wire' \in Seq(Messages)
    BY <1>7, DeltaIsMessage, SendTypes DEF BroadcastDelta
  <2>3. lost' \in SUBSET Nat
    BY <1>7, <2>1 DEF BroadcastDelta, TypeOK
  <2> QED
    BY <1>0, <1>7, <2>1, <2>2, <2>3 DEF BroadcastDelta, TypeOK
<1>8. CASE Serve
  <2>1. /\ Head(toDaemon) \in Requests /\ toDaemon' \in Seq(Requests)
    BY <1>8, TailFacts DEF Serve, TypeOK
  <2> DEFINE c == Head(toDaemon)
  <2>2. c.type = "auth" => Granted(c) \in 0..2
    BY <2>1 DEF Granted, Requests
  <2>3. c.type = "power" => c.asking \in {"login", "nothing"}
    BY <2>1 DEF Requests
  <2>4. c.type = "auth" => [type |-> "auth_result", granted |-> Granted(c)] \in Messages
    BY <2>2 DEF Messages
  <2>6. wire' \in Seq(Messages)
    BY <1>8, <2>4, SendTypes DEF Serve, TypeOK
  <2>7. /\ level' \in 0..2 /\ refused' \in {"none", "login", "nothing"}
        /\ requester' \in {"none", "page", "other"}
    BY <1>8, <2>2, <2>3 DEF Serve, TypeOK
  <2> QED
    BY <1>0, <1>8, <2>1, <2>6, <2>7 DEF Serve, TypeOK
<1>9. CASE Handle
  <2>1. CASE ReceiveInit
    <3>1. wire' \in Seq(Messages) /\ Head(wire) \in Messages /\ Head(wire).type = "init"
      BY <2>1, ReceiveTypes DEF ReceiveInit
    <3>2. Head(wire).level \in 0..2 /\ Head(wire).points \in Nat
      BY <3>1 DEF Messages, Sources
    <3>3. initData' \in [level : 0..2, points : Nat, none : BOOLEAN]
      BY <2>1, <3>2 DEF ReceiveInit, InitMsg
    <3> QED
      BY <1>0, <2>1, <3>1, <3>2, <3>3 DEF ReceiveInit, ShowLevel, TypeOK
  <2>2. CASE ReceiveDelta
    <3>1. wire' \in Seq(Messages) /\ Head(wire) \in Messages /\ Head(wire).type = "agg"
      BY <2>2, ReceiveTypes DEF ReceiveDelta
    <3>2. Head(wire).points \in Seq(Nat)
      BY <3>1 DEF Messages, Sources
    <3>3. series' \in Seq(Nat)
      BY <2>2, <3>2, ConcatFacts DEF ReceiveDelta, TypeOK
    <3> QED
      BY <1>0, <2>2, <3>1, <3>3 DEF ReceiveDelta, TypeOK
  <2>3. CASE ReceiveAuthResult
    <3>1. wire' \in Seq(Messages) /\ Head(wire) \in Messages /\ Head(wire).type = "auth_result"
      BY <2>3, ReceiveTypes DEF ReceiveAuthResult
    <3>2. Head(wire).granted \in 0..2
      BY <3>1 DEF Messages, Sources
    <3> QED
      BY <1>0, <2>3, <3>1, <3>2 DEF ReceiveAuthResult, ShowLevel, TypeOK
  <2>4. CASE ReceiveSettings
    <3>1. wire' \in Seq(Messages)
      BY <2>4, ReceiveTypes DEF ReceiveSettings
    <3> QED
      BY <1>0, <2>4, <3>1 DEF ReceiveSettings, TypeOK
  <2>5. ASSUME NEW src \in Sources, ReceiveSnapshot(src)
        PROVE  TypeOK'
    <3>1. wire' \in Seq(Messages)
      BY <2>5, ReceiveTypes DEF ReceiveSnapshot
    <3>2. AlarmTypeOK'
      BY <1>0, <2>5, AlarmTypes DEF ReceiveSnapshot, AlarmTypeOK
    <3>3. Seed \in Seq(Nat)
      BY DEF Seed, TypeOK
    <3>4. /\ once' \in SUBSET Sources /\ loaded' \in SUBSET Static
          /\ series' \in Seq(Nat) /\ pill' \in BOOLEAN
      BY <2>5, <3>3 DEF ReceiveSnapshot, FirstChannels, TypeOK, Sources, Static
    <3> QED
      BY <2>5, <3>1, <3>2, <3>4 DEF ReceiveSnapshot, TypeOK
  <2> QED
    BY <1>9, <2>1, <2>2, <2>3, <2>4, <2>5 DEF Handle
<1>10. CASE Power
  <2>1. [type |-> "power", asking |-> AuthUnderWay] \in Requests
    BY DEF Requests, AuthUnderWay
  <2>2. toDaemon' \in Seq(Requests) /\ events' \in Nat
    BY <1>10, <2>1, AskTypes DEF Power
  <2> QED
    BY <1>0, <1>10, <2>2 DEF Power, Ask, TypeOK
<1>11. CASE Save
  <2>1. [type |-> "save"] \in Requests
    BY DEF Requests
  <2>2. toDaemon' \in Seq(Requests) /\ events' \in Nat
    BY <1>11, <2>1, AskTypes DEF Save
  <2> QED
    BY <1>0, <1>11, <2>2 DEF Save, Ask, TypeOK
<1>12. CASE Mute
  BY <1>0, <1>12, AlarmTypes DEF Mute, Event, TypeOK
<1>13. CASE Time
  BY <1>0, <1>13, AlarmTypes DEF Time, TypeOK
<1>14. ASSUME NEW l \in 0..2, NEW good \in BOOLEAN, Login(l, good)
       PROVE  TypeOK'
  <2>1. [type |-> "auth", ask |-> l, good |-> good] \in Requests
    BY DEF Requests
  <2>2. toDaemon' \in Seq(Requests) /\ events' \in Nat
    BY <1>14, <2>1, AskTypes DEF Login
  <2> QED
    BY <1>0, <1>14, <2>2 DEF Login, Ask, TypeOK
<1>15. CASE UNCHANGED vars
  BY <1>0, <1>15 DEF vars, AlarmQuiet, TypeOK
<1>16. CASE OtherSaves
  <2>1. overtaken' \in BOOLEAN
    BY <1>16, Zenon DEF OtherSaves
  <2> QED
    BY <1>0, <1>16, <2>1 DEF OtherSaves, Event, TypeOK
<1>17. CASE Answer
  <2>1. [type |-> "settings"] \in Messages
    BY DEF Messages
  <2>2. wire' \in Seq(Messages)
    BY <1>17, <2>1, SendTypes DEF Answer, TypeOK
  <2> QED
    BY <1>0, <1>17, <2>2 DEF Answer, TypeOK
<1> QED
  BY <1>1, <1>2, <1>3, <1>4, <1>5, <1>6, <1>7, <1>8, <1>9, <1>10, <1>11, <1>12, <1>13,
     <1>14, <1>15, <1>16, <1>17 DEF Next

\* The levels, messages and points that the page and the daemon exchange are
\* those their handlers expect, for any number of events.
THEOREM TypeCorrect == Spec => []TypeOK
<1>1. Init => TypeOK
  BY InitTypes
<1>2. TypeOK /\ [Next]_vars => TypeOK'
  BY StepTypes
<1> QED
  BY <1>1, <1>2, PTL DEF Spec

-----------------------------------------------------------------------------
(* The access level. *)

\* What taking a message from the wire leaves of the queue's part of AccessInv.
LEMMA ReceiveAccess ==
    ASSUME TypeOK, AccessInv, NEW t, Receive(t)
    PROVE  /\ sock = "open"
           /\ \A i \in DOMAIN wire' : wire'[i].type # "init"
           /\ t \notin {"init", "auth_result"} =>
                Tells(wire', level) \/ (Silent(wire') /\ accessLevel = level /\ allowed = level)
           /\ t \in {"init", "auth_result"} =>
                Tells(wire', level) \/ (Silent(wire') /\ LevelIn(Head(wire)) = level)
<1>1. wire # <<>> /\ wire' = Tail(wire) /\ Head(wire).type = t /\ wire \in Seq(Messages)
  BY ReceiveTypes DEF TypeOK
<1>2. sock = "open"
  BY <1>1 DEF AccessInv, ClosedInv
<1>3. \A i \in DOMAIN wire' : wire'[i].type # "init"
  <2>1. \A i \in DOMAIN Tail(wire) :
          i + 1 \in DOMAIN wire /\ Tail(wire)[i] = wire[i + 1] /\ i + 1 # 1
    BY <1>1, TailFacts
  <2> QED
    BY <1>1, <2>1 DEF AccessInv, InitFirst
<1>4. /\ Silent(wire) => Silent(Tail(wire)) /\ ~TellsLevel(Head(wire))
      /\ Tells(wire, level) =>
           \/ Tells(Tail(wire), level)
           \/ Silent(Tail(wire)) /\ TellsLevel(Head(wire)) /\ LevelIn(Head(wire)) = level
  BY <1>1, TailTells
<1>5. Tells(wire, level) \/ (Silent(wire) /\ accessLevel = level /\ allowed = level)
  BY <1>2 DEF AccessInv, LevelInv
<1>6. TellsLevel(Head(wire)) <=> t \in {"init", "auth_result"}
  BY <1>1 DEF TellsLevel
<1> QED
  BY <1>1, <1>2, <1>3, <1>4, <1>5, <1>6

\* A message that is sent carries the daemon's level or none.
LEMMA SendAccess ==
    ASSUME TypeOK, AccessInv, NEW m \in Messages, Send(m), m.type # "init"
    PROVE  /\ sock = "open" /\ ~TellsLevel(m) =>
                Tells(wire', level) \/ (Silent(wire') /\ accessLevel = level /\ allowed = level)
           /\ sock = "open" /\ TellsLevel(m) => Tells(wire', LevelIn(m))
           /\ sock # "open" => wire' = wire
           /\ \A i \in DOMAIN wire' : wire'[i].type = "init" => i = 1 /\ accessLevel = 0
<1>1. CASE sock # "open"
  BY <1>1 DEF Send, AccessInv, InitFirst
<1>2. CASE sock = "open"
  <2>1. wire' = Append(wire, m) /\ wire \in Seq(Messages)
    BY <1>2 DEF Send, TypeOK
  <2>2. Tells(wire, level) \/ (Silent(wire) /\ accessLevel = level /\ allowed = level)
    BY <1>2 DEF AccessInv, LevelInv
  <2>3. /\ TellsLevel(m) => Tells(wire', LevelIn(m))
        /\ ~TellsLevel(m) =>
             /\ Silent(wire) => Silent(wire')
             /\ Tells(wire, level) => Tells(wire', level)
    BY <2>1, AppendTells
  <2>4. \A i \in DOMAIN wire' : (i \in DOMAIN wire /\ wire'[i] = wire[i]) \/ wire'[i] = m
    BY <2>1, AppendFacts
  <2>5. \A i \in DOMAIN wire' : wire'[i].type = "init" => i = 1 /\ accessLevel = 0
    BY <2>4 DEF AccessInv, InitFirst
  <2> QED
    BY <1>2, <2>2, <2>3, <2>5
<1> QED
  BY <1>1, <1>2

\* A request that is sent is a power command let through at the daemon's level,
\* or was sent with a login under way.
LEMMA AskAccess ==
    ASSUME TypeOK, AccessInv, NEW c \in Requests, Ask(c),
           Alone(c) /\ sock = "open" => level >= 1 /\ ~Holds(toDaemon, "auth")
    PROVE  AccessInv'
<1>1. UNCHANGED <<sock, wire, level, accessLevel, allowed, pill, refused>>
  BY DEF Ask, daemonVars
<1>2. CASE sock # "open"
  <2>1. UNCHANGED toDaemon
    BY <1>2 DEF Ask
  <2> QED
    BY <1>1, <2>1 DEF AccessInv, ClosedInv, LevelInv, InitFirst, PowerInv
<1>3. CASE sock = "open"
  <2>1. toDaemon' = Append(toDaemon, c) /\ toDaemon \in Seq(Requests)
    BY <1>3 DEF Ask, TypeOK
  <2>2. \A i \in DOMAIN toDaemon' :
          \/ i \in DOMAIN toDaemon /\ toDaemon'[i] = toDaemon[i]
                /\ \A j \in DOMAIN toDaemon' : j < i =>
                     j \in DOMAIN toDaemon /\ toDaemon'[j] = toDaemon[j]
          \/ toDaemon'[i] = c
                /\ \A j \in DOMAIN toDaemon' : j < i =>
                     j \in DOMAIN toDaemon /\ toDaemon'[j] = toDaemon[j]
    BY <2>1, AppendFacts
  <2>3. PowerInv'
    BY <1>1, <1>3, <2>2 DEF AccessInv, PowerInv, Holds
  <2> QED
    BY <1>1, <1>3, <2>3 DEF AccessInv, ClosedInv, LevelInv, InitFirst
<1> QED
  BY <1>2, <1>3

\* Steps in which neither the queues nor a level change.
LEMMA QuietAccess ==
    ASSUME AccessInv, UNCHANGED <<sock, wire, toDaemon, level, accessLevel, allowed, pill, refused>>
    PROVE  AccessInv'
BY DEF AccessInv, ClosedInv, LevelInv, InitFirst, PowerInv

LEMMA InitAccess == Init => AccessInv
<1> SUFFICES ASSUME Init PROVE AccessInv
  OBVIOUS
<1>1. /\ wire = <<>> /\ toDaemon = <<>> /\ sock = "connecting"
      /\ accessLevel = 0 /\ pill = FALSE /\ refused = "none"
  BY DEF Init
<1>2. DOMAIN wire = {} /\ DOMAIN toDaemon = {}
  BY <1>1
<1> QED
  BY <1>1, <1>2 DEF AccessInv, ClosedInv, LevelInv, InitFirst, PowerInv

\* The page receives: the level comes with its head, or it changes nothing.
LEMMA ReceiveStepAccess == TypeOK /\ AccessInv /\ Handle => AccessInv'
<1> SUFFICES ASSUME TypeOK, AccessInv, Handle PROVE AccessInv'
  OBVIOUS
<1>1. ASSUME NEW t, Receive(t), t \in {"init", "auth_result"},
             ShowLevel(LevelIn(Head(wire))), UNCHANGED <<sock, toDaemon, level, pill, refused>>
      PROVE  AccessInv'
  <2>1. /\ sock = "open"
        /\ \A i \in DOMAIN wire' : wire'[i].type # "init"
        /\ Tells(wire', level) \/ (Silent(wire') /\ LevelIn(Head(wire)) = level)
    BY <1>1, ReceiveAccess
  <2> QED
    BY <1>1, <2>1 DEF ShowLevel, AccessInv, ClosedInv, LevelInv, InitFirst, PowerInv
<1>2. ASSUME NEW t, Receive(t), t \notin {"init", "auth_result"},
             UNCHANGED <<sock, toDaemon, level, accessLevel, allowed, refused>>
      PROVE  AccessInv'
  <2>1. /\ sock = "open"
        /\ \A i \in DOMAIN wire' : wire'[i].type # "init"
        /\ Tells(wire', level) \/ (Silent(wire') /\ accessLevel = level /\ allowed = level)
    BY <1>2, ReceiveAccess
  <2> QED
    BY <1>2, <2>1 DEF AccessInv, ClosedInv, LevelInv, InitFirst, PowerInv
<1>3. CASE ReceiveInit
  <2>1. Receive("init") /\ Head(wire).type = "init"
    BY <1>3 DEF ReceiveInit, Receive
  <2>2. ShowLevel(LevelIn(Head(wire)))
    BY <1>3, <2>1 DEF ReceiveInit, LevelIn
  <2>3. UNCHANGED <<sock, toDaemon, level, pill, refused>>
    BY <1>3 DEF ReceiveInit, daemonVars, historyVars
  <2> QED
    BY <1>1, <2>1, <2>2, <2>3
<1>4. CASE ReceiveAuthResult
  <2>1. Receive("auth_result") /\ Head(wire).type = "auth_result"
    BY <1>4 DEF ReceiveAuthResult, Receive
  <2>2. ShowLevel(LevelIn(Head(wire)))
    BY <1>4, <2>1 DEF ReceiveAuthResult, LevelIn
  <2>3. UNCHANGED <<sock, toDaemon, level, pill, refused>>
    BY <1>4 DEF ReceiveAuthResult, daemonVars, historyVars
  <2> QED
    BY <1>1, <2>1, <2>2, <2>3
<1>5. CASE ReceiveDelta
  BY <1>2, <1>5 DEF ReceiveDelta, daemonVars, viewVars, historyVars
<1>6. CASE ReceiveSettings
  BY <1>2, <1>6 DEF ReceiveSettings, daemonVars, historyVars
<1>7. ASSUME NEW src \in Sources, ReceiveSnapshot(src)
      PROVE  AccessInv'
  BY <1>2, <1>7 DEF ReceiveSnapshot, daemonVars, historyVars, Sources
<1> QED
  BY <1>3, <1>4, <1>5, <1>6, <1>7 DEF Handle

LEMMA ServeAccess == TypeOK /\ AccessInv /\ Serve => AccessInv'
<1> SUFFICES ASSUME TypeOK, AccessInv, Serve PROVE AccessInv'
  OBVIOUS
<1> DEFINE c == Head(toDaemon)
<1>1. /\ toDaemon # <<>> /\ toDaemon' = Tail(toDaemon) /\ toDaemon \in Seq(Requests)
      /\ sock = "open" /\ sock' = "open" /\ UNCHANGED <<accessLevel, allowed, pill>>
  BY DEF Serve, TypeOK, AccessInv, ClosedInv, viewVars
<1>2. c \in Requests /\ 1 \in DOMAIN toDaemon /\ c = toDaemon[1]
  BY <1>1, TailFacts
<1>3. \A i \in DOMAIN toDaemon' :
        /\ i \in Nat \ {0} /\ i + 1 \in DOMAIN toDaemon /\ toDaemon'[i] = toDaemon[i + 1]
        /\ \A j \in DOMAIN toDaemon' : j < i => j + 1 < i + 1
        /\ 1 < i + 1
  BY <1>1, TailFacts
\* What is left of the queue is as before if the level stays, and holds no
\* command of the kind if the request was a login.
<1>4. /\ c.type = "auth" => \A i \in DOMAIN toDaemon' : ~Alone(toDaemon'[i])
      /\ \A i \in DOMAIN toDaemon' : Alone(toDaemon'[i]) =>
           level >= 1 /\ \A j \in DOMAIN toDaemon' : j < i => toDaemon'[j].type # "auth"
  BY <1>2, <1>3 DEF AccessInv, PowerInv
<1>5. CASE c.type = "auth"
  <2> DEFINE m == [type |-> "auth_result", granted |-> Granted(c)]
  <2>1. level' = Granted(c) /\ Send(m) /\ UNCHANGED refused
    BY <1>5 DEF Serve
  <2>2. Granted(c) \in 0..2
    BY <1>2, <1>5 DEF Granted, Requests
  <2>3. m \in Messages /\ TellsLevel(m) /\ LevelIn(m) = Granted(c) /\ m.type # "init"
    BY <2>2 DEF Messages, TellsLevel, LevelIn
  <2>4. /\ Tells(wire', LevelIn(m))
        /\ \A i \in DOMAIN wire' : wire'[i].type = "init" => i = 1 /\ accessLevel = 0
    BY <1>1, <2>1, <2>3, SendAccess
  <2> QED
    BY <1>1, <1>4, <1>5, <2>1, <2>3, <2>4 DEF AccessInv, ClosedInv, LevelInv, InitFirst, PowerInv
<1>6. CASE c.type = "power"
  <2>1. UNCHANGED <<level, wire>> /\ refused' = IF level < 1 THEN c.asking ELSE refused
    BY <1>6 DEF Serve
  <2>2. level \in 0..2 /\ (c.asking = "nothing" => level >= 1)
    BY <1>2, <1>6 DEF TypeOK, AccessInv, PowerInv, Alone
  <2>3. refused' # "nothing"
    BY <2>1, <2>2 DEF AccessInv, PowerInv
  <2> QED
    BY <1>1, <1>4, <2>1, <2>3 DEF AccessInv, ClosedInv, LevelInv, InitFirst, PowerInv
<1>7. CASE c.type = "save"
  <2>1. UNCHANGED <<level, wire, refused>>
    BY <1>7 DEF Serve
  <2> QED
    BY <1>1, <1>4, <2>1 DEF AccessInv, ClosedInv, LevelInv, InitFirst, PowerInv
<1> QED
  BY <1>5, <1>6, <1>7 DEF Serve

LEMMA StepAccess == TypeOK /\ AccessInv /\ [Next]_vars => AccessInv'
<1> SUFFICES ASSUME TypeOK, AccessInv, [Next]_vars PROVE AccessInv'
  OBVIOUS
<1> USE DEF daemonVars, linkVars, bootVars, viewVars, historyVars
<1>1. CASE Connect
  BY <1>1 DEF Connect, AccessInv, ClosedInv, LevelInv, InitFirst, PowerInv
<1>2. CASE Open
  <2> DEFINE m == [type |-> "init", level |-> Opening, points |-> flushed]
  <2>1. /\ wire = <<>> /\ toDaemon = <<>> /\ accessLevel = 0
        /\ wire' = <<m>> \o Snapshots /\ level' = Opening
        /\ UNCHANGED <<toDaemon, accessLevel, allowed, refused>> /\ sock' = "open"
    BY <1>2 DEF Open, AccessInv, ClosedInv
  <2>2. m \in Messages /\ TellsLevel(m) /\ LevelIn(m) = Opening
    BY DEF TypeOK, Messages, TellsLevel, LevelIn, Opening
  <2>3. <<m>> \in Seq(Messages) /\ DOMAIN <<m>> = {1} /\ Len(<<m>>) = 1 /\ <<m>>[1] = m
    BY <2>2
  <2>4. Tells(<<m>>, Opening)
    BY <2>2, <2>3 DEF Tells
  <2>5. Tells(wire', level')
    BY <2>1, <2>3, <2>4, SnapshotsFacts, ConcatTells
  <2>6. \A i \in DOMAIN wire' : i = 1 \/ wire'[i].type \in Sources
    BY <2>1, <2>3, SnapshotsFacts, ConcatFacts
  <2>7. InitFirst'
    BY <2>1, <2>6 DEF InitFirst, Sources
  <2>8. DOMAIN toDaemon' = {}
    BY <2>1
  <2> QED
    BY <2>1, <2>5, <2>7, <2>8 DEF AccessInv, ClosedInv, LevelInv, PowerInv
<1>3. CASE Cut
  <2>1. /\ wire' = <<>> /\ toDaemon' = <<>> /\ sock' = "closed"
        /\ accessLevel' = 0 /\ pill' = FALSE /\ UNCHANGED refused
    BY <1>3 DEF Cut, PillAfterCut, LevelAfterCut
  <2>2. DOMAIN wire' = {} /\ DOMAIN toDaemon' = {}
    BY <2>1
  <2> QED
    BY <2>1, <2>2 DEF AccessInv, ClosedInv, LevelInv, InitFirst, PowerInv
<1>4. CASE HardwareChanges
  BY <1>4, QuietAccess DEF HardwareChanges
<1>5. CASE Broadcast
  <2>1. /\ sock = "open" /\ wire' = wire \o Snapshots /\ wire \in Seq(Messages)
        /\ UNCHANGED <<sock, toDaemon, level, accessLevel, allowed, pill, refused>>
    BY <1>5 DEF Broadcast, TypeOK
  <2>2. Tells(wire', level) \/ (Silent(wire') /\ accessLevel = level /\ allowed = level)
    BY <2>1, SnapshotsFacts, ConcatTells DEF AccessInv, LevelInv
  <2>3. \A i \in DOMAIN wire' :
          (i \in DOMAIN wire /\ wire'[i] = wire[i]) \/ wire'[i].type \in Sources
    BY <2>1, SnapshotsFacts, ConcatFacts
  <2>4. InitFirst'
    BY <2>1, <2>3 DEF AccessInv, InitFirst, Sources
  <2> QED
    BY <2>1, <2>2, <2>4 DEF AccessInv, ClosedInv, LevelInv, PowerInv
<1>6. CASE Flush
  BY <1>6, QuietAccess DEF Flush
<1>7. CASE BroadcastDelta
  <2> DEFINE m == [type |-> "agg", points |-> Delta]
  <2>1. m \in Messages
    BY <1>7, DeltaIsMessage DEF BroadcastDelta
  <2>2. m \in Messages /\ ~TellsLevel(m) /\ m.type # "init"
    BY <2>1 DEF TellsLevel
  <2>3. /\ Send(m)
        /\ UNCHANGED <<sock, toDaemon, level, accessLevel, allowed, pill, refused>>
    BY <1>7 DEF BroadcastDelta
  <2>4. /\ sock = "open" =>
             Tells(wire', level) \/ (Silent(wire') /\ accessLevel = level /\ allowed = level)
        /\ sock # "open" => wire' = wire
        /\ \A i \in DOMAIN wire' : wire'[i].type = "init" => i = 1 /\ accessLevel = 0
    BY <2>2, <2>3, SendAccess
  <2> QED
    BY <2>3, <2>4 DEF AccessInv, ClosedInv, LevelInv, InitFirst, PowerInv
<1>8. CASE Serve
  BY <1>8, ServeAccess
<1>9. CASE Handle
  BY <1>9, ReceiveStepAccess
<1>10. CASE Power
  <2> DEFINE c == [type |-> "power", asking |-> AuthUnderWay]
  <2>1. c \in Requests /\ Ask(c) /\ accessLevel >= 1
    BY <1>10 DEF Power, Requests, AuthUnderWay
  <2>2. ASSUME Alone(c), sock = "open"
        PROVE  level >= 1 /\ ~Holds(toDaemon, "auth")
    <3>1. ~Holds(toDaemon, "auth") /\ ~Holds(wire, "auth_result")
      BY <2>2 DEF Alone, AuthUnderWay
    <3>2. accessLevel # 0
      BY <2>1
    <3>3. Silent(wire)
      BY <3>1, <3>2 DEF Silent, TellsLevel, Holds, AccessInv, InitFirst
    <3>4. ~Tells(wire, level)
      BY <3>3 DEF Silent, Tells
    <3>5. accessLevel = level
      BY <2>2, <3>4 DEF AccessInv, LevelInv
    <3> QED
      BY <2>1, <3>1, <3>5
  <2> QED
    BY <2>1, <2>2, AskAccess
<1>11. CASE Save
  <2> DEFINE c == [type |-> "save"]
  <2>1. c \in Requests /\ Ask(c) /\ ~Alone(c)
    BY <1>11 DEF Save, Requests, Alone
  <2> QED
    BY <2>1, AskAccess
<1>12. CASE Mute
  BY <1>12, QuietAccess DEF Mute
<1>13. CASE Time
  BY <1>13, QuietAccess DEF Time
<1>14. ASSUME NEW l \in 0..2, NEW good \in BOOLEAN, Login(l, good)
       PROVE  AccessInv'
  <2> DEFINE c == [type |-> "auth", ask |-> l, good |-> good]
  <2>1. c \in Requests /\ Ask(c) /\ ~Alone(c)
    BY <1>14 DEF Login, Requests, Alone
  <2> QED
    BY <2>1, AskAccess
<1>15. CASE UNCHANGED vars
  BY <1>15, QuietAccess DEF vars
<1>16. CASE OtherSaves
  BY <1>16, QuietAccess DEF OtherSaves
<1>17. CASE Answer
  <2> DEFINE m == [type |-> "settings"]
  <2>1. UNCHANGED <<sock, toDaemon, level, accessLevel, allowed, pill, refused>>
    BY <1>17 DEF Answer
  <2>2. CASE requester = "page"
    <3>1. m \in Messages /\ ~TellsLevel(m) /\ m.type # "init"
      BY DEF Messages, TellsLevel
    <3>2. Send(m)
      BY <1>17, <2>2 DEF Answer
    <3>3. /\ sock = "open" =>
               Tells(wire', level) \/ (Silent(wire') /\ accessLevel = level /\ allowed = level)
          /\ sock # "open" => wire' = wire
          /\ \A i \in DOMAIN wire' : wire'[i].type = "init" => i = 1 /\ accessLevel = 0
      BY <3>1, <3>2, SendAccess
    <3> QED
      BY <2>1, <3>3 DEF AccessInv, ClosedInv, LevelInv, InitFirst, PowerInv
  <2>3. CASE requester # "page"
    BY <1>17, <2>3, QuietAccess DEF Answer
  <2> QED
    BY <2>2, <2>3
<1> QED
  BY <1>1, <1>2, <1>3, <1>4, <1>5, <1>6, <1>7, <1>8, <1>9, <1>10, <1>11, <1>12, <1>13,
     <1>14, <1>15, <1>16, <1>17 DEF Next

\* A page whose messages have all arrived shows the level the daemon checks its
\* commands against, and a power command the page let through is refused only
\* if a login was under way when it was sent: for any number of reconnections,
\* logins and broadcasts.
THEOREM AccessHolds == Spec => []AccessAgrees
<1>1. Init => TypeOK /\ AccessInv
  BY InitTypes, InitAccess
<1>2. TypeOK /\ AccessInv /\ [Next]_vars => (TypeOK /\ AccessInv)'
  BY StepTypes, StepAccess
<1>3. TypeOK /\ AccessInv => AccessAgrees
  <2> SUFFICES ASSUME AccessInv, sock = "open", wire = <<>>
               PROVE  accessLevel = level /\ allowed = level
    BY DEF AccessInv, PowerInv, AccessAgrees
  <2>1. DOMAIN wire = {}
    OBVIOUS
  <2>2. ~Tells(wire, level)
    BY <2>1 DEF Tells
  <2> QED
    BY <2>2 DEF AccessInv, LevelInv
<1> QED
  BY <1>1, <1>2, <1>3, PTL DEF Spec

-----------------------------------------------------------------------------
(* The Save button and the connection pill. *)

\* Whether a message of a kind is under way, after a step of the queue.
LEMMA TailHolds ==
    ASSUME NEW S, NEW q \in Seq(S), q # <<>>, NEW t, Holds(q, t), Head(q).type # t
    PROVE  Holds(Tail(q), t)
<1>1. PICK i \in DOMAIN q : q[i].type = t
  BY DEF Holds
<1>2. i # 1
  BY <1>1, TailFacts
<1>3. i - 1 \in DOMAIN Tail(q) /\ Tail(q)[i - 1] = q[i]
  BY <1>2, TailFacts
<1> QED
  BY <1>1, <1>3 DEF Holds

LEMMA AppendHolds ==
    ASSUME NEW S, NEW q \in Seq(S), NEW m \in S, NEW t
    PROVE  /\ Holds(q, t) => Holds(Append(q, m), t)
           /\ m.type = t => Holds(Append(q, m), t)
<1>1. /\ \A i \in DOMAIN q : i \in DOMAIN Append(q, m) /\ Append(q, m)[i] = q[i]
      /\ Len(q) + 1 \in DOMAIN Append(q, m) /\ Append(q, m)[Len(q) + 1] = m
  BY AppendFacts
<1> QED
  BY <1>1 DEF Holds

LEMMA ConcatHolds ==
    ASSUME NEW S, NEW q \in Seq(S), NEW r \in Seq(S), NEW t, Holds(q, t)
    PROVE  Holds(q \o r, t)
<1>1. \A i \in DOMAIN q : i \in DOMAIN (q \o r) /\ (q \o r)[i] = q[i]
  BY ConcatFacts
<1> QED
  BY <1>1 DEF Holds

\* An answer under way stays under way when something is sent.
LEMMA SendHolds ==
    ASSUME TypeOK, NEW m \in Messages, Send(m)
    PROVE  /\ Holds(wire, "settings") => Holds(wire', "settings")
           /\ m.type = "settings" /\ sock = "open" => Holds(wire', "settings")
<1>1. wire \in Seq(Messages) /\ (sock = "open" => wire' = Append(wire, m))
      /\ (sock # "open" => wire' = wire)
  BY DEF TypeOK, Send
<1>2. /\ Holds(wire, "settings") => Holds(Append(wire, m), "settings")
      /\ m.type = "settings" => Holds(Append(wire, m), "settings")
  BY <1>1, AppendHolds
<1> QED
  BY <1>1, <1>2

LEMMA ReceiveHolds ==
    ASSUME TypeOK, NEW t, Receive(t), t # "settings"
    PROVE  Holds(wire, "settings") => Holds(wire', "settings")
BY TailHolds DEF TypeOK, Receive

LEMMA AskHolds ==
    ASSUME TypeOK, NEW c \in Requests, Ask(c)
    PROVE  /\ Holds(toDaemon, "save") => Holds(toDaemon', "save")
           /\ c.type = "save" /\ sock = "open" => Holds(toDaemon', "save")
<1>1. toDaemon \in Seq(Requests) /\ (sock = "open" => toDaemon' = Append(toDaemon, c))
      /\ (sock # "open" => toDaemon' = toDaemon)
  BY DEF TypeOK, Ask
<1>2. /\ Holds(toDaemon, "save") => Holds(Append(toDaemon, c), "save")
      /\ c.type = "save" => Holds(Append(toDaemon, c), "save")
  BY <1>1, AppendHolds
<1> QED
  BY <1>1, <1>2

\* The slot holds this page's connection only while that one is open: the cut
\* that ends it leaves a handle that is no page's any more.
ControlsInv == ControlsTellTheLink /\ (requester = "page" => sock = "open")

LEMMA StepControls ==
    TypeOK /\ ClosedInv /\ ControlsInv /\ [Next]_vars => ControlsInv'
<1> SUFFICES ASSUME TypeOK, ClosedInv, ControlsInv, [Next]_vars
             PROVE  ControlsInv'
  OBVIOUS
<1> USE DEF daemonVars, linkVars, bootVars, viewVars, historyVars, ControlsTellTheLink,
            ControlsInv
<1>1. CASE Connect
  BY <1>1 DEF Connect, ClosedInv, Holds
<1>2. CASE Open
  <2>1. wire = <<>> /\ DOMAIN wire = {}
    BY <1>2 DEF Open, ClosedInv
  <2> QED
    BY <1>2, <2>1 DEF Open, Holds
<1>3. CASE Cut
  BY <1>3 DEF Cut, PillAfterCut
<1>4. CASE HardwareChanges
  BY <1>4 DEF HardwareChanges
<1>5. CASE Broadcast
  BY <1>5, SnapshotsFacts, ConcatHolds DEF Broadcast, TypeOK
<1>6. CASE Flush
  BY <1>6 DEF Flush
<1>7. CASE BroadcastDelta
  <2>1. [type |-> "agg", points |-> Delta] \in Messages
    BY <1>7, DeltaIsMessage DEF BroadcastDelta
  <2> QED
    BY <1>7, <2>1, SendHolds DEF BroadcastDelta
<1>8. CASE Serve
  <2> DEFINE c == Head(toDaemon)
  <2>1. /\ toDaemon # <<>> /\ toDaemon' = Tail(toDaemon) /\ toDaemon \in Seq(Requests)
        /\ UNCHANGED <<sock, pill, saveBtn, lostSave, overtaken>>
        /\ sock = "open" /\ c \in Requests
    BY <1>8, TailFacts DEF Serve, TypeOK, ClosedInv
  <2>2. c.type # "save" => (Holds(toDaemon, "save") => Holds(toDaemon', "save"))
    BY <2>1, TailHolds
  <2>3. CASE c.type = "auth"
    <3>1. [type |-> "auth_result", granted |-> Granted(c)] \in Messages
      BY <2>1, <2>3 DEF Granted, Requests, Messages
    <3> QED
      BY <1>8, <2>1, <2>2, <2>3, <3>1, SendHolds DEF Serve
  <2>4. CASE c.type = "power"
    BY <1>8, <2>1, <2>2, <2>4 DEF Serve
  <2>5. CASE c.type = "save"
    BY <1>8, <2>1, <2>5 DEF Serve
  <2> QED
    BY <1>8, <2>3, <2>4, <2>5 DEF Serve
<1>9. CASE Handle
  <2>1. CASE ReceiveInit
    BY <2>1, ReceiveHolds DEF ReceiveInit
  <2>2. CASE ReceiveDelta
    BY <2>2, ReceiveHolds DEF ReceiveDelta
  <2>3. CASE ReceiveAuthResult
    BY <2>3, ReceiveHolds DEF ReceiveAuthResult
  <2>4. CASE ReceiveSettings
    BY <2>4 DEF ReceiveSettings
  <2>5. ASSUME NEW src \in Sources, ReceiveSnapshot(src)
        PROVE  ControlsInv'
    <3>1. /\ Receive(src) /\ src # "settings" /\ sock = "open"
          /\ UNCHANGED <<sock, toDaemon, requester, saveBtn, lostSave, overtaken>>
      BY <2>5 DEF ReceiveSnapshot, Receive, Sources, ClosedInv
    <3> QED
      BY <3>1, ReceiveHolds
  <2> QED
    BY <1>9, <2>1, <2>2, <2>3, <2>4, <2>5 DEF Handle
<1>10. CASE Power
  <2>1. [type |-> "power", asking |-> AuthUnderWay] \in Requests
    BY DEF Requests, AuthUnderWay
  <2> QED
    BY <1>10, <2>1, AskHolds DEF Power, Ask
<1>11. CASE Save
  <2>1. [type |-> "save"] \in Requests
    BY DEF Requests
  <2> QED
    BY <1>11, <2>1, AskHolds DEF Save, Ask
<1>12. CASE Mute
  BY <1>12 DEF Mute
<1>13. CASE Time
  BY <1>13 DEF Time
<1>14. ASSUME NEW l \in 0..2, NEW good \in BOOLEAN, Login(l, good)
       PROVE  ControlsInv'
  <2>1. [type |-> "auth", ask |-> l, good |-> good] \in Requests
    BY DEF Requests
  <2> QED
    BY <1>14, <2>1, AskHolds DEF Login, Ask
<1>15. CASE UNCHANGED vars
  BY <1>15 DEF vars, Holds
<1>16. CASE OtherSaves
  BY <1>16 DEF OtherSaves
<1>17. CASE Answer
  <2>1. CASE requester = "page"
    <3>1. [type |-> "settings"] \in Messages
      BY DEF Messages
    <3>2. sock = "open" /\ Send([type |-> "settings"])
      BY <1>17, <2>1 DEF Answer, ControlsInv
    <3>3. Holds(wire', "settings")
      BY <3>1, <3>2, SendHolds
    <3> QED
      BY <1>17, <3>3 DEF Answer
  <2>2. CASE requester # "page"
    BY <1>17, <2>2 DEF Answer
  <2> QED
    BY <2>1, <2>2
<1> QED
  BY <1>1, <1>2, <1>3, <1>4, <1>5, <1>6, <1>7, <1>8, <1>9, <1>10, <1>11, <1>12, <1>13,
     <1>14, <1>15, <1>16, <1>17 DEF Next

\* "live" is shown only over an open connection, and a Save button that stays
\* disabled has an answer coming, or lost it with a connection or to another
\* page: for any number of requests, cuts and other pages that save.
THEOREM ControlsHold == Spec => []ControlsTellTheLink
<1>1. Init => TypeOK /\ AccessInv /\ ControlsInv
  <2>1. Init => ControlsInv
    BY DEF Init, ControlsTellTheLink, ControlsInv
  <2> QED
    BY <2>1, InitTypes, InitAccess
<1>2. TypeOK /\ AccessInv /\ ControlsInv /\ [Next]_vars =>
        (TypeOK /\ AccessInv /\ ControlsInv)'
  BY StepTypes, StepAccess, StepControls DEF AccessInv
<1>3. ControlsInv => ControlsTellTheLink
  BY DEF ControlsInv
<1> QED
  BY <1>1, <1>2, <1>3, PTL DEF Spec

-----------------------------------------------------------------------------
(* The alarm. *)

\* The alarm is muted until its sources are clear, whatever the page receives.
THEOREM StaysMuted == Spec => MutedUntilClear
<1>1. TypeOK /\ [Next]_vars => [active /\ muted /\ active' => muted' \/ ToggleMute]_vars
  <2> SUFFICES ASSUME TypeOK, Next, active, muted, active', ~ToggleMute
               PROVE  muted'
    OBVIOUS
  <2>1. CASE AlarmQuiet
    BY <2>1 DEF AlarmQuiet, alarmVars
  <2>2. CASE Time
    BY <2>2 DEF Time, Tick
  <2>3. ASSUME NEW f, Evaluate(f)
        PROVE  muted'
    <3>1. active' = (f # {}) /\ muted' = (muted /\ (f # {}) = active)
      BY <2>3 DEF Evaluate, Quieted
    <3>2. active \in BOOLEAN
      BY DEF TypeOK, AlarmTypeOK
    <3> QED
      BY <3>1, <3>2
  <2>4. CASE Handle
    BY <2>1, <2>3, <2>4 DEF Handle, ReceiveInit, ReceiveDelta, ReceiveAuthResult,
                            ReceiveSettings, ReceiveSnapshot
  <2>5. CASE Power \/ Save \/ \E l \in 0..2, good \in BOOLEAN : Login(l, good)
    BY <2>1, <2>5 DEF Power, Save, Login, Ask
  <2>6. CASE Mute
    BY <2>6 DEF Mute
  <2>7. CASE \/ Connect \/ Open \/ Cut \/ HardwareChanges \/ Broadcast \/ Flush
             \/ BroadcastDelta \/ Serve \/ OtherSaves \/ Answer
    BY <2>1, <2>7 DEF Connect, Open, Cut, HardwareChanges, Broadcast, Flush,
                      BroadcastDelta, Serve, OtherSaves, Answer
  <2> QED
    BY <2>2, <2>4, <2>5, <2>6, <2>7 DEF Next
<1> QED
  BY <1>1, TypeCorrect, PTL DEF Spec, MutedUntilClear
-----------------------------------------------------------------------------
(***************************************************************************)
(* The aggregation points.                                                 *)
(*                                                                         *)
(* Every point taken for broadcast is lost, under way or drawn, and one    *)
(* that is drawn and still to come (or drawn twice) is one the init        *)
(* message anticipated.  Before the first snapshot of the channels nothing *)
(* is drawn, and the points of the init message stand for what will be: no *)
(* delta can reach the page before that snapshot (BootOrder).              *)
(***************************************************************************)
Elems(s) == {s[x] : x \in DOMAIN s}
Distinct(s) == \A x, y \in DOMAIN s : s[x] = s[y] => x = y

\* The points under way in a queue; no point is under way twice.
Carried(q) == UNION {PointsOf(q[i]) : i \in DOMAIN q}
CarriedOnce(q) ==
  /\ \A i, j \in DOMAIN q : i # j => PointsOf(q[i]) \cap PointsOf(q[j]) = {}
  /\ \A i \in DOMAIN q : q[i].type = "agg" => Distinct(q[i].points)

\* Channels come before any aggregation point.
ChannelsFirst(q) ==
  \E i \in DOMAIN q : q[i].type = "ch" /\ \A j \in DOMAIN q : j < i => q[j].type # "agg"

\* The number of points in the init message, under way or received.
HistoryPoints ==
  IF wire # <<>> /\ Head(wire).type = "init" THEN Head(wire).points ELSE initData.points

Joined == "history" \in loaded
Has == IF Joined THEN Elems(series) ELSE 1..HistoryPoints

DeltasOnce == taken <= flushed /\ CarriedOnce(wire) /\ \A p \in Carried(wire) : p <= taken

BootOrder ==
  /\ booted /\ ~Joined => "ch" \in once
  /\ "ch" \in once => ~Joined
  /\ Joined \/ sock = "open" => booted
  /\ sock = "open" /\ ~Joined => ChannelsFirst(wire)

PointsKept ==
  sock = "open" \/ Joined =>
    /\ \A p \in 1..taken : p \in lost \/ p \in Carried(wire) \/ p \in Has
    /\ \A p \in Has : p > taken \/ p \in Carried(wire) => p \in early

DrawnTwice ==
  Joined => \A i, j \in DOMAIN series : i # j /\ series[i] = series[j] => series[i] \in early

SeriesInv == DeltasOnce /\ BootOrder /\ PointsKept /\ DrawnTwice

\* A queue without its head, ...
LEMMA TailCarried ==
    ASSUME NEW S, NEW q \in Seq(S), q # <<>>, CarriedOnce(q)
    PROVE  /\ Carried(q) = PointsOf(Head(q)) \union Carried(Tail(q))
           /\ CarriedOnce(Tail(q))
           /\ PointsOf(Head(q)) \cap Carried(Tail(q)) = {}
           /\ Head(q).type = "agg" => Distinct(Head(q).points)
           /\ ChannelsFirst(q) =>
                Head(q).type # "agg" /\ (Head(q).type # "ch" => ChannelsFirst(Tail(q)))
<1> DEFINE t == Tail(q)
<1>1. /\ Head(q) = q[1] /\ 1 \in DOMAIN q /\ DOMAIN q \subseteq Nat \ {0}
      /\ DOMAIN t \subseteq Nat \ {0}
      /\ \A i \in DOMAIN t : i + 1 \in DOMAIN q /\ t[i] = q[i + 1] /\ i + 1 # 1
      /\ \A i \in DOMAIN q : i # 1 => i - 1 \in DOMAIN t /\ t[i - 1] = q[i]
  BY TailFacts
<1> HIDE DEF t
<1>2. Carried(q) = PointsOf(Head(q)) \union Carried(t)
  <2>1. \A p : p \in Carried(q) <=> \E i \in DOMAIN q : p \in PointsOf(q[i])
    BY DEF Carried
  <2>2. \A p : p \in Carried(t) <=> \E i \in DOMAIN t : p \in PointsOf(t[i])
    BY DEF Carried
  <2>3. ASSUME NEW p, p \in Carried(q) PROVE p \in PointsOf(Head(q)) \/ p \in Carried(t)
    BY <1>1, <2>1, <2>2, <2>3
  <2>4. ASSUME NEW p, p \in PointsOf(Head(q)) \/ p \in Carried(t) PROVE p \in Carried(q)
    BY <1>1, <2>1, <2>2, <2>4
  <2> QED
    BY <2>3, <2>4
<1>3. \A i, j \in DOMAIN t : i # j => i + 1 # j + 1
  BY <1>1
<1>4. CarriedOnce(t)
  BY <1>1, <1>3 DEF CarriedOnce
<1>5. PointsOf(Head(q)) \cap Carried(t) = {}
  BY <1>1 DEF CarriedOnce, Carried
<1>6. Head(q).type = "agg" => Distinct(Head(q).points)
  BY <1>1 DEF CarriedOnce
<1>7. ASSUME ChannelsFirst(q)
      PROVE  Head(q).type # "agg" /\ (Head(q).type # "ch" => ChannelsFirst(t))
  <2>1. PICK i \in DOMAIN q : q[i].type = "ch" /\ \A j \in DOMAIN q : j < i => q[j].type # "agg"
    BY <1>7 DEF ChannelsFirst
  <2>2. Head(q).type # "agg"
    BY <1>1, <2>1
  <2>3. ASSUME Head(q).type # "ch" PROVE ChannelsFirst(t)
    <3>1. i # 1 /\ i - 1 \in DOMAIN t /\ t[i - 1] = q[i]
      BY <1>1, <2>1, <2>3
    <3>2. ASSUME NEW j \in DOMAIN t, j < i - 1
          PROVE  j + 1 \in DOMAIN q /\ j + 1 < i /\ t[j] = q[j + 1]
      <4>1. i \in Nat /\ j \in Nat
        BY <1>1
      <4> QED
        BY <1>1, <3>2, <4>1
    <3> QED
      BY <2>1, <3>1, <3>2 DEF ChannelsFirst
  <2> QED
    BY <2>2, <2>3
<1> QED
  BY <1>2, <1>4, <1>5, <1>6, <1>7 DEF t

\* ... with one more message ...
LEMMA AppendCarried ==
    ASSUME NEW S, NEW q \in Seq(S), NEW m \in S, CarriedOnce(q),
           PointsOf(m) \cap Carried(q) = {}, m.type = "agg" => Distinct(m.points)
    PROVE  /\ Carried(Append(q, m)) = Carried(q) \union PointsOf(m)
           /\ CarriedOnce(Append(q, m))
           /\ ChannelsFirst(q) => ChannelsFirst(Append(q, m))
<1> DEFINE a == Append(q, m)
<1>1. PICK n \in Nat : n = Len(q)
  OBVIOUS
<1>2. /\ n + 1 \in DOMAIN a /\ a[n + 1] = m /\ n + 1 \notin DOMAIN q /\ DOMAIN q = 1..n
      /\ \A i \in DOMAIN a : i = n + 1 \/ (i \in DOMAIN q /\ a[i] = q[i])
      /\ \A i \in DOMAIN q : i \in DOMAIN a /\ a[i] = q[i]
  BY <1>1, AppendFacts
<1> HIDE DEF a
<1>3. Carried(a) = Carried(q) \union PointsOf(m)
  <2>1. \A p : p \in Carried(q) <=> \E i \in DOMAIN q : p \in PointsOf(q[i])
    BY DEF Carried
  <2>2. \A p : p \in Carried(a) <=> \E i \in DOMAIN a : p \in PointsOf(a[i])
    BY DEF Carried
  <2>3. \A p : p \in Carried(a) <=> p \in Carried(q) \/ p \in PointsOf(m)
    BY <1>2, <2>1, <2>2
  <2> QED
    BY <2>3
<1>4. \A i \in DOMAIN q : PointsOf(q[i]) \cap PointsOf(m) = {}
  BY DEF Carried
<1>5. ASSUME NEW i \in DOMAIN a, NEW j \in DOMAIN a, i # j
      PROVE  PointsOf(a[i]) \cap PointsOf(a[j]) = {}
  <2>1. CASE i \in DOMAIN q /\ j \in DOMAIN q
    BY <1>2, <1>5, <2>1 DEF CarriedOnce
  <2>2. CASE i = n + 1 /\ j \in DOMAIN q
    BY <1>2, <1>4, <2>2
  <2>3. CASE j = n + 1 /\ i \in DOMAIN q
    BY <1>2, <1>4, <2>3
  <2> QED
    BY <1>2, <1>5, <2>1, <2>2, <2>3
<1>6. \A i \in DOMAIN a : a[i].type = "agg" => Distinct(a[i].points)
  BY <1>2 DEF CarriedOnce
<1>7. ASSUME ChannelsFirst(q) PROVE ChannelsFirst(a)
  <2>1. PICK i \in DOMAIN q : q[i].type = "ch" /\ \A j \in DOMAIN q : j < i => q[j].type # "agg"
    BY <1>7 DEF ChannelsFirst
  <2>2. \A j \in DOMAIN a : j < i => j \in DOMAIN q /\ a[j] = q[j]
    BY <1>2
  <2> QED
    BY <1>2, <2>1, <2>2 DEF ChannelsFirst
<1> QED
  BY <1>3, <1>5, <1>6, <1>7 DEF CarriedOnce, a

\* ... and with messages that carry no points.
LEMMA ConcatCarried ==
    ASSUME NEW S, NEW q \in Seq(S), NEW r \in Seq(S), CarriedOnce(q),
           \A i \in DOMAIN r : r[i].type # "agg"
    PROVE  /\ Carried(q \o r) = Carried(q)
           /\ CarriedOnce(q \o r)
           /\ ChannelsFirst(q) => ChannelsFirst(q \o r)
<1> DEFINE a == q \o r
<1>1. /\ \A i \in DOMAIN a : (i \in DOMAIN q /\ a[i] = q[i]) \/ a[i].type # "agg"
      /\ \A i \in DOMAIN q : i \in DOMAIN a /\ a[i] = q[i]
      /\ \A i \in DOMAIN q : \A j \in DOMAIN a : j < i => j \in DOMAIN q /\ a[j] = q[j]
  BY ConcatFacts
<1> HIDE DEF a
<1>2. \A i \in DOMAIN a : (i \in DOMAIN q /\ a[i] = q[i]) \/ PointsOf(a[i]) = {}
  BY <1>1 DEF PointsOf
<1>3. Carried(a) = Carried(q)
  <2>1. \A p : p \in Carried(q) <=> \E i \in DOMAIN q : p \in PointsOf(q[i])
    BY DEF Carried
  <2>2. \A p : p \in Carried(a) <=> \E i \in DOMAIN a : p \in PointsOf(a[i])
    BY DEF Carried
  <2>3. \A p : p \in Carried(a) <=> p \in Carried(q)
    BY <1>1, <1>2, <2>1, <2>2
  <2> QED
    BY <2>3
<1>4. CarriedOnce(a)
  BY <1>1, <1>2 DEF CarriedOnce
<1>5. ChannelsFirst(q) => ChannelsFirst(a)
  BY <1>1 DEF ChannelsFirst
<1> QED
  BY <1>3, <1>4, <1>5 DEF a

\* A step that neither takes, draws nor loses a point.
LEMMA PointsStay ==
    ASSUME TypeOK, SeriesInv, flushed' \in Nat, flushed' >= flushed,
           UNCHANGED <<sock, taken, booted, series, lost, early>>,
           Carried(wire') = Carried(wire), CarriedOnce(wire'),
           Joined' <=> Joined, "ch" \in once' <=> "ch" \in once,
           HistoryPoints' = HistoryPoints,
           sock = "open" /\ ~Joined => ChannelsFirst(wire')
    PROVE  SeriesInv'
<1>1. DeltasOnce'
  <2>1. taken \in Nat /\ flushed \in Nat
    BY DEF TypeOK
  <2> QED
    BY <2>1 DEF SeriesInv, DeltasOnce
<1>2. BootOrder'
  BY DEF SeriesInv, BootOrder
<1>3. Has' = Has
  BY DEF Has
<1>4. PointsKept'
  BY <1>3 DEF SeriesInv, PointsKept
<1>5. DrawnTwice'
  BY DEF SeriesInv, DrawnTwice
<1> QED
  BY <1>1, <1>2, <1>4, <1>5 DEF SeriesInv

\* Nothing happens to the page or what is under way to it.
LEMMA QuietSeries ==
    ASSUME TypeOK, SeriesInv, flushed' \in Nat, flushed' >= flushed,
           UNCHANGED <<sock, taken, booted, series, lost, early, wire, once, loaded, initData>>
    PROVE  SeriesInv'
<1>1. Carried(wire') = Carried(wire) /\ CarriedOnce(wire')
  BY DEF SeriesInv, DeltasOnce
<1>2. /\ Joined' <=> Joined
      /\ "ch" \in once' <=> "ch" \in once
      /\ HistoryPoints' = HistoryPoints
  BY DEF Joined, HistoryPoints
<1>3. sock = "open" /\ ~Joined => ChannelsFirst(wire')
  BY DEF SeriesInv, BootOrder
<1> QED
  BY <1>1, <1>2, <1>3, PointsStay

\* The daemon sends something without points.
LEMMA SendSeries ==
    ASSUME TypeOK, SeriesInv, NEW m \in Messages, m.type \notin {"agg", "init"}, Send(m),
           UNCHANGED <<sock, taken, flushed, booted, series, lost, early, once, loaded, initData>>
    PROVE  SeriesInv'
<1>1. wire \in Seq(Messages) /\ flushed \in Nat
  BY DEF TypeOK
<1>2. CASE sock = "open"
  <2>1. wire' = Append(wire, m)
    BY <1>2 DEF Send
  <2>2. PointsOf(m) = {} /\ CarriedOnce(wire)
    BY DEF PointsOf, SeriesInv, DeltasOnce
  <2>10. PointsOf(m) \cap Carried(wire) = {} /\ Carried(wire) \union PointsOf(m) = Carried(wire)
    BY <2>2
  <2>3. /\ Carried(wire') = Carried(wire) /\ CarriedOnce(wire')
        /\ ChannelsFirst(wire) => ChannelsFirst(wire')
    <3>1. /\ Carried(Append(wire, m)) = Carried(wire) \union PointsOf(m)
          /\ CarriedOnce(Append(wire, m))
          /\ ChannelsFirst(wire) => ChannelsFirst(Append(wire, m))
      BY <1>1, <2>2, <2>10, AppendCarried
    <3> QED
      BY <2>1, <2>10, <3>1
  <2>4. Head(wire') = IF wire = <<>> THEN m ELSE Head(wire)
    BY <1>1, <2>1
  <2>5. wire' # <<>>
    BY <1>1, <2>1
  <2>6. HistoryPoints' = HistoryPoints
    BY <2>4, <2>5 DEF HistoryPoints
  <2> QED
    BY <1>1, <1>2, <2>3, <2>6, PointsStay DEF Joined, SeriesInv, BootOrder
<1>3. CASE sock # "open"
  <2>1. wire' = wire
    BY <1>3 DEF Send
  <2> QED
    BY <1>1, <2>1, QuietSeries
<1> QED
  BY <1>2, <1>3

\* The page receives something without points that does not end its boot.
LEMMA ReceiveSeries ==
    ASSUME TypeOK, AccessInv, SeriesInv, NEW t, Receive(t), t # "agg",
           t # "ch" \/ "ch" \notin once, "ch" \in once' <=> "ch" \in once, Joined' <=> Joined,
           initData'.points = (IF t = "init" THEN Head(wire).points ELSE initData.points),
           UNCHANGED <<sock, taken, flushed, booted, series, lost, early>>
    PROVE  SeriesInv'
<1>1. /\ wire \in Seq(Messages) /\ wire # <<>> /\ wire' = Tail(wire) /\ Head(wire).type = t
      /\ flushed \in Nat
  BY DEF TypeOK, Receive
<1>2. CarriedOnce(wire) /\ PointsOf(Head(wire)) = {}
  BY <1>1 DEF SeriesInv, DeltasOnce, PointsOf
<1>3. /\ Carried(wire') = Carried(wire) /\ CarriedOnce(wire')
      /\ ChannelsFirst(wire) /\ t # "ch" => ChannelsFirst(wire')
  <2>1. /\ Carried(wire) = PointsOf(Head(wire)) \union Carried(Tail(wire))
        /\ CarriedOnce(Tail(wire))
        /\ ChannelsFirst(wire) /\ t # "ch" => ChannelsFirst(Tail(wire))
    BY <1>1, <1>2, TailCarried
  <2>2. Carried(wire) = Carried(Tail(wire))
    BY <1>2, <2>1
  <2> QED
    BY <1>1, <2>1, <2>2
<1>4. ASSUME sock = "open", ~Joined PROVE ChannelsFirst(wire')
  <2>1. booted
    BY <1>4 DEF SeriesInv, BootOrder
  <2>2. ChannelsFirst(wire) /\ "ch" \in once
    BY <1>4, <2>1 DEF SeriesInv, BootOrder
  <2> QED
    BY <1>3, <2>2
<1>5. wire' # <<>> => Head(wire').type # "init"
  <2>1. SUFFICES ASSUME wire' # <<>> PROVE Head(wire').type # "init"
    OBVIOUS
  <2>2. 1 \in DOMAIN wire' /\ Head(wire') = wire'[1]
    BY <1>1, <2>1, TailFacts
  <2>3. 1 + 1 \in DOMAIN wire /\ wire'[1] = wire[1 + 1]
    BY <1>1, <2>2, TailFacts
  <2> QED
    BY <2>2, <2>3 DEF AccessInv, InitFirst
<1>6. HistoryPoints' = HistoryPoints
  BY <1>1, <1>5 DEF HistoryPoints
<1> QED
  BY <1>1, <1>3, <1>4, <1>6, PointsStay

LEMMA CarriedNat ==
    ASSUME TypeOK
    PROVE  Carried(wire) \subseteq Nat
<1>1. ASSUME NEW i \in DOMAIN wire
      PROVE  PointsOf(wire[i]) \subseteq Nat
  <2>1. wire[i] \in Messages
    BY DEF TypeOK
  <2>2. wire[i].type = "agg" => wire[i].points \in Seq(Nat)
    BY <2>1 DEF Messages, Sources
  <2> QED
    BY <2>2 DEF PointsOf, ToSet
<1> QED
  BY <1>1 DEF Carried

\* The delta taken for broadcast: every point since the last one, once.
LEMMA DeltaFacts ==
    ASSUME TypeOK, taken < flushed
    PROVE  LET m == [type |-> "agg", points |-> Delta]
           IN  Distinct(m.points) /\ PointsOf(m) = taken + 1 .. flushed
<1>1. taken \in Nat /\ flushed \in Nat
  BY DEF TypeOK
<1>2. DOMAIN Delta = 1 .. flushed - taken /\ \A i \in 1 .. flushed - taken : Delta[i] = taken + i
  BY DEF Delta
<1>3. Distinct(Delta)
  BY <1>1, <1>2 DEF Distinct
<1>4. \A p \in taken + 1 .. flushed : p - taken \in 1 .. flushed - taken /\ Delta[p - taken] = p
  BY <1>1, <1>2
<1>5. \A i \in 1 .. flushed - taken : taken + i \in taken + 1 .. flushed
  BY <1>1
<1>6. ToSet(Delta) = taken + 1 .. flushed
  BY <1>2, <1>4, <1>5 DEF ToSet
<1> QED
  BY <1>3, <1>6 DEF PointsOf

LEMMA BroadcastDeltaSeries ==
    ASSUME TypeOK, AccessInv, SeriesInv, BroadcastDelta
    PROVE  SeriesInv'
<1> DEFINE m == [type |-> "agg", points |-> Delta]
<1>1. /\ taken \in Nat /\ flushed \in Nat /\ taken < flushed /\ wire \in Seq(Messages)
      /\ taken' = flushed /\ m \in Messages /\ Send(m)
      /\ UNCHANGED <<flushed, sock, booted, once, loaded, series, initData, early>>
  BY DeltaIsMessage DEF BroadcastDelta, TypeOK, bootVars
<1>2. m.type = "agg" /\ Distinct(m.points) /\ PointsOf(m) = taken + 1 .. flushed
  BY <1>1, DeltaFacts
<1> HIDE DEF m
<1>3. /\ CarriedOnce(wire) /\ \A p \in Carried(wire) : p \in Nat /\ p <= taken
      /\ \A p \in Carried(wire) : p <= flushed
  <2>1. CarriedOnce(wire) /\ \A p \in Carried(wire) : p \in Nat /\ p <= taken
    BY CarriedNat DEF SeriesInv, DeltasOnce
  <2> QED
    BY <1>1, <2>1
<1>4. PointsOf(m) \cap Carried(wire) = {}
  BY <1>1, <1>2, <1>3
<1>7. \A p \in taken + 1 .. flushed : p <= flushed
  BY <1>1
<1>5. CASE sock = "open"
  <2>1. wire' = Append(wire, m) /\ lost' = lost
    BY <1>1, <1>5 DEF Send, BroadcastDelta
  <2>2. /\ Carried(wire') = Carried(wire) \union (taken + 1 .. flushed) /\ CarriedOnce(wire')
        /\ ChannelsFirst(wire) => ChannelsFirst(wire')
    BY <1>1, <1>2, <1>3, <1>4, <2>1, AppendCarried
  <2>3. DeltasOnce'
    BY <1>1, <1>3, <1>7, <2>2 DEF DeltasOnce
  <2>4. BootOrder'
    BY <1>1, <2>2 DEF SeriesInv, BootOrder, Joined
  <2>5. ~Joined => wire # <<>>
    <3>1. ~Joined => ChannelsFirst(wire)
      BY <1>5 DEF SeriesInv, BootOrder
    <3> QED
      BY <3>1 DEF ChannelsFirst
  <2>6. ~Joined => wire' # <<>> /\ Head(wire') = Head(wire)
    BY <1>1, <2>1, <2>5
  <2>7. Has' = Has
    BY <1>1, <2>5, <2>6 DEF Has, Joined, HistoryPoints
  <2>8. ASSUME NEW p \in 1 .. flushed
        PROVE  p \in lost \/ p \in Carried(wire') \/ p \in Has
    <3>1. p \in 1 .. taken \/ p \in taken + 1 .. flushed
      BY <1>1
    <3> QED
      BY <1>5, <2>2, <3>1 DEF SeriesInv, PointsKept
  <2>9. ASSUME NEW p \in Has, p > flushed \/ p \in Carried(wire')
        PROVE  p \in early
    <3>1. p \in Nat
      BY <1>1 DEF Has, Elems, HistoryPoints, TypeOK
    <3>2. p > taken \/ p \in Carried(wire)
      BY <1>1, <2>2, <2>9, <3>1
    <3> QED
      BY <1>5, <3>2 DEF SeriesInv, PointsKept
  <2>10. PointsKept'
    BY <1>1, <2>1, <2>7, <2>8, <2>9 DEF PointsKept
  <2>11. DrawnTwice'
    BY <1>1 DEF SeriesInv, DrawnTwice, Joined
  <2> QED
    BY <2>3, <2>4, <2>10, <2>11 DEF SeriesInv
<1>6. CASE sock # "open"
  <2>1. wire' = wire /\ lost' = lost \union (taken + 1 .. flushed)
    BY <1>1, <1>6 DEF Send, BroadcastDelta
  <2>2. DeltasOnce'
    BY <1>1, <1>3, <2>1 DEF DeltasOnce
  <2>3. BootOrder'
    BY <1>1, <2>1 DEF SeriesInv, BootOrder, Joined
  <2>4. ASSUME Joined
        PROVE  /\ \A p \in 1 .. flushed : p \in lost' \/ p \in Carried(wire) \/ p \in Elems(series)
               /\ \A p \in Elems(series) : p > flushed \/ p \in Carried(wire) => p \in early
    <3>1. Has = Elems(series)
      BY <2>4 DEF Has
    <3>2. \A p \in 1 .. flushed : p \in 1 .. taken \/ p \in taken + 1 .. flushed
      BY <1>1
    <3>3. \A p \in Elems(series) : p \in Nat
      BY DEF Elems, TypeOK
    <3>4. \A p \in Elems(series) : p > flushed => p > taken
      BY <1>1, <3>3
    <3> QED
      BY <2>1, <2>4, <3>1, <3>2, <3>4 DEF SeriesInv, PointsKept
  <2>5. Has' = IF Joined THEN Elems(series) ELSE Has'
    BY <1>1 DEF Has, Joined
  <2>6. PointsKept'
    BY <1>1, <1>6, <2>1, <2>4, <2>5 DEF PointsKept, Joined
  <2>7. DrawnTwice'
    BY <1>1 DEF SeriesInv, DrawnTwice, Joined
  <2> QED
    BY <2>2, <2>3, <2>6, <2>7 DEF SeriesInv
<1> QED
  BY <1>5, <1>6

\* A delta is drawn after the points already there.
LEMMA DrawnConcat ==
    ASSUME NEW s \in Seq(Nat), NEW t \in Seq(Nat), Distinct(t), NEW E,
           \A i, j \in DOMAIN s : i # j /\ s[i] = s[j] => s[i] \in E,
           \A p \in Elems(s) : p \in Elems(t) => p \in E
    PROVE  /\ Elems(s \o t) = Elems(s) \union Elems(t)
           /\ \A i, j \in DOMAIN (s \o t) : i # j /\ (s \o t)[i] = (s \o t)[j] => (s \o t)[i] \in E
<1> DEFINE a == s \o t
<1>1. PICK n \in Nat : n = Len(s)
  OBVIOUS
<1>2. /\ DOMAIN s = 1..n /\ DOMAIN t \subseteq Int /\ DOMAIN a \subseteq Int
      /\ \A i \in DOMAIN s : i \in DOMAIN a /\ a[i] = s[i]
      /\ \A i \in DOMAIN a : i \notin DOMAIN s => i - n \in DOMAIN t /\ a[i] = t[i - n]
      /\ \A i \in DOMAIN t : i + n \in DOMAIN a /\ a[i + n] = t[i]
  BY <1>1, ConcatFacts
<1> HIDE DEF a
<1>3. Elems(a) = Elems(s) \union Elems(t)
  <2>1. \A p \in Elems(a) : p \in Elems(s) \/ p \in Elems(t)
    BY <1>2 DEF Elems
  <2>2. \A p : p \in Elems(s) \/ p \in Elems(t) => p \in Elems(a)
    BY <1>2 DEF Elems
  <2> QED
    BY <2>1, <2>2
<1>4. ASSUME NEW i \in DOMAIN a, NEW j \in DOMAIN a, i # j, a[i] = a[j]
      PROVE  a[i] \in E
  <2>1. CASE i \in DOMAIN s /\ j \in DOMAIN s
    BY <1>2, <1>4, <2>1
  <2>2. CASE i \notin DOMAIN s /\ j \notin DOMAIN s
    <3>1. i - n \in DOMAIN t /\ j - n \in DOMAIN t /\ t[i - n] = t[j - n] /\ i \in Int /\ j \in Int
      BY <1>2, <1>4, <2>2
    <3>2. i - n = j - n
      BY <3>1 DEF Distinct
    <3> QED
      BY <1>4, <3>1, <3>2
  <2>3. CASE i \in DOMAIN s /\ j \notin DOMAIN s
    <3>1. a[i] \in Elems(s) /\ a[j] \in Elems(t)
      BY <1>2, <2>3 DEF Elems
    <3> QED
      BY <1>4, <3>1
  <2>4. CASE i \notin DOMAIN s /\ j \in DOMAIN s
    <3>1. a[j] \in Elems(s) /\ a[i] \in Elems(t)
      BY <1>2, <2>4 DEF Elems
    <3> QED
      BY <1>4, <3>1
  <2> QED
    BY <2>1, <2>2, <2>3, <2>4
<1> QED
  BY <1>3, <1>4 DEF a

LEMMA ReceiveDeltaSeries ==
    ASSUME TypeOK, AccessInv, SeriesInv, ReceiveDelta
    PROVE  SeriesInv'
<1>1. /\ wire \in Seq(Messages) /\ wire # <<>> /\ wire' = Tail(wire)
      /\ Head(wire) \in Messages /\ Head(wire).type = "agg" /\ sock = "open"
      /\ taken \in Nat /\ flushed \in Nat
      /\ series' = series \o Head(wire).points
      /\ UNCHANGED <<taken, flushed, sock, booted, once, loaded, initData, lost, early>>
  BY ReceiveTypes DEF ReceiveDelta, TypeOK, AccessInv, ClosedInv, daemonVars, historyVars
<1>2. CarriedOnce(wire) /\ \A p \in Carried(wire) : p <= taken
  BY DEF SeriesInv, DeltasOnce
<1>3. /\ Carried(wire) = PointsOf(Head(wire)) \union Carried(Tail(wire))
      /\ CarriedOnce(Tail(wire))
      /\ PointsOf(Head(wire)) \cap Carried(Tail(wire)) = {}
      /\ Distinct(Head(wire).points)
      /\ ~ChannelsFirst(wire)
  BY <1>1, <1>2, TailCarried
<1>4. Joined
  BY <1>1, <1>3 DEF SeriesInv, BootOrder
<1>5. Head(wire).points \in Seq(Nat) /\ series \in Seq(Nat)
  BY <1>1 DEF Messages, Sources, TypeOK
<1>6. PointsOf(Head(wire)) = Elems(Head(wire).points) /\ Has = Elems(series)
  BY <1>1, <1>4 DEF PointsOf, ToSet, Elems, Has
<1>7. \A p \in Elems(series) : p \in Elems(Head(wire).points) => p \in early
  BY <1>1, <1>3, <1>6 DEF SeriesInv, PointsKept
<1>8. \A i, j \in DOMAIN series : i # j /\ series[i] = series[j] => series[i] \in early
  BY <1>4 DEF SeriesInv, DrawnTwice
<1>9. /\ Elems(series') = Elems(series) \union PointsOf(Head(wire))
      /\ \A i, j \in DOMAIN series' : i # j /\ series'[i] = series'[j] => series'[i] \in early
  BY <1>1, <1>3, <1>5, <1>6, <1>7, <1>8, DrawnConcat
<1>10. DeltasOnce'
  BY <1>1, <1>2, <1>3 DEF SeriesInv, DeltasOnce
<1>11. BootOrder'
  BY <1>1, <1>4 DEF SeriesInv, BootOrder, Joined
<1>12. Joined' /\ Has' = Elems(series')
  BY <1>1, <1>4 DEF Joined, Has
<1>13. \A p \in 1..taken : p \in lost \/ p \in Carried(wire') \/ p \in Has'
  BY <1>1, <1>3, <1>6, <1>9, <1>12 DEF SeriesInv, PointsKept
<1>14. ASSUME NEW p \in Has', p > taken \/ p \in Carried(wire') PROVE p \in early
  <2>1. CASE p \in Elems(series)
    BY <1>1, <1>3, <1>6, <1>14, <2>1 DEF SeriesInv, PointsKept
  <2>2. CASE p \in PointsOf(Head(wire))
    <3>1. p \in Nat /\ p <= taken
      BY <1>2, <1>3, <2>2, CarriedNat
    <3> QED
      BY <1>1, <1>3, <1>14, <2>2, <3>1
  <2> QED
    BY <1>9, <1>12, <2>1, <2>2
<1>15. PointsKept'
  BY <1>1, <1>13, <1>14 DEF PointsKept
<1>16. DrawnTwice'
  BY <1>1, <1>9 DEF DrawnTwice
<1> QED
  BY <1>10, <1>11, <1>15, <1>16 DEF SeriesInv

LEMMA FirstChannelsSeries ==
    ASSUME TypeOK, AccessInv, SeriesInv, ReceiveSnapshot("ch"), "ch" \in once
    PROVE  SeriesInv'
<1>1. /\ wire \in Seq(Messages) /\ wire # <<>> /\ wire' = Tail(wire)
      /\ Head(wire).type = "ch" /\ sock = "open" /\ taken \in Nat /\ flushed \in Nat
      /\ loaded' = loaded \union {"geometry", "history", "config"}
      /\ once' = (once \ {"ch"}) \union {"bd"}
      /\ series' = Seed /\ initData.points \in Nat
      /\ UNCHANGED <<taken, flushed, sock, booted, initData, lost, early>>
  BY ReceiveTypes DEF ReceiveSnapshot, FirstChannels, TypeOK, AccessInv, ClosedInv,
                      daemonVars, historyVars
<1>2. PointsOf(Head(wire)) = {} /\ CarriedOnce(wire)
  BY <1>1 DEF PointsOf, SeriesInv, DeltasOnce
<1>3. Carried(wire') = Carried(wire) /\ CarriedOnce(wire')
  <2>1. Carried(wire) = PointsOf(Head(wire)) \union Carried(Tail(wire)) /\ CarriedOnce(Tail(wire))
    BY <1>1, <1>2, TailCarried
  <2> QED
    BY <1>1, <1>2, <2>1
<1>4. ~Joined /\ Joined' /\ booted
  BY <1>1 DEF SeriesInv, BootOrder, Joined
<1>5. HistoryPoints = initData.points
  BY <1>1 DEF HistoryPoints
<1>6. DOMAIN series' = 1..initData.points /\ \A i \in DOMAIN series' : series'[i] = i
  BY <1>1 DEF Seed
<1>7. Has = 1..initData.points /\ Has' = Elems(series')
  BY <1>4, <1>5 DEF Has
<1>8. Has' = Has
  BY <1>6, <1>7 DEF Elems
<1>9. DeltasOnce'
  BY <1>1, <1>3 DEF SeriesInv, DeltasOnce
<1>10. BootOrder'
  BY <1>1, <1>4 DEF BootOrder
<1>11. PointsKept'
  BY <1>1, <1>3, <1>8 DEF SeriesInv, PointsKept
<1>12. DrawnTwice'
  BY <1>6 DEF DrawnTwice
<1> QED
  BY <1>9, <1>10, <1>11, <1>12 DEF SeriesInv

LEMMA OpenSeries ==
    ASSUME TypeOK, AccessInv, SeriesInv, Open
    PROVE  SeriesInv'
<1> DEFINE m == [type |-> "init", level |-> Opening, points |-> flushed]
<1>1. /\ wire = <<>> /\ wire' = <<m>> \o Snapshots /\ sock' = "open" /\ booted' = TRUE
      /\ once' = Waiting /\ early' = IF Joined THEN early ELSE taken + 1 .. flushed
      /\ taken \in Nat /\ flushed \in Nat
      /\ UNCHANGED <<taken, flushed, initData, loaded, series, lost>>
  BY DEF Open, AccessInv, ClosedInv, TypeOK, Joined
<1>2. m \in Messages /\ m.type = "init" /\ m.points = flushed
  BY DEF TypeOK, Messages, Opening
<1>3. <<m>> \in Seq(Messages) /\ DOMAIN <<m>> = {1} /\ Len(<<m>>) = 1 /\ <<m>>[1] = m
  BY <1>2
<1>4. /\ Snapshots \in Seq(Messages) /\ DOMAIN Snapshots = 1..3 /\ Snapshots[1].type = "ch"
      /\ \A i \in DOMAIN Snapshots : Snapshots[i].type # "agg"
  <2>1. Snapshots \in Seq(Messages) /\ \A i \in DOMAIN Snapshots : Snapshots[i].type \in Sources
    BY SnapshotsFacts
  <2>2. DOMAIN Snapshots = 1..3 /\ Snapshots[1].type = "ch"
    BY DEF Snapshots, Snapshot
  <2> QED
    BY <2>1, <2>2 DEF Sources
<1>5. /\ wire' \in Seq(Messages) /\ DOMAIN wire' = 1..4
      /\ wire'[1] = m /\ wire'[2] = Snapshots[1]
      /\ \A i \in DOMAIN wire' : wire'[i].type # "agg"
  <2>1. /\ wire' \in Seq(Messages) /\ Len(Snapshots) = 3 /\ DOMAIN wire' = 1..(1 + 3)
        /\ \A i \in DOMAIN <<m>> : wire'[i] = <<m>>[i]
        /\ \A i \in DOMAIN wire' : i \notin DOMAIN <<m>> =>
             i - 1 \in DOMAIN Snapshots /\ wire'[i] = Snapshots[i - 1]
    <3>1. Len(Snapshots) = 3
      BY <1>4
    <3>2. PICK one \in Seq(Messages) : one = <<m>>
      BY <1>3
    <3>3. PICK r \in Seq(Messages) : r = Snapshots
      BY <1>4
    <3>4. Len(one) = 1 /\ Len(r) = 3 /\ wire' = one \o r
      BY <1>1, <1>3, <3>1, <3>2, <3>3
    <3>5. /\ one \o r \in Seq(Messages)
          /\ DOMAIN (one \o r) = 1..Len(one) + Len(r)
          /\ \A i \in DOMAIN one : (one \o r)[i] = one[i]
          /\ \A i \in DOMAIN (one \o r) :
               i \notin DOMAIN one => i - Len(one) \in DOMAIN r /\ (one \o r)[i] = r[i - Len(one)]
      BY ConcatFacts
    <3> QED
      BY <3>1, <3>2, <3>3, <3>4, <3>5
  <2>2. wire'[1] = m /\ wire'[2] = Snapshots[1]
    BY <1>3, <2>1
  <2>3. \A i \in DOMAIN wire' : i = 1 \/ wire'[i].type # "agg"
    BY <1>3, <1>4, <2>1
  <2> QED
    BY <1>2, <2>1, <2>2, <2>3
<1> HIDE DEF m
<1>6. Carried(wire') = {} /\ CarriedOnce(wire')
  <2>1. \A i \in DOMAIN wire' : PointsOf(wire'[i]) = {}
    BY <1>5 DEF PointsOf
  <2> QED
    BY <1>5, <2>1 DEF Carried, CarriedOnce
<1>7. ChannelsFirst(wire')
  <2>1. 2 \in DOMAIN wire' /\ wire'[2].type = "ch" /\ \A j \in DOMAIN wire' : wire'[j].type # "agg"
    BY <1>4, <1>5
  <2> QED
    BY <2>1 DEF ChannelsFirst
<1>8. HistoryPoints' = flushed
  <2>1. wire' # <<>> /\ Head(wire') = m
    BY <1>5
  <2> QED
    BY <1>2, <2>1 DEF HistoryPoints
<1>9. Joined' <=> Joined
  BY <1>1 DEF Joined
<1>10. DeltasOnce'
  BY <1>1, <1>6 DEF SeriesInv, DeltasOnce
<1>11. BootOrder'
  <2>1. ~Joined => "ch" \in Waiting
    BY DEF SeriesInv, BootOrder, Waiting
  <2>2. "ch" \in Waiting => ~Joined
    BY DEF SeriesInv, BootOrder, Waiting
  <2> QED
    BY <1>1, <1>7, <1>9, <2>1, <2>2 DEF BootOrder
<1>12. taken <= flushed
  BY DEF SeriesInv, DeltasOnce
<1>13. PointsKept'
  <2>1. CASE Joined
    <3>1. Has' = Has
      BY <1>1, <1>9, <2>1 DEF Has
    <3>2. DOMAIN wire = {} /\ Carried(wire) = {}
      BY <1>1 DEF Carried
    <3> QED
      BY <1>1, <1>6, <2>1, <3>1, <3>2 DEF SeriesInv, PointsKept
  <2>2. CASE ~Joined
    <3>1. Has' = 1..flushed
      BY <1>8, <1>9, <2>2 DEF Has
    <3>2. \A p \in 1..taken : p \in 1..flushed
      BY <1>1, <1>12
    <3>3. \A p \in 1..flushed : p > taken => p \in taken + 1 .. flushed
      BY <1>1
    <3> QED
      BY <1>1, <1>6, <2>2, <3>1, <3>2, <3>3 DEF PointsKept
  <2> QED
    BY <2>1, <2>2
<1>14. DrawnTwice'
  BY <1>1, <1>9 DEF SeriesInv, DrawnTwice
<1> QED
  BY <1>10, <1>11, <1>13, <1>14 DEF SeriesInv

LEMMA CutSeries ==
    ASSUME TypeOK, AccessInv, SeriesInv, Cut
    PROVE  SeriesInv'
<1>1. /\ wire' = <<>> /\ sock' = "closed" /\ lost' = lost \union Carried(wire)
      /\ UNCHANGED <<taken, flushed, booted, once, loaded, series, early>>
  BY DEF Cut, Carried, daemonVars, bootVars
<1>2. DOMAIN wire' = {} /\ Carried(wire') = {} /\ CarriedOnce(wire')
  BY <1>1 DEF Carried, CarriedOnce
<1>3. DeltasOnce'
  BY <1>1, <1>2 DEF SeriesInv, DeltasOnce
<1>4. BootOrder'
  BY <1>1 DEF SeriesInv, BootOrder, Joined
<1>5. Joined => Has' = Has
  BY <1>1 DEF Has, Joined
<1>6. PointsKept'
  BY <1>1, <1>2, <1>5 DEF SeriesInv, PointsKept, Joined
<1>7. DrawnTwice'
  BY <1>1 DEF SeriesInv, DrawnTwice, Joined
<1> QED
  BY <1>3, <1>4, <1>6, <1>7 DEF SeriesInv

LEMMA ConnectSeries ==
    ASSUME TypeOK, AccessInv, SeriesInv, Connect
    PROVE  SeriesInv'
<1>1. /\ sock # "open" /\ sock' # "open"
      /\ UNCHANGED <<taken, flushed, wire, lost, booted, once, loaded, series, early>>
  BY DEF Connect, daemonVars, historyVars
<1>2. DeltasOnce'
  BY <1>1 DEF SeriesInv, DeltasOnce
<1>3. BootOrder'
  BY <1>1 DEF SeriesInv, BootOrder, Joined
<1>4. Joined => Has' = Has
  BY <1>1 DEF Has, Joined
<1>5. PointsKept'
  BY <1>1, <1>4 DEF SeriesInv, PointsKept, Joined
<1>6. DrawnTwice'
  BY <1>1 DEF SeriesInv, DrawnTwice, Joined
<1> QED
  BY <1>2, <1>3, <1>5, <1>6 DEF SeriesInv

LEMMA BroadcastSeries ==
    ASSUME TypeOK, AccessInv, SeriesInv, Broadcast
    PROVE  SeriesInv'
<1>1. /\ wire \in Seq(Messages) /\ wire' = wire \o Snapshots /\ sock = "open" /\ flushed \in Nat
      /\ UNCHANGED <<sock, taken, flushed, booted, once, loaded, series, initData, lost, early>>
  BY DEF Broadcast, TypeOK, daemonVars, bootVars, historyVars
<1>2. /\ Snapshots \in Seq(Messages)
      /\ \A i \in DOMAIN Snapshots : Snapshots[i].type \notin {"agg", "init"}
  BY SnapshotsFacts DEF Sources
<1>3. CarriedOnce(wire)
  BY DEF SeriesInv, DeltasOnce
<1>4. /\ Carried(wire') = Carried(wire) /\ CarriedOnce(wire')
      /\ ChannelsFirst(wire) => ChannelsFirst(wire')
  BY <1>1, <1>2, <1>3, ConcatCarried
<1>5. HistoryPoints' = HistoryPoints
  <2>1. CASE wire = <<>>
    <3>1. DOMAIN Snapshots = 1..3 /\ wire' = Snapshots
      BY <1>1, <1>2, <2>1 DEF Snapshots
    <3>2. Head(wire').type # "init"
      BY <1>2, <3>1
    <3> QED
      BY <2>1, <3>2, <1>1 DEF HistoryPoints
  <2>2. CASE wire # <<>>
    <3>1. wire' # <<>> /\ Head(wire') = Head(wire)
      BY <1>1, <1>2, <2>2
    <3> QED
      BY <1>1, <2>2, <3>1 DEF HistoryPoints
  <2> QED
    BY <2>1, <2>2
<1>6. ~Joined => ChannelsFirst(wire')
  BY <1>1, <1>4 DEF SeriesInv, BootOrder
<1>7. Joined' <=> Joined
  BY <1>1 DEF Joined
<1>8. "ch" \in once' <=> "ch" \in once
  BY <1>1
<1> QED
  BY <1>1, <1>4, <1>5, <1>6, <1>7, <1>8, PointsStay

LEMMA ServeSeries ==
    ASSUME TypeOK, AccessInv, SeriesInv, Serve
    PROVE  SeriesInv'
<1> DEFINE c == Head(toDaemon)
<1>1. /\ c \in Requests /\ flushed \in Nat
      /\ UNCHANGED <<sock, taken, flushed, booted, once, loaded, series, initData, lost, early>>
  BY TailFacts DEF Serve, TypeOK, bootVars
<1>2. CASE c.type = "auth"
  <2> DEFINE m == [type |-> "auth_result", granted |-> Granted(c)]
  <2>1. m \in Messages /\ m.type \notin {"agg", "init"}
    BY <1>1, <1>2 DEF Granted, Requests, Messages
  <2>2. Send(m)
    BY <1>2 DEF Serve
  <2> QED
    BY <1>1, <2>1, <2>2, SendSeries
<1>3. CASE c.type = "power"
  <2>1. UNCHANGED wire
    BY <1>3 DEF Serve
  <2> QED
    BY <1>1, <2>1, QuietSeries
<1>4. CASE c.type = "save"
  <2>1. UNCHANGED wire
    BY <1>4 DEF Serve
  <2> QED
    BY <1>1, <2>1, QuietSeries
<1> QED
  BY <1>2, <1>3, <1>4 DEF Serve

LEMMA HandleSeries ==
    ASSUME TypeOK, AccessInv, SeriesInv, Handle
    PROVE  SeriesInv'
<1>0. flushed \in Nat
  BY DEF TypeOK
<1> USE DEF daemonVars, bootVars, historyVars
<1>1. CASE ReceiveInit
  <2>1. initData'.points = Head(wire).points
    BY <1>1 DEF ReceiveInit, InitMsg
  <2> QED
    BY <1>1, <2>1, ReceiveSeries DEF ReceiveInit, Joined
<1>2. CASE ReceiveDelta
  BY <1>2, ReceiveDeltaSeries
<1>3. CASE ReceiveAuthResult
  BY <1>3, ReceiveSeries DEF ReceiveAuthResult, Joined
<1>4. CASE ReceiveSettings
  BY <1>4, ReceiveSeries DEF ReceiveSettings, Joined
<1>5. ASSUME NEW src \in Sources, ReceiveSnapshot(src)
      PROVE  SeriesInv'
  <2>1. CASE src = "ch" /\ "ch" \in once
    BY <1>5, <2>1, FirstChannelsSeries
  <2>2. CASE ~(src = "ch" /\ "ch" \in once)
    <3>1. /\ Receive(src) /\ src \notin {"agg", "init"}
          /\ once' = once \ {src} /\ loaded' \subseteq loaded \union {"boards", "cards"}
          /\ loaded \subseteq loaded'
          /\ UNCHANGED <<sock, taken, flushed, booted, series, initData, lost, early>>
      BY <1>5, <2>2 DEF ReceiveSnapshot, Sources
    <3>2. Joined' <=> Joined
      BY <3>1 DEF Joined
    <3>3. "ch" \in once' <=> "ch" \in once
      BY <2>2, <3>1
    <3> QED
      BY <2>2, <3>1, <3>2, <3>3, ReceiveSeries
  <2> QED
    BY <2>1, <2>2
<1> QED
  BY <1>1, <1>2, <1>3, <1>4, <1>5 DEF Handle

LEMMA InitSeries == Init => SeriesInv
<1> SUFFICES ASSUME Init PROVE SeriesInv
  OBVIOUS
<1>1. /\ wire = <<>> /\ sock = "connecting" /\ booted = FALSE /\ once = {} /\ loaded = {}
      /\ taken = 0 /\ flushed = 0
  BY DEF Init
<1>2. DOMAIN wire = {} /\ Carried(wire) = {} /\ CarriedOnce(wire)
  BY <1>1 DEF Carried, CarriedOnce
<1> QED
  BY <1>1, <1>2 DEF SeriesInv, DeltasOnce, BootOrder, PointsKept, DrawnTwice, Joined

LEMMA StepSeries == TypeOK /\ AccessInv /\ SeriesInv /\ [Next]_vars => SeriesInv'
<1> SUFFICES ASSUME TypeOK, AccessInv, SeriesInv, [Next]_vars PROVE SeriesInv'
  OBVIOUS
<1>0. flushed \in Nat /\ flushed + 1 >= flushed /\ flushed >= flushed /\ flushed + 1 \in Nat
  BY DEF TypeOK
<1> USE DEF daemonVars, linkVars, bootVars, viewVars, historyVars
<1>1. CASE Connect
  BY <1>1, ConnectSeries
<1>2. CASE Open
  BY <1>2, OpenSeries
<1>3. CASE Cut
  BY <1>3, CutSeries
<1>4. CASE HardwareChanges
  BY <1>0, <1>4, QuietSeries DEF HardwareChanges
<1>5. CASE Broadcast
  BY <1>5, BroadcastSeries
<1>6. CASE Flush
  BY <1>0, <1>6, QuietSeries DEF Flush
<1>7. CASE BroadcastDelta
  BY <1>7, BroadcastDeltaSeries
<1>8. CASE Serve
  BY <1>8, ServeSeries
<1>9. CASE Handle
  BY <1>9, HandleSeries
<1>10. ASSUME NEW c, Ask(c) PROVE SeriesInv'
  BY <1>0, <1>10, QuietSeries DEF Ask
<1>11. CASE Power \/ Save \/ \E l \in 0..2, good \in BOOLEAN : Login(l, good)
  BY <1>10, <1>11 DEF Power, Save, Login
<1>12. CASE Mute
  BY <1>0, <1>12, QuietSeries DEF Mute
<1>13. CASE Time
  BY <1>0, <1>13, QuietSeries DEF Time
<1>14. CASE UNCHANGED vars
  BY <1>0, <1>14, QuietSeries DEF vars
<1>15. CASE OtherSaves
  BY <1>0, <1>15, QuietSeries DEF OtherSaves
<1>16. CASE Answer
  <2>1. CASE requester = "page"
    <3> DEFINE m == [type |-> "settings"]
    <3>1. m \in Messages /\ m.type \notin {"agg", "init"}
      BY DEF Messages
    <3>2. Send(m)
      BY <1>16, <2>1 DEF Answer
    <3>3. UNCHANGED <<sock, taken, flushed, booted, once, loaded, series, initData, lost, early>>
      BY <1>16 DEF Answer
    <3> QED
      BY <3>1, <3>2, <3>3, SendSeries
  <2>2. CASE requester # "page"
    BY <1>0, <1>16, <2>2, QuietSeries DEF Answer
  <2> QED
    BY <2>1, <2>2
<1> QED
  BY <1>1, <1>2, <1>3, <1>4, <1>5, <1>6, <1>7, <1>8, <1>9, <1>11, <1>12, <1>13, <1>14, <1>15,
     <1>16 DEF Next

\* When every point computed has been broadcast and has arrived, a point the
\* plot misses was broadcast while the page was not connected (or cut off with
\* its connection), and one drawn twice came with the init message and again
\* with the next delta: for any number of points, cuts and reconnections.
THEOREM SeriesHolds == Spec => []SeriesExplained
<1>1. TypeOK /\ SeriesInv => SeriesExplained
  <2> SUFFICES ASSUME TypeOK, SeriesInv, sock = "open", Joined, taken = flushed,
                      ~Holds(wire, "agg"), NEW p \in 1..flushed
               PROVE  (Count(p) = 0 => p \in lost) /\ (Count(p) > 1 => p \in early)
    BY DEF SeriesExplained, Joined
  <2> DEFINE At == {i \in DOMAIN series : series[i] = p}
  <2>1. IsFiniteSet(At)
    <3>1. PICK n \in Nat : DOMAIN series = 1..n
      BY DEF TypeOK
    <3>2. IsFiniteSet(1..n) /\ At \subseteq 1..n
      BY <3>1, FS_Interval
    <3> QED
      BY <3>2, FS_Subset
  <2>2. Carried(wire) = {} /\ Has = Elems(series)
    BY DEF Carried, PointsOf, Holds, Has
  <2>3. ASSUME Count(p) = 0 PROVE p \in lost
    <3>1. At = {}
      BY <2>1, <2>3, FS_EmptySet DEF Count
    <3>2. p \notin Has
      BY <2>2, <3>1 DEF Elems
    <3> QED
      BY <2>2, <3>2 DEF SeriesInv, PointsKept
  <2>4. ASSUME Count(p) > 1 PROVE p \in early
    <3>1. Cardinality(At) > 1
      BY <2>4 DEF Count
    <3>2. PICK i \in At : TRUE
      BY <3>1, FS_EmptySet
    <3>3. Cardinality({i}) = 1
      BY FS_Singleton
    <3>5. At # {i}
      BY <3>1, <3>3
    <3>4. PICK j \in At : j # i
      BY <3>2, <3>5
    <3> QED
      BY <3>4 DEF SeriesInv, DrawnTwice
  <2> QED
    BY <2>3, <2>4
<1>2. Init => TypeOK /\ AccessInv /\ SeriesInv
  BY InitTypes, InitAccess, InitSeries
<1>3. TypeOK /\ AccessInv /\ SeriesInv /\ [Next]_vars => (TypeOK /\ AccessInv /\ SeriesInv)'
  BY StepTypes, StepAccess, StepSeries
<1> QED
  BY <1>1, <1>2, <1>3, PTL DEF Spec

=============================================================================
