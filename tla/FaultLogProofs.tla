--------------------------- MODULE FaultLogProofs ---------------------------
(***************************************************************************)
(* Proofs about the fault log: FaultTracker, for any set of crates,        *)
(* channels, boards, names and readings, and FaultFeed, for any set of     *)
(* loggers and pages and any capacity.                                     *)
(***************************************************************************)
EXTENDS FaultTracker, FaultFeed, SequenceTheorems, TLAPS

\* The level a status implies by itself: a WARN has a reason to be one (an
\* ignored error or the DVW token) and no genuine error besides.
Genuine(t) == t.flag \notin OperatingFlags \cup {"OFF", "DVW"} /\ ~t.ignored
StatusLevel(status) ==
    IF (\E t \in status : Genuine(t)) \/ ~(\E t \in status : t.ignored \/ t.flag = "DVW")
    THEN "FAULT" ELSE "WARN"

\* The level handed to update() is a function of the status handed to it,
\* although the poll loop computes the two along different paths.  This is
\* why a DISAPPEAR, which is logged with the level of the last update and
\* not of the APPEAR, still carries the level of the APPEAR.
LEMMA LevelOfChannel ==
    ASSUME NEW n \in Names, NEW r \in Readings
    PROVE  LogLevel(n, r) = StatusLevel(TrackStatus(n, r))
<1> DEFINE S == GetStatusString(n, r.bits)
<1>1. \A t \in S : t.flag # "DVW"
  BY StatusAssumption DEF GetStatusString, Token, Readings, OperatingFlags, NormalTokens
<1>2. HasFault(S) <=> \E t \in S : Genuine(t)
  BY <1>1 DEF HasFault, ErrorTokens, Genuine
<1>3. HasSuppressed(S) <=> \E t \in S : t.ignored
  <2>1. ASSUME NEW t \in S, t.ignored
        PROVE  t.flag \notin OperatingFlags \cup {"OFF"}
    <3>1. r.bits # {}
      BY <2>1 DEF GetStatusString, Token
    <3>2. PICK f \in r.bits : t = Token(f, IsErrorSuppressed(n, f))
      BY <3>1 DEF GetStatusString
    <3>3. t.flag = f /\ f \in ErrorFlags
      BY <2>1, <3>2, StatusAssumption DEF Token, IsErrorSuppressed
    <3> QED BY <3>3, StatusAssumption DEF OperatingFlags, NormalTokens
  <2> QED BY <2>1 DEF HasSuppressed, ErrorTokens
<1>4. DvWarn(n, r) => ~HasFault(S)
  BY DEF DvWarn
<1>5. ~Genuine(Token("DVW", FALSE)) /\ Token("DVW", FALSE).flag = "DVW"
  BY DEF Genuine, Token
<1>6. CASE DvWarn(n, r)
  <2>1. TrackStatus(n, r) = S \cup {Token("DVW", FALSE)}
    BY <1>6 DEF TrackStatus
  <2>2. StatusLevel(TrackStatus(n, r)) = "WARN"
    BY <2>1, <1>2, <1>4, <1>5, <1>6 DEF StatusLevel
  <2>3. Classify(n, r) # "fault"
    BY <1>4, <1>6 DEF Classify
  <2> QED BY <2>2, <2>3, <1>6 DEF LogLevel
<1>7. CASE ~DvWarn(n, r)
  <2>1. TrackStatus(n, r) = S
    BY <1>7 DEF TrackStatus
  <2>2. StatusLevel(S) = IF HasFault(S) \/ ~HasSuppressed(S) THEN "FAULT" ELSE "WARN"
    BY <1>1, <1>2, <1>3 DEF StatusLevel
  <2>3. Classify(n, r) \in {"warn", "suppressed"} <=> ~HasFault(S) /\ HasSuppressed(S)
    BY <1>7 DEF Classify
  <2> QED BY <2>1, <2>2, <2>3, <1>7 DEF LogLevel
<1> QED BY <1>6, <1>7

LEMMA LevelOfBoard ==
    ASSUME NEW bits \in SUBSET BoardFlags
    PROVE  StatusLevel(GetBdStatusString(bits)) = "FAULT"
BY StatusAssumption DEF StatusLevel, GetBdStatusString, Token, Genuine, OperatingFlags, NormalTokens

-----------------------------------------------------------------------------
(***************************************************************************)
(* Type correctness.                                                       *)
(***************************************************************************)
LEMMA TokenTypes ==
    /\ \A f \in NormalTokens \cup ErrorFlags \cup BoardFlags \cup {"DVW"}, b \in BOOLEAN :
          Token(f, b) \in Tokens
    /\ NotTracked \in Alarm
    /\ \A dir \in {"APPEAR", "DISAPPEAR"}, a \in Alarm : Entry(dir, a) \in Entries
    /\ \A s \in SUBSET Tokens, l \in Levels : [status |-> s, level |-> l] \in Alarm
<1>1. \A f \in NormalTokens \cup ErrorFlags \cup BoardFlags \cup {"DVW"}, b \in BOOLEAN :
          Token(f, b) \in Tokens
  BY DEF Token, Tokens
<1>2. \A s \in SUBSET Tokens, l \in Levels : [status |-> s, level |-> l] \in Alarm
  BY DEF Alarm
<1>3. NotTracked \in Alarm
  BY <1>2 DEF NotTracked, Levels
<1>4. \A dir \in {"APPEAR", "DISAPPEAR"}, a \in Alarm : Entry(dir, a) \in Entries
  BY DEF Entry, Entries
<1> QED BY <1>1, <1>2, <1>3, <1>4

LEMMA ChannelTypes ==
    ASSUME NEW n \in Names, NEW r \in Readings
    PROVE  TrackStatus(n, r) \in SUBSET Tokens /\ LogLevel(n, r) \in Levels
<1>1. GetStatusString(n, r.bits) \in SUBSET Tokens
  <2>1. r.bits \subseteq NormalTokens \cup ErrorFlags
    BY DEF Readings, OperatingFlags, NormalTokens
  <2>2. Token("OFF", FALSE) \in Tokens
    BY TokenTypes DEF NormalTokens
  <2>3. \A f \in r.bits : Token(f, IsErrorSuppressed(n, f)) \in Tokens
    <3>1. \A f \in r.bits : IsErrorSuppressed(n, f) \in BOOLEAN
      BY DEF IsErrorSuppressed
    <3> QED BY <2>1, <3>1, TokenTypes
  <2> QED BY <2>2, <2>3 DEF GetStatusString
<1>2. Token("DVW", FALSE) \in Tokens
  BY TokenTypes
<1> QED BY <1>1, <1>2 DEF TrackStatus, LogLevel, Levels

LEMMA BoardTypes ==
    ASSUME NEW bits \in SUBSET BoardFlags
    PROVE  GetBdStatusString(bits) \in SUBSET Tokens
<1>1. Token("OK", FALSE) \in Tokens /\ \A f \in bits : Token(f, FALSE) \in Tokens
  BY TokenTypes DEF NormalTokens
<1> QED BY <1>1 DEF GetBdStatusString

\* What update() makes of the log and the alarm of its key.
Gone(old, status) ==
    IF IsFault(old.status) /\ old.status # status THEN <<Entry("DISAPPEAR", old)>> ELSE <<>>
New(old, status, level) ==
    IF IsFault(status) /\ old.status # status
    THEN <<Entry("APPEAR", [status |-> status, level |-> level])>> ELSE <<>>

LEMMA UpdateTypes ==
    ASSUME TypeOK, NEW k \in Keys, NEW status \in SUBSET Tokens, NEW level \in Levels,
           Update(k, status, level)
    PROVE  /\ seen' \in SUBSET Keys
           /\ log' \in [Keys -> Seq(Entries)]
           /\ prev' \in [Keys -> Alarm]
<1>1. Gone(prev[k], status) \in Seq(Entries) /\ New(prev[k], status, level) \in Seq(Entries)
  <2>1. Entry("DISAPPEAR", prev[k]) \in Entries
    BY TokenTypes DEF TypeOK
  <2>2. Entry("APPEAR", [status |-> status, level |-> level]) \in Entries
    BY TokenTypes
  <2> QED BY <2>1, <2>2 DEF Gone, New
<1>2. (log[k] \o Gone(prev[k], status)) \o New(prev[k], status, level) \in Seq(Entries)
  <2>1. log[k] \in Seq(Entries)
    BY DEF TypeOK
  <2>2. log[k] \o Gone(prev[k], status) \in Seq(Entries)
    BY <1>1, <2>1, ConcatProperties
  <2> QED BY <1>1, <2>2, ConcatProperties
<1>3. [status |-> status, level |-> level] \in Alarm
  BY TokenTypes
<1>4. log \in [Keys -> Seq(Entries)] /\ prev \in [Keys -> Alarm] /\ seen \in SUBSET Keys
  BY DEF TypeOK
<1>5. prev' \in [Keys -> Alarm]
  BY <1>3, <1>4 DEF Update
<1>6. log' \in [Keys -> Seq(Entries)]
  BY <1>2, <1>4 DEF Update, Gone, New
<1>7. seen' \in SUBSET Keys
  BY <1>4 DEF Update
<1> QED BY <1>5, <1>6, <1>7

LEMMA TypeInit == Init => TypeOK
<1> SUFFICES ASSUME Init PROVE TypeOK
  OBVIOUS
<1>1. name \in [Channels -> Names]
  BY DEF Init
<1>2. prev \in [Keys -> Alarm] /\ polled = prev
  BY TokenTypes DEF Init
<1>3. log \in [Keys -> Seq(Entries)]
  BY DEF Init
<1> QED BY <1>1, <1>2, <1>3 DEF Init, TypeOK

LEMMA TypeStep == TypeOK /\ [Next]_vars => TypeOK'
<1> SUFFICES ASSUME TypeOK, [Next]_vars PROVE TypeOK'
  OBVIOUS
<1>1. ASSUME NEW ch \in Channels, NEW n \in Names, Rename(ch, n) PROVE TypeOK'
  BY <1>1 DEF Rename, TypeOK
<1>2. ASSUME NEW up \in SUBSET Crates, StartCycle(up) PROVE TypeOK'
  <2>1. todo' \in SUBSET (Channels \cup Boards)
    BY <1>2 DEF StartCycle
  <2>2. tracking' \in BOOLEAN /\ polls' \in Nat
    BY <1>2 DEF StartCycle, TypeOK
  <2>3. UNCHANGED <<name, prev, seen, log, restarts, polled>>
    BY <1>2 DEF StartCycle
  <2> QED BY <2>1, <2>2, <2>3 DEF TypeOK
<1>3. ASSUME NEW bd \in Boards, NEW bits \in BoardReadings, TrackBoard(bd, bits) PROVE TypeOK'
  <2>1. bits \in SUBSET BoardFlags /\ bd \in Keys
    BY TrackerAssumption DEF Keys
  <2>2. /\ seen' \in SUBSET Keys /\ log' \in [Keys -> Seq(Entries)] /\ prev' \in [Keys -> Alarm]
    BY <1>3, <2>1, BoardTypes, UpdateTypes DEF TrackBoard, Levels
  <2> QED BY <1>3, <2>2 DEF TrackBoard, TypeOK
<1>4. ASSUME NEW ch \in Channels, NEW r \in PolledReadings, TrackChannel(ch, r) PROVE TypeOK'
  <2>1. r \in Readings /\ name[ch] \in Names /\ name[ch] \in Keys
    BY TrackerAssumption DEF Keys, TypeOK
  <2>2. /\ seen' \in SUBSET Keys /\ log' \in [Keys -> Seq(Entries)] /\ prev' \in [Keys -> Alarm]
    BY <1>4, <2>1, ChannelTypes, UpdateTypes DEF TrackChannel
  <2> QED BY <1>4, <2>2 DEF TrackChannel, TypeOK
<1>5. ASSUME EndCycle PROVE TypeOK'
  <2>1. ASSUME NEW k \in Keys PROVE Append(log[k], Entry("DISAPPEAR", prev[k])) \in Seq(Entries)
    <3>1. Entry("DISAPPEAR", prev[k]) \in Entries /\ log[k] \in Seq(Entries)
      BY TokenTypes DEF TypeOK
    <3> QED BY <3>1, AppendProperties
  <2>2. log' \in [Keys -> Seq(Entries)]
    BY <1>5, <2>1 DEF EndCycle, TypeOK
  <2>3. prev' \in [Keys -> Alarm]
    BY <1>5, TokenTypes DEF EndCycle, TypeOK
  <2> QED BY <1>5, <2>2, <2>3 DEF EndCycle, TypeOK
<1>6. ASSUME Restart PROVE TypeOK'
  <2>1. prev' \in [Keys -> Alarm] /\ polled' = prev'
    BY <1>6, TokenTypes DEF Restart
  <2>2. restarts' \in Nat /\ UNCHANGED <<name, seen, todo, tracking, log, polls>>
    BY <1>6 DEF Restart, TypeOK
  <2> QED BY <2>1, <2>2 DEF TypeOK
<1>7. CASE UNCHANGED vars
  BY <1>7 DEF vars, TypeOK
<1> QED BY <1>1, <1>2, <1>3, <1>4, <1>5, <1>6, <1>7 DEF Next

\* Every variable of the fault tracker keeps to its C++ type.
THEOREM TypeCorrect == Spec => []TypeOK
BY TypeInit, TypeStep, PTL DEF Spec

-----------------------------------------------------------------------------
(***************************************************************************)
(* The log of one key, against the alarm the tracker holds for it.         *)
(***************************************************************************)
\* An alarm as the poll loop makes it.
Sound(a) == a.level = StatusLevel(a.status)

\* Only sound alarms are logged, and an active one is the last entry.
Faithful(l, a) ==
    /\ \A i \in 1..Len(l) : IsFault(l[i].alarm.status) /\ Sound(l[i].alarm)
    /\ IsFault(a.status) => l # <<>> /\ l[Len(l)] = Entry("APPEAR", a)

\* Every APPEAR is followed by its own DISAPPEAR, or is the active alarm.
Paired(l, a) ==
    \A i \in 1..Len(l) : l[i].dir = "APPEAR" =>
        \/ i < Len(l) /\ l[i+1] = Entry("DISAPPEAR", l[i].alarm)
        \/ i = Len(l) /\ IsFault(a.status) /\ a = l[i].alarm

\* Appending the end of the active alarm leaves no alarm open.
LEMMA Closing ==
    ASSUME NEW l \in Seq(Entries), NEW a \in Alarm, NEW b \in Alarm, Sound(a),
           Faithful(l, a), IsFault(a.status), ~IsFault(b.status)
    PROVE  LET m == Append(l, Entry("DISAPPEAR", a))
           IN  m \in Seq(Entries) /\ Faithful(m, b) /\ (Paired(l, a) => Paired(m, b))
<1> DEFINE e == Entry("DISAPPEAR", a)
           m == Append(l, e)
<1>1. e \in Entries
  BY TokenTypes
<1>2. /\ m \in Seq(Entries) /\ Len(m) = Len(l) + 1 /\ Len(l) \in Nat
      /\ \A i \in 1..Len(l) : m[i] = l[i]
      /\ m[Len(l) + 1] = e
  BY <1>1, AppendProperties
<1>3. e.alarm = a /\ e.dir = "DISAPPEAR"
  BY DEF Entry
<1> HIDE DEF m, e
<1>4. Faithful(m, b)
  <2>1. \A i \in 1..Len(m) : i = Len(l) + 1 \/ i \in 1..Len(l)
    BY <1>2
  <2> QED BY <2>1, <1>2, <1>3 DEF Faithful
<1>5. ASSUME Paired(l, a) PROVE Paired(m, b)
  <2> SUFFICES ASSUME NEW i \in 1..Len(m), m[i].dir = "APPEAR"
               PROVE  i < Len(m) /\ m[i+1] = Entry("DISAPPEAR", m[i].alarm)
    BY DEF Paired
  <2>1. i \in 1..Len(l)
    BY <1>2, <1>3
  <2>2. l[i].dir = "APPEAR" /\ m[i] = l[i]
    BY <1>2, <2>1
  <2>3. CASE i < Len(l)
    <3>1. l[i+1] = Entry("DISAPPEAR", l[i].alarm)
      BY <1>5, <2>1, <2>2, <2>3 DEF Paired
    <3>2. i + 1 \in 1..Len(l)
      BY <2>1, <2>3, <1>2
    <3> QED BY <1>2, <2>1, <2>2, <2>3, <3>1, <3>2
  <2>4. CASE i = Len(l)
    <3>1. a = l[i].alarm
      BY <1>5, <2>1, <2>2, <2>4, <1>2 DEF Paired
    <3> QED BY <1>2, <2>2, <2>4, <3>1 DEF e
  <2> QED BY <2>1, <2>3, <2>4, <1>2
<1> QED BY <1>2, <1>4, <1>5 DEF m, e

\* Appending the start of an alarm when none is active.
LEMMA Opening ==
    ASSUME NEW l \in Seq(Entries), NEW a \in Alarm, NEW b \in Alarm, Sound(b),
           Faithful(l, a), ~IsFault(a.status), IsFault(b.status)
    PROVE  LET m == Append(l, Entry("APPEAR", b))
           IN  m \in Seq(Entries) /\ Faithful(m, b) /\ (Paired(l, a) => Paired(m, b))
<1> DEFINE e == Entry("APPEAR", b)
           m == Append(l, e)
<1>1. e \in Entries
  BY TokenTypes
<1>2. /\ m \in Seq(Entries) /\ Len(m) = Len(l) + 1 /\ Len(l) \in Nat /\ m # <<>>
      /\ \A i \in 1..Len(l) : m[i] = l[i]
      /\ m[Len(l) + 1] = e
  BY <1>1, AppendProperties
<1>3. e.alarm = b /\ e.dir = "APPEAR"
  BY DEF Entry
<1> HIDE DEF m, e
<1>4. Faithful(m, b)
  <2>1. \A i \in 1..Len(m) : i = Len(l) + 1 \/ i \in 1..Len(l)
    BY <1>2
  <2>2. m[Len(m)] = Entry("APPEAR", b)
    BY <1>2 DEF e
  <2> QED BY <2>1, <2>2, <1>2, <1>3 DEF Faithful
<1>5. ASSUME Paired(l, a) PROVE Paired(m, b)
  <2> SUFFICES ASSUME NEW i \in 1..Len(m), m[i].dir = "APPEAR"
               PROVE  \/ i < Len(m) /\ m[i+1] = Entry("DISAPPEAR", m[i].alarm)
                      \/ i = Len(m) /\ b = m[i].alarm
    BY DEF Paired
  <2>1. CASE i = Len(l) + 1
    BY <1>2, <1>3, <2>1
  <2>2. CASE i \in 1..Len(l)
    <3>1. l[i].dir = "APPEAR" /\ m[i] = l[i]
      BY <1>2, <2>2
    <3>2. i < Len(l) /\ l[i+1] = Entry("DISAPPEAR", l[i].alarm)
      BY <1>5, <2>2, <3>1 DEF Paired
    <3> QED BY <1>2, <2>2, <3>1, <3>2
  <2> QED BY <2>1, <2>2, <1>2
<1> QED BY <1>2, <1>4, <1>5 DEF m, e

\* What update() writes to the log of its key, by the two alarms involved.
LEMMA UpdateLog ==
    ASSUME NEW l \in Seq(Entries), NEW a \in Alarm, NEW b \in Alarm, Sound(a), Sound(b),
           Faithful(l, a)
    PROVE  LET m == (l \o Gone(a, b.status)) \o New(a, b.status, b.level)
           IN  Faithful(m, b) /\ (Paired(l, a) => Paired(m, b))
<1> DEFINE m == (l \o Gone(a, b.status)) \o New(a, b.status, b.level)
<1>0. [status |-> b.status, level |-> b.level] = b
  BY DEF Alarm
<1>1. \A s \in Seq(Entries) : s \o <<>> = s
  BY ConcatEmptySeq
<1>2. \A s \in Seq(Entries), e \in Entries : s \o <<e>> = Append(s, e)
  BY AppendIsConcat
<1>3. Entry("DISAPPEAR", a) \in Entries /\ Entry("APPEAR", b) \in Entries
  BY TokenTypes
<1>4. CASE a.status = b.status
  <2>1. a = b
    BY <1>4 DEF Sound, Alarm
  <2>2. m = l
    BY <1>1, <1>4 DEF Gone, New
  <2> QED BY <2>1, <2>2
<1>5. CASE a.status # b.status /\ ~IsFault(a.status) /\ ~IsFault(b.status)
  <2>1. m = l
    BY <1>1, <1>5 DEF Gone, New
  <2> QED BY <2>1, <1>5 DEF Faithful, Paired
<1>6. CASE a.status # b.status /\ IsFault(a.status) /\ ~IsFault(b.status)
  <2>1. Append(l, Entry("DISAPPEAR", a)) \in Seq(Entries)
    BY <1>3, AppendProperties
  <2>2. m = Append(l, Entry("DISAPPEAR", a))
    BY <1>1, <1>2, <1>3, <1>6, <2>1 DEF Gone, New
  <2> QED BY <2>2, <1>6, Closing
<1>7. CASE a.status # b.status /\ ~IsFault(a.status) /\ IsFault(b.status)
  <2>1. m = Append(l, Entry("APPEAR", b))
    BY <1>0, <1>1, <1>2, <1>3, <1>7 DEF Gone, New
  <2> QED BY <2>1, <1>7, Opening
<1>8. CASE a.status # b.status /\ IsFault(a.status) /\ IsFault(b.status)
  <2> DEFINE l1 == Append(l, Entry("DISAPPEAR", a))
  <2>1. ~IsFault(NotTracked.status) /\ NotTracked \in Alarm
    BY TokenTypes DEF NotTracked, IsFault
  <2>2. l1 \in Seq(Entries) /\ Faithful(l1, NotTracked) /\ (Paired(l, a) => Paired(l1, NotTracked))
    BY <1>8, <2>1, Closing
  <2>3. m = Append(l1, Entry("APPEAR", b))
    BY <1>0, <1>2, <1>3, <1>8, <2>2 DEF Gone, New
  <2> HIDE DEF l1, m
  <2>4. /\ Faithful(Append(l1, Entry("APPEAR", b)), b)
        /\ Paired(l1, NotTracked) => Paired(Append(l1, Entry("APPEAR", b)), b)
    BY <1>8, <2>1, <2>2, Opening
  <2> QED BY <2>2, <2>3, <2>4 DEF m
<1> QED BY <1>4, <1>5, <1>6, <1>7, <1>8

\* The inductive invariant.  PairedInv needs a daemon that has not restarted:
\* a restart forgets the active alarms and leaves their APPEAR unmatched.
FaithfulInv == \A k \in Keys : Sound(prev[k]) /\ Faithful(log[k], prev[k])
PairedInv == restarts = 0 => \A k \in Keys : Paired(log[k], prev[k])
LogInv == TypeOK /\ FaithfulInv /\ PairedInv

LEMMA UpdateInv ==
    ASSUME LogInv, NEW k \in Keys, NEW status \in SUBSET Tokens,
           NEW level \in Levels, level = StatusLevel(status),
           Update(k, status, level), restarts' = restarts
    PROVE  FaithfulInv' /\ PairedInv'
<1> DEFINE b == [status |-> status, level |-> level]
<1>1. b \in Alarm /\ Sound(b) /\ b.status = status /\ b.level = level
  BY TokenTypes DEF Sound
<1>2. prev[k] \in Alarm /\ log[k] \in Seq(Entries) /\ prev \in [Keys -> Alarm]
      /\ log \in [Keys -> Seq(Entries)]
  BY DEF LogInv, TypeOK
<1>3. /\ prev' = [prev EXCEPT ![k] = b]
      /\ log' = [log EXCEPT ![k] = (@ \o Gone(prev[k], status)) \o New(prev[k], status, level)]
  BY DEF Update, Gone, New
<1> HIDE DEF b
<1>4. prev'[k] = b /\ log'[k] = (log[k] \o Gone(prev[k], status)) \o New(prev[k], status, level)
  BY <1>2, <1>3
<1>5. \A j \in Keys : j # k => prev'[j] = prev[j] /\ log'[j] = log[j]
  BY <1>2, <1>3
<1>6. Faithful(log'[k], prev'[k]) /\ (Paired(log[k], prev[k]) => Paired(log'[k], prev'[k]))
  BY <1>1, <1>2, <1>4, UpdateLog DEF LogInv, FaithfulInv
<1> QED BY <1>1, <1>4, <1>5, <1>6 DEF LogInv, FaithfulInv, PairedInv

LEMMA LogInit == Init => LogInv
<1> SUFFICES ASSUME Init PROVE LogInv
  OBVIOUS
<1>1. \A k \in Keys : prev[k] = NotTracked /\ log[k] = <<>>
  BY DEF Init
<1>2. Sound(NotTracked) /\ ~IsFault(NotTracked.status)
  BY DEF Sound, NotTracked, StatusLevel, IsFault
<1>3. FaithfulInv /\ PairedInv
  BY <1>1, <1>2 DEF FaithfulInv, PairedInv, Faithful, Paired
<1> QED BY <1>3, TypeInit DEF LogInv

LEMMA LogStep == LogInv /\ [Next]_vars => LogInv'
<1> SUFFICES ASSUME LogInv, [Next]_vars PROVE LogInv'
  OBVIOUS
<1>0. TypeOK'
  BY TypeStep DEF LogInv
<1>1. CASE UNCHANGED <<prev, log, restarts>>
  BY <1>0, <1>1 DEF LogInv, FaithfulInv, PairedInv
<1>2. ASSUME NEW bd \in Boards, NEW bits \in BoardReadings, TrackBoard(bd, bits) PROVE LogInv'
  <2>1. bits \in SUBSET BoardFlags /\ bd \in Keys
    BY TrackerAssumption DEF Keys
  <2>2. /\ GetBdStatusString(bits) \in SUBSET Tokens
        /\ StatusLevel(GetBdStatusString(bits)) = "FAULT"
    BY <2>1, BoardTypes, LevelOfBoard
  <2>3. Update(bd, GetBdStatusString(bits), "FAULT") /\ restarts' = restarts
    BY <1>2 DEF TrackBoard
  <2> QED BY <1>0, <2>1, <2>2, <2>3, UpdateInv DEF LogInv, Levels
<1>3. ASSUME NEW ch \in Channels, NEW r \in PolledReadings, TrackChannel(ch, r) PROVE LogInv'
  <2>1. r \in Readings /\ name[ch] \in Names /\ name[ch] \in Keys
    BY TrackerAssumption DEF Keys, LogInv, TypeOK
  <2>2. /\ TrackStatus(name[ch], r) \in SUBSET Tokens /\ LogLevel(name[ch], r) \in Levels
        /\ LogLevel(name[ch], r) = StatusLevel(TrackStatus(name[ch], r))
    BY <2>1, ChannelTypes, LevelOfChannel
  <2>3. /\ Update(name[ch], TrackStatus(name[ch], r), LogLevel(name[ch], r))
        /\ restarts' = restarts
    BY <1>3 DEF TrackChannel
  <2> QED BY <1>0, <2>1, <2>2, <2>3, UpdateInv DEF LogInv
<1>4. CASE EndCycle
  <2>1. Sound(NotTracked) /\ ~IsFault(NotTracked.status) /\ NotTracked \in Alarm
    BY TokenTypes DEF Sound, NotTracked, StatusLevel, IsFault
  <2>2. ASSUME NEW k \in Keys
        PROVE  /\ Sound(prev'[k]) /\ Faithful(log'[k], prev'[k])
               /\ Paired(log[k], prev[k]) => Paired(log'[k], prev'[k])
    <3>1. prev[k] \in Alarm /\ log[k] \in Seq(Entries) /\ Sound(prev[k]) /\ Faithful(log[k], prev[k])
      BY DEF LogInv, TypeOK, FaithfulInv
    <3>2. CASE k \in seen
      BY <1>4, <3>1, <3>2 DEF EndCycle
    <3>3. CASE k \notin seen /\ IsActive(k)
      <4>1. prev'[k] = NotTracked /\ log'[k] = Append(log[k], Entry("DISAPPEAR", prev[k]))
        BY <1>4, <3>3 DEF EndCycle
      <4> QED BY <2>1, <3>1, <3>3, <4>1, Closing DEF IsActive
    <3>4. CASE k \notin seen /\ ~IsActive(k)
      <4>1. prev'[k] = NotTracked /\ log'[k] = log[k]
        BY <1>4, <3>4 DEF EndCycle
      <4> QED BY <2>1, <3>1, <3>4, <4>1 DEF Faithful, Paired, IsActive
    <3> QED BY <3>2, <3>3, <3>4
  <2>3. restarts' = restarts
    BY <1>4 DEF EndCycle
  <2> QED BY <1>0, <2>2, <2>3 DEF LogInv, FaithfulInv, PairedInv
<1>5. CASE Restart
  <2>1. restarts' # 0
    BY <1>5 DEF Restart, LogInv, TypeOK
  <2>2. \A k \in Keys : prev'[k] = NotTracked /\ log'[k] = log[k]
    BY <1>5 DEF Restart
  <2>3. Sound(NotTracked) /\ ~IsFault(NotTracked.status)
    BY DEF Sound, NotTracked, StatusLevel, IsFault
  <2> QED BY <1>0, <2>1, <2>2, <2>3 DEF LogInv, FaithfulInv, PairedInv, Faithful
<1>6. ASSUME NEW ch \in Channels, NEW n \in Names, Rename(ch, n)
      PROVE  UNCHANGED <<prev, log, restarts>>
  BY <1>6 DEF Rename
<1>7. ASSUME NEW up \in SUBSET Crates, StartCycle(up) PROVE UNCHANGED <<prev, log, restarts>>
  BY <1>7 DEF StartCycle
<1>8. CASE UNCHANGED vars
  BY <1>1, <1>8 DEF vars
<1> QED BY <1>1, <1>2, <1>3, <1>4, <1>5, <1>6, <1>7, <1>8 DEF Next

LEMMA LogInvariant == Spec => []LogInv
BY LogInit, LogStep, PTL DEF Spec

-----------------------------------------------------------------------------
(***************************************************************************)
(* What a reader of the log may rely on.                                   *)
(***************************************************************************)
LEMMA LevelOfSoundAlarm ==
    ASSUME NEW a \in Alarm, IsFault(a.status), Sound(a)
    PROVE  a.level = "FAULT" <=> HasFault(a.status \ {Token("DVW", FALSE)})
<1> DEFINE rest == a.status \ {Token("DVW", FALSE)}
<1>1. a.status \subseteq Tokens
  BY DEF Alarm
<1>2. \A t \in a.status : t = Token("DVW", FALSE) <=> t.flag = "DVW" /\ ~t.ignored
  <2>1. \A t \in Tokens : t = Token("DVW", FALSE) <=> t.flag = "DVW" /\ t.ignored = FALSE
    BY DEF Tokens, Token
  <2> QED BY <1>1, <2>1 DEF Tokens
<1>3. HasFault(rest) <=> \E t \in a.status : Genuine(t)
  BY <1>2 DEF HasFault, ErrorTokens, Genuine
<1>4. ASSUME ~\E t \in a.status : t.ignored \/ t.flag = "DVW"
      PROVE  \E t \in a.status : Genuine(t)
  <2>1. PICK t \in a.status : t.flag \notin NormalTokens
    BY <1>4 DEF IsFault
  <2> QED BY <1>4, <2>1 DEF Genuine, NormalTokens, OperatingFlags
<1> QED BY <1>3, <1>4 DEF Sound, StatusLevel

\* An entry of the log is a FAULT exactly when its status reports a hardware
\* error that no rule ignores, for every set of ignore rules and readings and
\* across renames and restarts.
THEOREM LevelCorrect == Spec => []LevelMeansHardware
<1>1. LogInv => LevelMeansHardware
  <2> SUFFICES ASSUME LogInv, NEW k \in Keys, NEW i \in DOMAIN log[k]
               PROVE  log[k][i].alarm.level = "FAULT" <=>
                          HasFault(log[k][i].alarm.status \ {Token("DVW", FALSE)})
    BY DEF LevelMeansHardware
  <2>1. log[k] \in Seq(Entries) /\ i \in 1..Len(log[k])
    BY DEF LogInv, TypeOK
  <2>2. log[k][i].alarm \in Alarm
    <3>1. log[k][i] \in Entries
      BY <2>1, ElementOfSeq
    <3> QED BY <3>1 DEF Entries
  <2>3. IsFault(log[k][i].alarm.status) /\ Sound(log[k][i].alarm)
    BY <2>1 DEF LogInv, FaithfulInv, Faithful
  <2> QED BY <2>2, <2>3, LevelOfSoundAlarm
<1> QED BY <1>1, LogInvariant, PTL

\* faultgrep --persistent misses no active FAULT, however often the daemon
\* has been restarted over the same log file.
THEOREM FaultgrepMissesNothing == Spec => []FaultgrepComplete
<1>1. LogInv => FaultgrepComplete
  <2> SUFFICES ASSUME LogInv, NEW k \in Keys, IsActive(k), prev[k].level = "FAULT"
               PROVE  \E i \in Persistent(k) : log[k][i].alarm.status = prev[k].status
    BY DEF FaultgrepComplete
  <2> DEFINE n == Len(log[k])
  <2>1. log[k] \in Seq(Entries) /\ log[k] # <<>> /\ log[k][n] = Entry("APPEAR", prev[k])
    BY DEF LogInv, TypeOK, FaithfulInv, Faithful, IsActive
  <2>2. n \in DOMAIN log[k] /\ \A j \in DOMAIN log[k] : ~(j > n)
    BY <2>1
  <2>3. n \in Persistent(k)
    BY <2>1, <2>2 DEF Persistent, Entry
  <2> QED BY <2>1, <2>3 DEF Entry
<1> QED BY <1>1, LogInvariant, PTL

\* Within one life of the daemon, the faults faultgrep --persistent lists are
\* exactly the active ones.
THEOREM FaultgrepCorrect == Spec => []FaultgrepExactInOneLife
<1>1. LogInv /\ FaultgrepComplete /\ restarts = 0 => FaultgrepExact
  <2> SUFFICES ASSUME LogInv, FaultgrepComplete, restarts = 0, NEW k \in Keys
               PROVE  {log[k][i].alarm.status : i \in Persistent(k)} =
                        IF IsActive(k) /\ prev[k].level = "FAULT" THEN {prev[k].status} ELSE {}
    BY DEF FaultgrepExact
  <2>1. log[k] \in Seq(Entries) /\ Paired(log[k], prev[k])
    BY DEF LogInv, TypeOK, PairedInv
  <2>2. ASSUME NEW i \in Persistent(k)
        PROVE  IsActive(k) /\ prev[k] = log[k][i].alarm /\ prev[k].level = "FAULT"
    <3>1. i \in 1..Len(log[k]) /\ log[k][i].dir = "APPEAR" /\ log[k][i].alarm.level = "FAULT"
      BY <2>1 DEF Persistent
    <3>2. ~(i < Len(log[k]) /\ log[k][i+1] = Entry("DISAPPEAR", log[k][i].alarm))
      <4> SUFFICES ASSUME i < Len(log[k]), log[k][i+1] = Entry("DISAPPEAR", log[k][i].alarm)
                   PROVE  FALSE
        OBVIOUS
      <4>1. i + 1 \in DOMAIN log[k] /\ i + 1 > i
        BY <2>1, <3>1
      <4> QED BY <3>1, <4>1 DEF Persistent, Entry
    <3> QED BY <2>1, <3>1, <3>2 DEF Paired, IsActive
  <2> QED BY <2>2 DEF FaultgrepComplete
<1>2. LogInv /\ FaultgrepComplete => FaultgrepExactInOneLife
  BY <1>1 DEF FaultgrepExactInOneLife
<1> QED BY <1>2, LogInvariant, FaultgrepMissesNothing, PTL

\* update() appends exactly the change from the old alarm to the new one.
Shown(a) == IF IsFault(a.status) THEN a ELSE NotTracked

LEMMA UpdateIsChange ==
    ASSUME NEW l \in Seq(Entries), NEW a \in Alarm, NEW b \in Alarm, Sound(a), Sound(b)
    PROVE  (l \o Gone(a, b.status)) \o New(a, b.status, b.level)
               = l \o Book!Change(Shown(a), Shown(b))
<1>0. [status |-> b.status, level |-> b.level] = b /\ ~IsFault(NotTracked.status)
  BY DEF Alarm, NotTracked, IsFault
<1>1. Gone(a, b.status) \in Seq(Entries) /\ New(a, b.status, b.level) \in Seq(Entries)
  BY <1>0, TokenTypes DEF Gone, New
<1>2. (l \o Gone(a, b.status)) \o New(a, b.status, b.level)
          = l \o (Gone(a, b.status) \o New(a, b.status, b.level))
  BY <1>1, ConcatAssociative
<1>3. Gone(a, b.status) \o New(a, b.status, b.level) = Book!Change(Shown(a), Shown(b))
  <2>1. CASE a.status = b.status
    <3>1. a = b
      BY <2>1 DEF Sound, Alarm
    <3>2. Gone(a, b.status) = <<>> /\ New(a, b.status, b.level) = <<>>
      BY <2>1 DEF Gone, New
    <3> QED BY <3>1, <3>2 DEF Book!Change
  <2>2. CASE a.status # b.status /\ (IsFault(a.status) \/ IsFault(b.status))
    <3>1. Shown(a) # Shown(b)
      BY <1>0, <2>2 DEF Shown
    <3>2. Gone(a, b.status) = Book!Ended(Shown(a))
      BY <1>0, <2>2 DEF Gone, Book!Ended, Shown, Entry, Book!Entry
    <3>3. New(a, b.status, b.level) = Book!Begun(Shown(b))
      BY <1>0, <2>2 DEF New, Book!Begun, Shown, Entry, Book!Entry
    <3> QED BY <3>1, <3>2, <3>3 DEF Book!Change
  <2>3. CASE a.status # b.status /\ ~IsFault(a.status) /\ ~IsFault(b.status)
    BY <2>3 DEF Gone, New, Shown, Book!Change
  <2> QED BY <2>1, <2>2, <2>3
<1> QED BY <1>2, <1>3

\* The tracker implements the abstract alarm log: every update and every end of cycle is a change of alarms that writes
\* each ended alarm, then each new one, and nothing else, and a restart forgets.
THEOREM TrackerRefinesAlarmLog == Spec => WritesAlarmLog
<1> DEFINE Act == [k \in Keys |-> IF IsActive(k) THEN prev[k] ELSE NotTracked]
<1>0. ~IsFault(NotTracked.status)
  BY DEF NotTracked, IsFault
<1>1. Init => Book!AlarmInit
  BY <1>0 DEF Init, Book!AlarmInit, IsActive
<1>2. LogInv /\ LogInv' /\ [Next]_vars => [Book!AlarmNext]_(Book!alarmVars)
  <2> SUFFICES ASSUME LogInv, LogInv', [Next]_vars
               PROVE  Book!AlarmNext \/ UNCHANGED Book!alarmVars
    OBVIOUS
  <2>0. /\ prev \in [Keys -> Alarm] /\ prev' \in [Keys -> Alarm]
        /\ log \in [Keys -> Seq(Entries)] /\ log' \in [Keys -> Seq(Entries)]
    BY DEF LogInv, TypeOK
  <2>1. Act' \in [Keys -> {a \in Alarm : IsFault(a.status)} \cup {NotTracked}]
    BY <2>0 DEF IsActive
  <2>11. ASSUME Restart PROVE Book!AlarmForget
    <3>1. Act' = [k \in Keys |-> NotTracked] /\ log' = log
      BY <1>0, <2>11 DEF Restart, IsActive
    <3> QED BY <3>1 DEF Book!AlarmForget
  <2>2. SUFFICES ASSUME ~Restart, NEW k \in Keys
                 PROVE  log'[k] = log[k] \o Book!Change(Act[k], Act'[k])
    BY <2>0, <2>1, <2>11 DEF Book!AlarmNext, Book!AlarmChange
  <2>3. Act[k] = Shown(prev[k]) /\ Act'[k] = Shown(prev'[k])
    BY DEF IsActive, Shown
  <2>4. /\ prev[k] \in Alarm /\ prev'[k] \in Alarm /\ Sound(prev[k]) /\ Sound(prev'[k])
        /\ log[k] \in Seq(Entries) /\ log[k] \o <<>> = log[k]
    BY <2>0, ConcatEmptySeq DEF LogInv, FaithfulInv
  <2>5. ASSUME prev'[k] = prev[k], log'[k] = log[k]
        PROVE  log'[k] = log[k] \o Book!Change(Act[k], Act'[k])
    BY <2>3, <2>4, <2>5 DEF Book!Change
  <2>6. ASSUME NEW j \in Keys, NEW status, NEW level, Update(j, status, level)
        PROVE  log'[k] = log[k] \o Book!Change(Act[k], Act'[k])
    <3>1. CASE j = k
      <4>1. prev'[k].status = status /\ prev'[k].level = level
        BY <2>0, <2>6, <3>1 DEF Update
      <4>2. log'[k] = (log[k] \o Gone(prev[k], status)) \o New(prev[k], status, level)
        BY <2>0, <2>6, <3>1 DEF Update, Gone, New
      <4>3. log'[k] = (log[k] \o Gone(prev[k], prev'[k].status))
                        \o New(prev[k], prev'[k].status, prev'[k].level)
        BY <4>1, <4>2
      <4> QED BY <2>3, <2>4, <4>3, UpdateIsChange
    <3>2. CASE j # k
      BY <2>0, <2>5, <2>6, <3>2 DEF Update
    <3> QED BY <3>1, <3>2
  <2>7. ASSUME NEW bd \in Boards, NEW bits \in BoardReadings, TrackBoard(bd, bits)
        PROVE  log'[k] = log[k] \o Book!Change(Act[k], Act'[k])
    BY <2>6, <2>7 DEF TrackBoard, Keys
  <2>8. ASSUME NEW ch \in Channels, NEW r \in PolledReadings, TrackChannel(ch, r)
        PROVE  log'[k] = log[k] \o Book!Change(Act[k], Act'[k])
    <3>1. name[ch] \in Keys
      BY DEF LogInv, TypeOK, Keys
    <3> QED BY <2>6, <2>8, <3>1 DEF TrackChannel
  <2>9. ASSUME EndCycle PROVE log'[k] = log[k] \o Book!Change(Act[k], Act'[k])
    <3>1. CASE k \in seen
      BY <2>5, <2>9, <3>1 DEF EndCycle
    <3>2. CASE k \notin seen /\ ~IsActive(k)
      <4>1. prev'[k] = NotTracked /\ log'[k] = log[k]
        BY <2>9, <3>2 DEF EndCycle
      <4> QED BY <1>0, <2>3, <2>4, <3>2, <4>1 DEF Shown, IsActive, Book!Change
    <3>3. CASE k \notin seen /\ IsActive(k)
      <4>1. prev'[k] = NotTracked /\ log'[k] = Append(log[k], Entry("DISAPPEAR", prev[k]))
        BY <2>9, <3>3 DEF EndCycle
      <4>2. Act[k] = prev[k] /\ Act'[k] = NotTracked /\ prev[k] # NotTracked
        BY <1>0, <2>3, <3>3, <4>1 DEF Shown, IsActive
      <4>3. Book!Change(Act[k], Act'[k]) = <<Entry("DISAPPEAR", prev[k])>> \o <<>>
        BY <4>2 DEF Book!Change, Book!Ended, Book!Begun, Book!Entry, Entry
      <4>4. Entry("DISAPPEAR", prev[k]) \in Entries
        BY <2>4, TokenTypes
      <4>5. <<Entry("DISAPPEAR", prev[k])>> \o <<>> = <<Entry("DISAPPEAR", prev[k])>>
        BY <4>4, ConcatEmptySeq
      <4> QED BY <2>4, <4>1, <4>3, <4>4, <4>5, AppendIsConcat
    <3> QED BY <3>1, <3>2, <3>3
  <2>10. CASE UNCHANGED <<prev, log>>
    BY <2>5, <2>10
  <2>12. ASSUME NEW ch \in Channels, NEW n \in Names, Rename(ch, n)
         PROVE  UNCHANGED <<prev, log>>
    BY <2>12 DEF Rename
  <2>13. ASSUME NEW up \in SUBSET Crates, StartCycle(up) PROVE UNCHANGED <<prev, log>>
    BY <2>13 DEF StartCycle
  <2>14. CASE UNCHANGED vars
    BY <2>10, <2>14 DEF vars
  <2> QED BY <2>7, <2>8, <2>9, <2>2, <2>10, <2>12, <2>13, <2>14 DEF Next
<1> QED BY <1>1, <1>2, LogInvariant, PTL DEF Spec, WritesAlarmLog, Book!AlarmSpec
-----------------------------------------------------------------------------
(***************************************************************************)
(* One cycle against the last complete one.                                *)
(***************************************************************************)
\* Between cycles the tracker holds what the last cycle left.  In a cycle, a
\* key not yet updated holds it still; the updated ones belong to boards and
\* bearers of names that have reported, and a key's only bearer, once updated,
\* does not report again.
CycleInv ==
    /\ ~tracking => prev = polled /\ seen = {}
    /\ \A k \in Keys \ seen : prev[k] = polled[k]
    /\ \A k \in seen : k \in Boards \/ \E ch \in Channels : name[ch] = k
    /\ \A bd \in Boards \cap seen : bd \notin todo
    /\ \A ch \in Channels : name[ch] \in seen /\ BorneByOne(name[ch]) => ch \notin todo

LEMMA CycleInit == Init => CycleInv
BY DEF Init, CycleInv

\* Reporting x, under a key it alone may report or not, keeps to the cycle.
LEMMA CycleUpdate ==
    ASSUME TypeOK, CycleInv, tracking, NEW x \in todo, NEW k \in Keys, NEW status, NEW level,
           Update(k, status, level), todo' = todo \ {x}, UNCHANGED <<name, tracking, polled>>,
           \/ x \in Boards /\ k = x
           \/ x \in Channels /\ k = name[x]
    PROVE  CycleInv'
<1>1. /\ seen' = seen \cup {k}
      /\ prev' = [prev EXCEPT ![k] = [status |-> status, level |-> level]]
  BY DEF Update
<1>2. \A j \in Keys \ seen' : prev'[j] = polled'[j]
  BY <1>1 DEF CycleInv, TypeOK
<1>3. \A j \in seen' : j \in Boards \/ \E ch \in Channels : name'[ch] = j
  BY <1>1 DEF CycleInv
<1>4. \A ch \in Channels : name[ch] \in Names
  BY DEF TypeOK
<1>5. \A bd \in Boards \cap seen' : bd \notin todo'
  BY <1>1, <1>4, TrackerAssumption DEF CycleInv
<1>6. ASSUME NEW ch \in Channels, name'[ch] \in seen', BorneByOne(name[ch])'
      PROVE  ch \notin todo'
  <2>1. BorneByOne(name[ch])
    BY <1>6 DEF BorneByOne
  <2>2. CASE name[ch] \in seen
    BY <2>1, <2>2 DEF CycleInv
  <2>3. CASE name[ch] = k
    <3>1. x \in Channels /\ name[x] = name[ch]
      BY <1>4, <2>3, TrackerAssumption
    <3>2. x = ch
      BY <2>1, <3>1 DEF BorneByOne
    <3> QED BY <3>2
  <2> QED BY <1>1, <1>6, <2>2, <2>3
<1> QED BY <1>2, <1>3, <1>5, <1>6 DEF CycleInv

LEMMA CycleStep == TypeOK /\ CycleInv /\ [Next]_vars => CycleInv'
<1> SUFFICES ASSUME TypeOK, CycleInv, [Next]_vars PROVE CycleInv'
  OBVIOUS
<1>1. ASSUME NEW ch \in Channels, NEW n \in Names, Rename(ch, n) PROVE CycleInv'
  <2>1. ~tracking' /\ prev' = polled' /\ seen' = {}
    BY <1>1 DEF Rename, CycleInv
  <2> QED BY <2>1 DEF CycleInv
<1>2. ASSUME NEW up \in SUBSET Crates, StartCycle(up) PROVE CycleInv'
  <2>1. prev' = polled' /\ seen' = {}
    BY <1>2 DEF StartCycle, CycleInv
  <2>2. tracking'
    BY <1>2 DEF StartCycle
  <2> QED BY <2>1, <2>2 DEF CycleInv
<1>3. ASSUME NEW bd \in Boards, NEW bits \in BoardReadings, TrackBoard(bd, bits) PROVE CycleInv'
  <2>1. /\ tracking /\ bd \in todo /\ bd \in Keys /\ todo' = todo \ {bd}
        /\ Update(bd, GetBdStatusString(bits), "FAULT") /\ UNCHANGED <<name, tracking, polled>>
    BY <1>3 DEF TrackBoard, Keys
  <2> QED BY <2>1, CycleUpdate
<1>4. ASSUME NEW ch \in Channels, NEW r \in PolledReadings, TrackChannel(ch, r) PROVE CycleInv'
  <2>1. name[ch] \in Keys
    BY DEF TypeOK, Keys
  <2>2. /\ tracking /\ ch \in todo /\ todo' = todo \ {ch} /\ UNCHANGED <<name, tracking, polled>>
        /\ Update(name[ch], TrackStatus(name[ch], r), LogLevel(name[ch], r))
    BY <1>4 DEF TrackChannel
  <2> QED BY <2>1, <2>2, CycleUpdate
<1>5. CASE EndCycle
  <2>1. prev' = polled' /\ seen' = {} /\ ~tracking'
    BY <1>5 DEF EndCycle
  <2> QED BY <2>1 DEF CycleInv
<1>6. CASE Restart
  <2>1. prev' = polled' /\ seen' = {}
    BY <1>6 DEF Restart, CycleInv
  <2> QED BY <2>1 DEF CycleInv
<1>7. CASE UNCHANGED vars
  BY <1>7 DEF vars, CycleInv, BorneByOne
<1> QED BY <1>1, <1>2, <1>3, <1>4, <1>5, <1>6, <1>7 DEF Next

\* What two appended pieces add to a sequence.
LEMMA ConcatAdds ==
    ASSUME NEW S, NEW p \in Seq(S), NEW q \in Seq(S), NEW r \in Seq(S),
           NEW i \in DOMAIN ((p \o q) \o r) \ DOMAIN p
    PROVE  \/ \E n \in 1..Len(q) : ((p \o q) \o r)[i] = q[n]
           \/ \E n \in 1..Len(r) : ((p \o q) \o r)[i] = r[n]
<1>1. PICK pq \in Seq(S) : pq = p \o q
  BY ConcatProperties
<1>2. PICK m \in Seq(S) : m = pq \o r
  BY <1>1, ConcatProperties
<1>3. Len(pq) = Len(p) + Len(q) /\ \A n \in (Len(p)+1)..Len(pq) : pq[n] = q[n - Len(p)]
  BY <1>1
<1>4. /\ Len(m) = Len(pq) + Len(r) /\ \A n \in 1..Len(pq) : m[n] = pq[n]
      /\ \A n \in (Len(pq)+1)..Len(m) : m[n] = r[n - Len(pq)]
  BY <1>2
<1>5. i \in (Len(p)+1)..Len(m) /\ Len(p) \in Nat /\ Len(pq) \in Nat /\ Len(r) \in Nat /\ Len(q) \in Nat
  BY <1>1, <1>2
<1>6. CASE i <= Len(pq)
  <2>1. m[i] = q[i - Len(p)] /\ i - Len(p) \in 1..Len(q)
    BY <1>3, <1>4, <1>5, <1>6
  <2> QED BY <1>1, <1>2, <2>1
<1>7. CASE i > Len(pq)
  <2>1. m[i] = r[i - Len(pq)] /\ i - Len(pq) \in 1..Len(r)
    BY <1>4, <1>5, <1>7
  <2> QED BY <1>1, <1>2, <2>1
<1>8. i <= Len(pq) \/ i > Len(pq)
  BY <1>5
<1> QED BY <1>6, <1>7, <1>8, Zenon

\* The only APPEAR update() writes is that of a status the key did not have.
LEMMA UpdateAppears ==
    ASSUME TypeOK, NEW k \in Keys, NEW status \in SUBSET Tokens, NEW level \in Levels,
           Update(k, status, level),
           NEW j \in Keys, NEW i \in DOMAIN log'[j] \ DOMAIN log[j], log'[j][i].dir = "APPEAR"
    PROVE  j = k /\ log'[j][i].alarm.status # prev[j].status
<1>1. prev[k] \in Alarm /\ log[k] \in Seq(Entries) /\ log \in [Keys -> Seq(Entries)]
  BY DEF TypeOK
<1>2. j = k
  BY <1>1 DEF Update
<1>3. PICK g \in Seq(Entries), n \in Seq(Entries) :
         g = Gone(prev[k], status) /\ n = New(prev[k], status, level)
  <2>1. Entry("DISAPPEAR", prev[k]) \in Entries
    BY <1>1, TokenTypes
  <2>2. Entry("APPEAR", [status |-> status, level |-> level]) \in Entries
    BY TokenTypes
  <2>3. Gone(prev[k], status) \in Seq(Entries) /\ New(prev[k], status, level) \in Seq(Entries)
    BY <2>1, <2>2 DEF Gone, New
  <2> QED BY <2>3
<1>4. log'[k] = (log[k] \o g) \o n
  BY <1>1, <1>3 DEF Update, Gone, New
<1>5. \/ \E x \in 1..Len(g) : log'[k][i] = g[x]
      \/ \E x \in 1..Len(n) : log'[k][i] = n[x]
  BY <1>1, <1>2, <1>4, ConcatAdds
<1>6. \A x \in 1..Len(g) : g[x] = Entry("DISAPPEAR", prev[k])
  BY <1>3 DEF Gone
<1>7. \A x \in 1..Len(n) : /\ n[x] = Entry("APPEAR", [status |-> status, level |-> level])
                           /\ prev[k].status # status
  BY <1>3 DEF New
<1> QED BY <1>2, <1>5, <1>6, <1>7 DEF Entry

\* An APPEAR under a name one channel bears is a status that the last complete
\* poll did not find there; and the alarms open after a cycle are of boards
\* and names the cycle has read.
THEOREM AppearsAreNew == Spec => NewWhenOpenedClosedWhenGone
<1> DEFINE Fresh == \A k \in Keys : \A i \in DOMAIN log'[k] \ DOMAIN log[k] :
                        BorneByOne(k) /\ log'[k][i].dir = "APPEAR" =>
                            log'[k][i].alarm.status # polled[k].status
           Read == EndCycle => \A k \in Keys : IsActive(k)' =>
                        \/ k \in Boards /\ k \in seen
                        \/ \E ch \in Channels : name[ch] = k /\ k \in seen
<1>1. TypeOK /\ TypeOK' /\ CycleInv /\ [Next]_vars => [Fresh]_vars
  <2> SUFFICES ASSUME TypeOK, TypeOK', CycleInv, Next,
                      NEW k \in Keys, NEW i \in DOMAIN log'[k] \ DOMAIN log[k],
                      BorneByOne(k), log'[k][i].dir = "APPEAR"
               PROVE  log'[k][i].alarm.status # polled[k].status
    OBVIOUS
  <2>1. ASSUME NEW bd \in Boards, NEW bits \in BoardReadings, TrackBoard(bd, bits)
        PROVE  log'[k][i].alarm.status # polled[k].status
    <3>1. bits \in SUBSET BoardFlags /\ bd \in Keys /\ bd \in todo
      BY <2>1, TrackerAssumption DEF Keys, TrackBoard
    <3>2. k = bd /\ log'[k][i].alarm.status # prev[k].status
      BY <2>1, <3>1, BoardTypes, UpdateAppears DEF TrackBoard, Levels
    <3>3. k \notin seen
      BY <3>1, <3>2 DEF CycleInv
    <3> QED BY <3>2, <3>3 DEF CycleInv
  <2>2. ASSUME NEW ch \in Channels, NEW r \in PolledReadings, TrackChannel(ch, r)
        PROVE  log'[k][i].alarm.status # polled[k].status
    <3>1. r \in Readings /\ name[ch] \in Names /\ name[ch] \in Keys /\ ch \in todo
      BY <2>2, TrackerAssumption DEF Keys, TypeOK, TrackChannel
    <3>2. k = name[ch] /\ log'[k][i].alarm.status # prev[k].status
      BY <2>2, <3>1, ChannelTypes, UpdateAppears DEF TrackChannel
    <3>3. k \notin seen
      BY <3>1, <3>2 DEF CycleInv
    <3> QED BY <3>2, <3>3 DEF CycleInv
  <2>3. CASE EndCycle
    <3>1. log[k] \in Seq(Entries) /\ Entry("DISAPPEAR", prev[k]) \in Entries
      BY TokenTypes DEF TypeOK
    <3>2. CASE log'[k] = log[k]
      BY <3>2
    <3>3. CASE log'[k] = Append(log[k], Entry("DISAPPEAR", prev[k]))
      <4>1. i = Len(log[k]) + 1 /\ log'[k][i] = Entry("DISAPPEAR", prev[k])
        BY <3>1, <3>3, AppendProperties
      <4> QED BY <4>1 DEF Entry
    <3> QED BY <2>3, <3>2, <3>3 DEF EndCycle
  <2>4. CASE UNCHANGED log
    BY <2>4
  <2> QED BY <2>1, <2>2, <2>3, <2>4 DEF Next, Rename, StartCycle, Restart
<1>2. TypeOK /\ CycleInv /\ [Next]_vars => [Read]_vars
  <2> SUFFICES ASSUME TypeOK, CycleInv, EndCycle, NEW k \in Keys, IsActive(k)'
               PROVE  \/ k \in Boards /\ k \in seen
                      \/ \E ch \in Channels : name[ch] = k /\ k \in seen
    OBVIOUS
  <2>1. ~IsFault(NotTracked.status)
    BY DEF NotTracked, IsFault
  <2>2. k \in seen
    BY <2>1 DEF EndCycle, IsActive
  <2> QED BY <2>2 DEF CycleInv
<1>3. Spec => []TypeOK /\ []CycleInv
  BY TypeInit, TypeStep, CycleInit, CycleStep, PTL DEF Spec
<1> HIDE DEF Fresh, Read
<1>4. Spec => [][Fresh]_vars /\ [][Read]_vars
  BY <1>1, <1>2, <1>3, PTL DEF Spec
<1> QED BY <1>4 DEF NewWhenOpenedClosedWhenGone, Fresh, Read

-----------------------------------------------------------------------------
(***************************************************************************)
(* FaultFeed.  What a page keeps and what is on its way to it are taken    *)
(* together: a list of parts, of which the first is the page's list.  A    *)
(* message adds a part at the end, the page's handler joins the first two. *)
(***************************************************************************)

\* q is s without what is too much at its start.
EndOf(s, q) ==
    \E k \in 0..Len(s) :
        /\ Len(q) = Len(s) - k
        /\ \A i \in 1..Len(s) - k : q[i] = s[i + k]
        /\ k = IF Len(s) > Capacity THEN Len(s) - Capacity ELSE 0

\* What pushFaultLogEntry and receiveFaultBuffer leave of a list.
LEMMA NewestKeepsEnd ==
    ASSUME NEW S, NEW s \in Seq(S)
    PROVE  Newest(s) \in Seq(S) /\ EndOf(s, Newest(s))
<1> Capacity \in Nat /\ Len(s) \in Nat
  BY FeedAssumption, LenProperties
<1>1. CASE Len(s) > Capacity
  <2> PICK k \in 0..Len(s) : k = Len(s) - Capacity
    BY <1>1
  <2>1. Newest(s) = SubSeq(s, k + 1, Len(s))
    BY <1>1 DEF Newest
  <2>2. k + 1 \in 1..Len(s) + 1 /\ Len(s) \in k..Len(s)
    BY <1>1
  <2>3. /\ SubSeq(s, k + 1, Len(s)) \in Seq(S)
        /\ Len(SubSeq(s, k + 1, Len(s))) = Len(s) - (k + 1) + 1
        /\ \A i \in 1..Len(s) - (k + 1) + 1 : SubSeq(s, k + 1, Len(s))[i] = s[k + 1 + i - 1]
    BY <2>2, SubSeqProperties
  <2>4. /\ Newest(s) \in Seq(S) /\ Len(Newest(s)) = Len(s) - k
        /\ \A i \in 1..Len(s) - k : Newest(s)[i] = s[i + k]
    BY <2>1, <2>3
  <2> QED BY <1>1, <2>1, <2>4 DEF EndOf
<1>2. CASE ~(Len(s) > Capacity)
  <2>1. Newest(s) = s /\ SubSeq(s, 1, Len(s)) = s
    BY <1>2, SubSeqFull DEF Newest
  <2>2. 0 \in 0..Len(s) /\ Len(s) - 0 = Len(s) /\ 0 + 1 = 1 /\ \A i \in 1..Len(s) : i + 0 = i
    OBVIOUS
  <2> QED BY <1>2, <2>1, <2>2 DEF EndOf
<1> QED BY <1>1, <1>2

Numbered(items, base) == \A i \in 1..Len(items) : items[i].seq = base + i

\* r is the rest of items after the last one not newer than v.
SuffixAfter(items, v, r) ==
    \E k \in 0..Len(items) :
        /\ r \in Seq(Items)
        /\ Len(r) = Len(items) - k
        /\ \A i \in 1..Len(items) - k : r[i] = items[i + k]
        /\ \A i \in 1..k : items[i].seq <= v
        /\ \A i \in k+1..Len(items) : items[i].seq > v

\* dumpSince_ on a ring, whose entries are numbered without a gap: it returns
\* the entries newer than v, all of them and no other.
LEMMA NewerThanIsSuffix ==
    ASSUME NEW items \in Seq(Items), NEW v \in Nat, NEW base \in Nat, Numbered(items, base)
    PROVE  SuffixAfter(items, v, NewerThan(items, v))
<1>0. \A i \in 1..Len(items) : items[i].seq = base + i
  BY DEF Numbered
<1> DEFINE Stops(k) ==
      /\ k > 0 => items[k].seq <= v
      /\ \A i \in k+1..Len(items) : items[i].seq > v
<1>1. Len(items) \in Nat
  BY LenProperties
<1>2. \E k \in 0..Len(items) : Stops(k)
  <2>1. CASE v < base
    <3>1. 0 \in 0..Len(items)
      BY <1>1
    <3>2. \A i \in 0+1..Len(items) : items[i].seq > v
      BY <1>0, <1>1, <2>1
    <3>3. Stops(0)
      BY <3>2
    <3> QED BY <3>1, <3>3
  <2>2. CASE v >= base /\ v - base < Len(items)
    <3> PICK k \in 0..Len(items) : k = v - base
      BY <1>1, <2>2
    <3>1. k > 0 => items[k].seq <= v
      BY <1>0, <1>1
    <3>2. \A i \in k+1..Len(items) : items[i].seq > v
      BY <1>0, <1>1
    <3> QED BY <3>1, <3>2
  <2>3. CASE v - base >= Len(items)
    <3> PICK k \in 0..Len(items) : k = Len(items)
      BY <1>1
    <3>1. k > 0 => items[k].seq <= v
      BY <1>0, <1>1, <2>3
    <3>2. \A i \in k+1..Len(items) : items[i].seq > v
      BY <1>1
    <3> QED BY <3>1, <3>2
  <2>4. v < base \/ (v >= base /\ v - base < Len(items)) \/ v - base >= Len(items)
    BY <1>1
  <2> HIDE DEF Stops
  <2> QED BY <2>1, <2>2, <2>3, <2>4
<1>3. PICK k \in 0..Len(items) : k = CHOOSE j \in 0..Len(items) : Stops(j)
  BY <1>2
<1>4. Stops(k)
  BY <1>2, <1>3
<1>5. NewerThan(items, v) = SubSeq(items, k + 1, Len(items))
  BY <1>3 DEF NewerThan
<1> HIDE DEF Stops
<1>6. /\ SubSeq(items, k + 1, Len(items)) \in Seq(Items)
      /\ Len(SubSeq(items, k + 1, Len(items))) = Len(items) - (k + 1) + 1
      /\ \A i \in 1..Len(items) - (k + 1) + 1 :
            SubSeq(items, k + 1, Len(items))[i] = items[k + 1 + i - 1]
  <2>1. CASE k < Len(items)
    <3>1. k + 1 \in 1..Len(items) + 1 /\ Len(items) \in k..Len(items)
      BY <1>1
    <3> QED BY <3>1, SubSeqProperties
  <2>2. CASE k = Len(items)
    <3>1. k + 1 \in 1..Len(items) + 1 /\ Len(items) \in k..Len(items)
      BY <1>1, <2>2
    <3> QED BY <3>1, SubSeqProperties
  <2> QED BY <1>1, <2>1, <2>2
<1>7. /\ NewerThan(items, v) \in Seq(Items)
      /\ Len(NewerThan(items, v)) = Len(items) - k
      /\ \A i \in 1..Len(items) - k : NewerThan(items, v)[i] = items[i + k]
  BY <1>1, <1>5, <1>6
<1>8. \A i \in 1..k : items[i].seq <= v
  <2> SUFFICES ASSUME NEW i \in 1..k PROVE items[i].seq <= v
    OBVIOUS
  <2>1. k > 0 /\ k \in 1..Len(items) /\ i \in 1..Len(items)
    BY <1>1
  <2>2. items[k].seq <= v /\ items[k].seq = base + k /\ items[i].seq = base + i
    BY <1>0, <1>4, <2>1 DEF Stops
  <2> QED BY <1>1, <2>2
<1>9. \A i \in k+1..Len(items) : items[i].seq > v
  BY <1>4 DEF Stops
<1> QED BY <1>7, <1>8, <1>9 DEF SuffixAfter

\* Later entries of a part carry higher numbers, at least one more each.
Spread(s) == \A i, j \in 1..Len(s) : i <= j => s[i].seq + (j - i) <= s[j].seq

\* P[0], ..., P[n] are parts of a list that ends at hi at the latest.
Orderly(P, n, hi) ==
    /\ \A k \in 0..n : P[k] \in Seq(Items) /\ Spread(P[k])
    /\ Len(P[0]) <= Capacity
    /\ \A j, k \in 0..n : j < k =>
          \A i \in 1..Len(P[j]), m \in 1..Len(P[k]) : P[j][i].seq < P[k][m].seq
    /\ \A k \in 0..n : \A i \in 1..Len(P[k]) : P[k][i].seq <= hi

\* None of the newest Capacity entries up to hi is missing.
Window(P, n, hi) ==
    \A x \in 1..hi : x + Capacity > hi =>
        \E k \in 0..n : \E i \in 1..Len(P[k]) : P[k][i].seq = x

\* The numbers of a list are natural.
LEMMA NumbersAreNat ==
    ASSUME NEW s \in Seq(Items)
    PROVE  Len(s) \in Nat /\ \A i \in 1..Len(s) : s[i].seq \in Nat
<1>1. Len(s) \in Nat /\ \A i \in 1..Len(s) : s[i] \in Items
  BY LenProperties, ElementOfSeq
<1> QED BY <1>1 DEF Items

\* A message with newer entries is sent: the list grows by a part.
LEMMA PartAdded ==
    ASSUME NEW n \in Nat, NEW P, NEW Q, NEW hi \in Nat, NEW hi2 \in Nat,
           Orderly(P, n, hi), hi <= hi2,
           \A k \in 0..n : Q[k] = P[k],
           NEW r \in Seq(Items), Q[n+1] = r, Spread(r),
           \A i \in 1..Len(r) : hi < r[i].seq /\ r[i].seq <= hi2
    PROVE  /\ Orderly(Q, n + 1, hi2)
           /\ (/\ Window(P, n, hi)
               /\ \A x \in hi+1..hi2 : x + Capacity > hi2 =>
                      \E i \in 1..Len(r) : r[i].seq = x)
              => Window(Q, n + 1, hi2)
<1> Capacity \in Nat
  BY FeedAssumption
<1>1. \A k \in 0..n+1 : (k \in 0..n /\ Q[k] = P[k]) \/ (k = n + 1 /\ Q[k] = r)
  OBVIOUS
<1>2. \A k \in 0..n+1 : Q[k] \in Seq(Items) /\ Spread(Q[k])
  BY <1>1 DEF Orderly
<1>3. Len(Q[0]) <= Capacity
  <2>1. Q[0] = P[0]
    OBVIOUS
  <2> QED BY <2>1 DEF Orderly
<1>4. ASSUME NEW j \in 0..n+1, NEW k \in 0..n+1, j < k,
             NEW i \in 1..Len(Q[j]), NEW m \in 1..Len(Q[k])
      PROVE  Q[j][i].seq < Q[k][m].seq
  <2>1. j \in 0..n /\ Q[j] = P[j]
    BY <1>4
  <2>2. CASE k \in 0..n
    <3>1. Q[k] = P[k]
      BY <2>2
    <3> QED BY <1>4, <2>1, <2>2, <3>1 DEF Orderly
  <2>3. CASE k = n + 1
    <3>1. P[j] \in Seq(Items) /\ i \in 1..Len(P[j]) /\ P[j][i].seq <= hi
      BY <2>1 DEF Orderly
    <3>2. P[j][i].seq \in Nat
      BY <3>1, NumbersAreNat
    <3>3. m \in 1..Len(r) /\ Q[k] = r
      BY <2>3
    <3>4. r[m].seq \in Nat /\ hi < r[m].seq
      BY <3>3, NumbersAreNat
    <3>5. P[j][i].seq < r[m].seq
      BY <3>1, <3>2, <3>4
    <3> QED BY <2>1, <3>3, <3>5
  <2> QED BY <2>2, <2>3
<1>5. ASSUME NEW k \in 0..n+1, NEW i \in 1..Len(Q[k])
      PROVE  Q[k][i].seq <= hi2
  <2>1. CASE k \in 0..n
    <3>1. Q[k] = P[k] /\ P[k] \in Seq(Items) /\ i \in 1..Len(P[k]) /\ P[k][i].seq <= hi
      BY <2>1 DEF Orderly
    <3>2. P[k][i].seq \in Nat
      BY <3>1, NumbersAreNat
    <3>3. P[k][i].seq <= hi2
      BY <3>1, <3>2
    <3> QED BY <3>1, <3>3
  <2>2. CASE k = n + 1
    BY <2>2
  <2> QED BY <2>1, <2>2
<1>6. Orderly(Q, n + 1, hi2)
  BY <1>2, <1>3, <1>4, <1>5 DEF Orderly
<1>7. ASSUME Window(P, n, hi),
             \A x \in hi+1..hi2 : x + Capacity > hi2 => \E i \in 1..Len(r) : r[i].seq = x,
             NEW x \in 1..hi2, x + Capacity > hi2
      PROVE  \E k \in 0..n+1 : \E i \in 1..Len(Q[k]) : Q[k][i].seq = x
  <2>1. CASE x <= hi
    <3>1. x \in 1..hi /\ x + Capacity > hi
      BY <1>7, <2>1
    <3>2. PICK k \in 0..n : \E i \in 1..Len(P[k]) : P[k][i].seq = x
      BY <1>7, <3>1 DEF Window
    <3>3. k \in 0..n+1 /\ Q[k] = P[k]
      OBVIOUS
    <3> QED BY <3>2, <3>3
  <2>2. CASE x > hi
    <3>1. x \in hi+1..hi2
      BY <2>2
    <3>2. \E i \in 1..Len(r) : r[i].seq = x
      BY <1>7, <3>1
    <3>3. n + 1 \in 0..n+1
      OBVIOUS
    <3> QED BY <3>2, <3>3
  <2> QED BY <2>1, <2>2
<1> QED BY <1>6, <1>7 DEF Window

LEMMA DistanceAcross ==
    ASSUME NEW a \in Nat, NEW b \in Nat, NEW c \in Nat, NEW d \in Nat,
           NEW i \in Nat, NEW m \in Nat, NEW n \in Nat,
           a + (n - i) <= b, b < c, c + (m - 1) <= d
    PROVE  a + ((n + m) - i) <= d
OBVIOUS

\* u is s followed by t.
Joins(s, t, u) ==
    /\ Len(u) = Len(s) + Len(t)
    /\ \A i \in 1..Len(s) : i \in 1..Len(u) /\ u[i] = s[i]
    /\ \A m \in 1..Len(t) : Len(s) + m \in 1..Len(u) /\ u[Len(s) + m] = t[m]
    /\ \A i \in 1..Len(u) : i \in 1..Len(s) \/ \E m \in 1..Len(t) : i = Len(s) + m

LEMMA ConcatJoins ==
    ASSUME NEW s \in Seq(Items), NEW t \in Seq(Items)
    PROVE  s \o t \in Seq(Items) /\ Joins(s, t, s \o t)
<1> PICK u : u = s \o t
  OBVIOUS
<1>1. /\ u \in Seq(Items) /\ Len(u) = Len(s) + Len(t)
      /\ \A i \in 1..Len(s) + Len(t) : u[i] = IF i <= Len(s) THEN s[i] ELSE t[i - Len(s)]
  BY ConcatProperties
<1>2. PICK a \in Nat : a = Len(s)
  BY LenProperties
<1>3. PICK b \in Nat : b = Len(t)
  BY LenProperties
<1>4. \A i \in 1..a : i \in 1..a+b /\ u[i] = s[i]
  BY <1>1, <1>2, <1>3
<1>5. ASSUME NEW m \in 1..b PROVE a + m \in 1..a+b /\ u[a+m] = t[m]
  <2>1. a + m \in 1..a+b /\ ~(a + m <= a) /\ (a + m) - a = m
    OBVIOUS
  <2>2. u[a+m] = IF a + m <= a THEN s[a+m] ELSE t[(a+m)-a]
    BY <1>1, <1>2, <1>3, <2>1
  <2> QED BY <2>1, <2>2
<1>6. ASSUME NEW i \in 1..a+b, ~(i \in 1..a) PROVE \E m \in 1..b : i = a + m
  <2>1. i - a \in 1..b /\ i = a + (i - a)
    BY <1>6
  <2> QED BY <2>1
<1> QED BY <1>1, <1>2, <1>3, <1>4, <1>5, <1>6 DEF Joins

\* Joining two lists keeps their entries' distances.
LEMMA SpreadConcat ==
    ASSUME NEW s \in Seq(Items), NEW t \in Seq(Items), NEW u, Joins(s, t, u),
           Spread(s), Spread(t),
           \A i \in 1..Len(s), m \in 1..Len(t) : s[i].seq < t[m].seq
    PROVE  Spread(u)
<1>1. /\ Len(s) \in Nat /\ \A i \in 1..Len(s) : s[i].seq \in Nat
      /\ Len(t) \in Nat /\ \A i \in 1..Len(t) : t[i].seq \in Nat
  BY NumbersAreNat
<1>2. PICK n \in Nat : n = Len(s)
  BY <1>1
<1>3. ASSUME NEW i \in 1..Len(u), NEW j \in 1..Len(u), i <= j
      PROVE  u[i].seq + (j - i) <= u[j].seq
  <2>1. CASE i \in 1..Len(s) /\ j \in 1..Len(s)
    <3>1. u[i] = s[i] /\ u[j] = s[j]
      BY <2>1 DEF Joins
    <3>2. s[i].seq + (j - i) <= s[j].seq
      BY <1>3, <2>1 DEF Spread
    <3> QED BY <3>1, <3>2
  <2>2. ASSUME NEW a \in 1..Len(t), NEW b \in 1..Len(t), i = n + a, j = n + b
        PROVE  u[i].seq + (j - i) <= u[j].seq
    <3>1. u[i] = t[a] /\ u[j] = t[b]
      BY <1>2, <2>2 DEF Joins
    <3>2. a <= b /\ j - i = b - a
      BY <1>1, <1>3, <2>2
    <3>3. t[a].seq + (b - a) <= t[b].seq
      BY <3>2 DEF Spread
    <3> QED BY <3>1, <3>2, <3>3
  <2>3. ASSUME i \in 1..Len(s), NEW b \in 1..Len(t), j = n + b
        PROVE  u[i].seq + (j - i) <= u[j].seq
    <3>1. u[i] = s[i] /\ u[j] = t[b]
      BY <1>2, <2>3 DEF Joins
    <3>2. n \in 1..Len(s) /\ i <= n
      BY <1>1, <1>2, <2>3
    <3>3. s[i].seq + (n - i) <= s[n].seq
      BY <2>3, <3>2 DEF Spread
    <3>4. 1 \in 1..Len(t) /\ 1 <= b
      BY <1>1
    <3>5. t[1].seq + (b - 1) <= t[b].seq
      BY <3>4 DEF Spread
    <3>6. s[n].seq < t[1].seq
      BY <3>2, <3>4
    <3>7. s[i].seq \in Nat /\ s[n].seq \in Nat /\ t[1].seq \in Nat /\ t[b].seq \in Nat
      BY <1>1, <2>3, <3>2, <3>4
    <3>8. i \in Nat /\ b \in Nat
      BY <1>1, <2>3
    <3>9. s[i].seq + ((n + b) - i) <= t[b].seq
      BY <3>3, <3>5, <3>6, <3>7, <3>8, DistanceAcross
    <3> QED BY <2>3, <3>1, <3>9
  <2>4. ASSUME NEW a \in 1..Len(t), i = n + a, j \in 1..Len(s)
        PROVE  FALSE
    BY <1>1, <1>2, <1>3, <2>4
  <2>5. /\ i \in 1..Len(s) \/ \E m \in 1..Len(t) : i = n + m
        /\ j \in 1..Len(s) \/ \E m \in 1..Len(t) : j = n + m
    BY <1>2 DEF Joins
  <2> QED BY <2>1, <2>2, <2>3, <2>4, <2>5
<1> QED BY <1>3 DEF Spread

\* q is the end of u that fits.
Trims(u, q) ==
    \E d \in Nat :
        /\ Len(q) <= Capacity
        /\ d > 0 => d + Capacity = Len(u)
        /\ \A i \in 1..Len(q) : i + d \in 1..Len(u) /\ q[i] = u[i + d]
        /\ \A y \in 1..Len(u) : y > d => y - d \in 1..Len(q) /\ q[y - d] = u[y]

LEMMA NewestTrims ==
    ASSUME NEW u \in Seq(Items)
    PROVE  Newest(u) \in Seq(Items) /\ Trims(u, Newest(u))
<1> Capacity \in Nat /\ Len(u) \in Nat
  BY FeedAssumption, LenProperties
<1> PICK q \in Seq(Items) : q = Newest(u)
  BY NewestKeepsEnd
<1>1. PICK d \in 0..Len(u) :
         /\ Len(q) = Len(u) - d
         /\ \A i \in 1..Len(u) - d : q[i] = u[i + d]
         /\ d = IF Len(u) > Capacity THEN Len(u) - Capacity ELSE 0
  BY NewestKeepsEnd DEF EndOf
<1>2. PICK n \in Nat : n = Len(u)
  OBVIOUS
<1>3. d \in Nat /\ n - d <= Capacity /\ (d > 0 => d + Capacity = n)
  <2>1. d \in Nat /\ d = IF n > Capacity THEN n - Capacity ELSE 0
    BY <1>1, <1>2
  <2>2. CASE n > Capacity
    BY <2>1, <2>2
  <2>3. CASE ~(n > Capacity)
    BY <2>1, <2>3
  <2> QED BY <2>2, <2>3
<1>4. \A i \in 1..n - d : i + d \in 1..n /\ q[i] = u[i + d]
  <2>1. \A i \in 1..n - d : i + d \in 1..n
    BY <1>3
  <2>2. \A i \in 1..n - d : q[i] = u[i + d]
    BY <1>1, <1>2
  <2> QED BY <2>1, <2>2
<1>5. ASSUME NEW y \in 1..n, y > d PROVE y - d \in 1..n-d /\ q[y - d] = u[y]
  <2>1. y - d \in 1..n-d /\ (y - d) + d = y
    BY <1>3, <1>5
  <2> QED BY <1>4, <2>1
<1> QED BY <1>1, <1>2, <1>3, <1>4, <1>5 DEF Trims

\* The page handles a message: the first two parts become one, cut to the
\* capacity.  What is cut off is older than the window.
LEMMA PartsJoined ==
    ASSUME NEW n \in Nat \ {0}, NEW P, NEW Q, NEW hi \in Nat, Orderly(P, n, hi),
           NEW s \in Seq(Items), s = P[0], NEW t \in Seq(Items), t = P[1],
           NEW kept \in Seq(Items), Joins(s, t, kept),
           NEW q \in Seq(Items), Trims(kept, q), Q[0] = q,
           \A k \in 1..n-1 : Q[k] = P[k+1]
    PROVE  /\ Orderly(Q, n - 1, hi)
           /\ Window(P, n, hi) => Window(Q, n - 1, hi)
<1> Capacity \in Nat
  BY FeedAssumption
<1>1. /\ Spread(s) /\ Spread(t)
      /\ \A i \in 1..Len(s), m \in 1..Len(t) : s[i].seq < t[m].seq
      /\ \A i \in 1..Len(s) : s[i].seq <= hi
      /\ \A i \in 1..Len(t) : t[i].seq <= hi
  <2>1. 0 \in 0..n /\ 1 \in 0..n /\ 0 < 1
    OBVIOUS
  <2> QED BY <2>1 DEF Orderly
<1>2. Spread(kept)
  BY <1>1, SpreadConcat
<1>3. \A i \in 1..Len(kept) :
         \/ i \in 1..Len(s) /\ kept[i] = s[i]
         \/ \E m \in 1..Len(t) : i = Len(s) + m /\ kept[i] = t[m]
  <2> SUFFICES ASSUME NEW i \in 1..Len(kept)
               PROVE  \/ i \in 1..Len(s) /\ kept[i] = s[i]
                      \/ \E m \in 1..Len(t) : i = Len(s) + m /\ kept[i] = t[m]
    OBVIOUS
  <2>1. CASE i \in 1..Len(s)
    BY <2>1 DEF Joins
  <2>2. ASSUME NEW m \in 1..Len(t), i = Len(s) + m
        PROVE  kept[i] = t[m]
    BY <2>2 DEF Joins
  <2>3. i \in 1..Len(s) \/ \E m \in 1..Len(t) : i = Len(s) + m
    BY DEF Joins
  <2> QED BY <2>1, <2>2, <2>3
<1>4. \A i \in 1..Len(kept) : kept[i].seq \in Nat /\ kept[i].seq <= hi
  BY <1>1, <1>3, NumbersAreNat
<1>5. PICK d \in Nat :
        /\ Len(q) <= Capacity
        /\ d > 0 => d + Capacity = Len(kept)
        /\ \A i \in 1..Len(q) : i + d \in 1..Len(kept) /\ q[i] = kept[i + d]
        /\ \A y \in 1..Len(kept) : y > d => y - d \in 1..Len(q) /\ q[y - d] = kept[y]
  BY DEF Trims
<1>6. Len(kept) \in Nat /\ Len(q) \in Nat
  BY LenProperties
<1>7. Spread(q)
  <2>1. ASSUME NEW i \in 1..Len(q), NEW j \in 1..Len(q), i <= j
        PROVE  q[i].seq + (j - i) <= q[j].seq
    <3>1. i + d \in 1..Len(kept) /\ j + d \in 1..Len(kept)
      BY <1>5
    <3>2. i + d <= j + d /\ (j + d) - (i + d) = j - i
      BY <1>6, <2>1
    <3>3. kept[i+d].seq + ((j + d) - (i + d)) <= kept[j+d].seq
      BY <1>2, <3>1, <3>2 DEF Spread
    <3> QED BY <1>5, <3>2, <3>3
  <2> QED BY <2>1 DEF Spread
<1>8. \A i \in 1..Len(q) : q[i].seq <= hi
  BY <1>4, <1>5
<1>9. \A k \in 0..n-1 : (k = 0 /\ Q[k] = q) \/ (k # 0 /\ k + 1 \in 0..n /\ Q[k] = P[k+1])
  OBVIOUS
<1>10. \A k \in 0..n-1 : Q[k] \in Seq(Items) /\ Spread(Q[k])
  BY <1>7, <1>9 DEF Orderly
<1>11. ASSUME NEW j \in 0..n-1, NEW k \in 0..n-1, j < k,
              NEW i \in 1..Len(Q[j]), NEW m \in 1..Len(Q[k])
       PROVE  Q[j][i].seq < Q[k][m].seq
  <2>1. k + 1 \in 0..n /\ Q[k] = P[k+1]
    BY <1>9, <1>11
  <2>2. CASE j = 0
    <3>1. Q[j] = q /\ i \in 1..Len(q) /\ i + d \in 1..Len(kept) /\ q[i] = kept[i+d]
      BY <1>5, <1>9, <2>2
    <3>2. 0 \in 0..n /\ 1 \in 0..n /\ 0 < k + 1 /\ 1 < k + 1
      BY <1>11, <2>2
    <3>3. m \in 1..Len(P[k+1])
      BY <2>1
    <3>4. \A x \in 1..Len(s) : s[x].seq < P[k+1][m].seq
      BY <2>1, <3>2, <3>3 DEF Orderly
    <3>5. \A x \in 1..Len(t) : t[x].seq < P[k+1][m].seq
      BY <2>1, <3>2, <3>3 DEF Orderly
    <3>6. kept[i+d].seq < P[k+1][m].seq
      BY <1>3, <3>1, <3>4, <3>5
    <3> QED BY <2>1, <3>1, <3>6
  <2>3. CASE j # 0
    <3>1. j + 1 \in 0..n /\ Q[j] = P[j+1] /\ j + 1 < k + 1
      BY <1>9, <1>11, <2>3
    <3> QED BY <2>1, <3>1 DEF Orderly
  <2> QED BY <2>2, <2>3
<1>12. ASSUME NEW k \in 0..n-1, NEW i \in 1..Len(Q[k])
       PROVE  Q[k][i].seq <= hi
  BY <1>8, <1>9 DEF Orderly
<1>13. Orderly(Q, n - 1, hi)
  BY <1>5, <1>10, <1>11, <1>12 DEF Orderly
<1>14. ASSUME Window(P, n, hi), NEW x \in 1..hi, x + Capacity > hi
       PROVE  \E k \in 0..n-1 : \E i \in 1..Len(Q[k]) : Q[k][i].seq = x
  <2>1. PICK k \in 0..n : \E i \in 1..Len(P[k]) : P[k][i].seq = x
    BY <1>14 DEF Window
  <2>2. PICK i \in 1..Len(P[k]) : P[k][i].seq = x
    BY <2>1
  <2>3. CASE k > 1
    <3>1. k - 1 \in 0..n-1 /\ Q[k-1] = P[k]
      BY <1>9, <2>3
    <3> QED BY <2>2, <3>1
  <2>4. CASE k = 0 \/ k = 1
    <3>1. \E y \in 1..Len(kept) : kept[y].seq = x
      <4>1. CASE k = 0
        BY <2>2, <4>1 DEF Joins
      <4>2. CASE k = 1
        BY <2>2, <4>2 DEF Joins
      <4> QED BY <2>4, <4>1, <4>2
    <3>2. PICK y \in 1..Len(kept) : kept[y].seq = x
      BY <3>1
    <3>3. PICK z \in 1..Len(kept) : z = Len(kept)
      BY <1>6
    <3>4. y <= z /\ y \in Nat /\ z \in Nat
      BY <1>6, <3>3
    <3>5. x + (z - y) <= kept[z].seq
      BY <1>2, <3>2, <3>4 DEF Spread
    <3>6. kept[z].seq \in Nat /\ kept[z].seq <= hi
      BY <1>4
    <3>7. y + Capacity > z
      BY <1>14, <3>4, <3>5, <3>6
    <3>8. y > d
      BY <1>5, <3>3, <3>4, <3>7
    <3>9. y - d \in 1..Len(q) /\ q[y - d] = kept[y]
      BY <1>5, <3>8
    <3>10. 0 \in 0..n-1 /\ Q[0] = q
      OBVIOUS
    <3> QED BY <3>2, <3>9, <3>10
  <2>5. k > 1 \/ k = 0 \/ k = 1
    OBVIOUS
  <2> QED BY <2>3, <2>4, <2>5
<1> QED BY <1>13, <1>14 DEF Window

-----------------------------------------------------------------------------
Messages == [level : FeedLevels, items : Seq(Items)]

Parts(kept, box, l) ==
    [k \in 0..Len(box) |-> IF k = 0 THEN kept
                          ELSE IF box[k].level = l THEN box[k].items ELSE <<>>]

\* A page that keeps the list kept and has the messages of box before it is
\* served up to hi, without a gap if whole.
Served(kept, box, l, hi, whole) ==
    /\ Orderly(Parts(kept, box, l), Len(box), hi)
    /\ whole => Window(Parts(kept, box, l), Len(box), hi)

\* r takes a page from hi to hi2.
Continues(r, hi, hi2) ==
    /\ hi <= hi2 /\ Spread(r)
    /\ \A i \in 1..Len(r) : hi < r[i].seq /\ r[i].seq <= hi2
    /\ \A x \in hi+1..hi2 : x + Capacity > hi2 => \E i \in 1..Len(r) : r[i].seq = x

LEMMA NothingIsSound ==
    ASSUME NEW l \in FeedLevels
    PROVE  Served(<<>>, <<>>, l, 0, TRUE)
<1>1. Len(<<>>) = 0 /\ <<>> \in Seq(Items)
  BY EmptySeq
<1>2. Parts(<<>>, <<>>, l)[0] = <<>>
  BY <1>1 DEF Parts
<1>3. Spread(<<>>)
  BY <1>1 DEF Spread
<1>4. \A k \in 0..0 : k = 0
  OBVIOUS
<1>5. Orderly(Parts(<<>>, <<>>, l), 0, 0)
  <2> PICK P : P = Parts(<<>>, <<>>, l)
    OBVIOUS
  <2> PICK e : e = <<>>
    OBVIOUS
  <2>1. P[0] = e /\ Len(e) = 0 /\ e \in Seq(Items) /\ Spread(e) /\ Len(e) <= Capacity
    BY <1>1, <1>2, <1>3, FeedAssumption
  <2>2. \A k \in 0..0 : P[k] = e
    BY <1>4, <2>1
  <2>3. \A k \in 0..0 : P[k] \in Seq(Items) /\ Spread(P[k])
    BY <2>1, <2>2
  <2>4. \A k \in 0..0 : \A i \in 1..Len(P[k]) : P[k][i].seq <= 0
    BY <2>1, <2>2
  <2>5. \A j, k \in 0..0 : j < k => FALSE
    OBVIOUS
  <2> QED BY <2>1, <2>3, <2>4, <2>5 DEF Orderly
<1>6. Window(Parts(<<>>, <<>>, l), 0, 0)
  BY DEF Window
<1> QED BY <1>1, <1>5, <1>6 DEF Served

LEMMA MessageAdded ==
    ASSUME NEW kept \in Seq(Items), NEW box \in Seq(Messages), NEW m \in Messages,
           NEW l \in FeedLevels, NEW hi \in Nat, NEW hi2 \in Nat, NEW whole,
           Served(kept, box, l, hi, whole),
           IF m.level = l THEN Continues(m.items, hi, hi2) ELSE hi2 = hi
    PROVE  Served(kept, Append(box, m), l, hi2, whole)
<1> DEFINE P == Parts(kept, box, l)
           Q == Parts(kept, Append(box, m), l)
<1> PICK r : r = IF m.level = l THEN m.items ELSE <<>>
  OBVIOUS
<1> PICK n \in Nat : n = Len(box)
  BY LenProperties
<1>1. r \in Seq(Items)
  BY EmptySeq DEF Messages
<1>2. Continues(r, hi, hi2)
  <2>1. CASE m.level = l
    BY <2>1
  <2>2. CASE m.level # l
    <3>1. r = <<>> /\ Len(r) = 0 /\ hi2 = hi
      BY <2>2, EmptySeq
    <3> QED BY <3>1 DEF Continues, Spread
  <2> QED BY <2>1, <2>2
<1>3. /\ Len(Append(box, m)) = n + 1
      /\ \A k \in 1..n : Append(box, m)[k] = box[k]
      /\ Append(box, m)[n+1] = m
  BY AppendProperties
<1>4. \A k \in 0..n : Q[k] = P[k]
  BY <1>3 DEF Parts
<1>5. Q[n+1] = r
  BY <1>3 DEF Parts
<1>6. /\ Orderly(P, n, hi)
      /\ whole => Window(P, n, hi)
  BY DEF Served
<1> HIDE DEF P, Q
<1>7. Orderly(Q, n + 1, hi2) /\ (whole => Window(Q, n + 1, hi2))
  BY <1>1, <1>2, <1>4, <1>5, <1>6, PartAdded DEF Continues
<1> QED BY <1>3, <1>7 DEF Served, Q

LEMMA MessageHandled ==
    ASSUME NEW kept \in Seq(Items), NEW box \in Seq(Messages), box # <<>>,
           NEW l \in FeedLevels, NEW hi \in Nat, NEW whole,
           Served(kept, box, l, hi, whole),
           NEW r \in Seq(Items),
           r = IF Head(box).level = l THEN Head(box).items ELSE <<>>
    PROVE  Served(Newest(kept \o r), Tail(box), l, hi, whole)
<1> DEFINE P == Parts(kept, box, l)
           Q == Parts(Newest(kept \o r), Tail(box), l)
<1> PICK n \in Nat \ {0} : n = Len(box)
  BY EmptySeq
<1>1. /\ Len(Tail(box)) = n - 1
      /\ \A k \in 1..n-1 : Tail(box)[k] = box[k+1]
      /\ Head(box) = box[1]
  BY HeadTailProperties
<1> PICK u \in Seq(Items) : u = kept \o r
  BY ConcatProperties
<1> PICK q \in Seq(Items) : q = Newest(u)
  BY NewestTrims
<1>2. Joins(kept, r, u)
  BY ConcatJoins
<1>3. Trims(u, q)
  BY NewestTrims
<1>4. Q[0] = q
  BY <1>1 DEF Parts
<1>5. ASSUME NEW k \in 1..n-1 PROVE Q[k] = P[k+1]
  <2>1. k \in 0..n-1 /\ k # 0 /\ k + 1 \in 0..n /\ k + 1 # 0
    OBVIOUS
  <2>2. Q[k] = IF box[k+1].level = l THEN box[k+1].items ELSE <<>>
    BY <1>1, <2>1 DEF Parts
  <2>3. P[k+1] = IF box[k+1].level = l THEN box[k+1].items ELSE <<>>
    BY <2>1 DEF Parts
  <2> QED BY <2>2, <2>3
<1>6. P[0] = kept /\ P[1] = r
  <2>1. 0 \in 0..n /\ 1 \in 0..n /\ 1 # 0
    OBVIOUS
  <2> QED BY <1>1, <2>1 DEF Parts
<1>7. /\ Orderly(P, n, hi)
      /\ whole => Window(P, n, hi)
  BY DEF Served
<1> HIDE DEF P, Q
<1>8. Orderly(Q, n - 1, hi) /\ (whole => Window(Q, n - 1, hi))
  BY <1>2, <1>3, <1>4, <1>5, <1>6, <1>7, PartsJoined
<1> QED BY <1>1, <1>8 DEF Served, Q

-----------------------------------------------------------------------------
\* A ring holds the newest entries of its level, numbered without a gap.
RingOf(items, v) ==
    /\ Len(items) = IF v < Capacity THEN v ELSE Capacity
    /\ \A i \in 1..Len(items) : items[i].seq = (v - Len(items)) + i

RingInv(l) == last[l] <= ver[l] /\ RingOf(ring[l], ver[l])

Kept(c, l) == IF initial[c][l] THEN <<>> ELSE view[c][l]

PageInv(c, l) ==
    conn[c] = "open" => Served(Kept(c, l), inbox[c], l, last[l], ~passedOver[c])

FeedInv ==
    /\ FeedTypeOK
    /\ \A l \in FeedLevels : RingInv(l)
    /\ \A c \in Clients, l \in FeedLevels : PageInv(c, l)

\* What onOpen sends takes a page from nothing to the version of the ring.
LEMMA RingContinues ==
    ASSUME NEW l \in FeedLevels, NEW items \in Seq(Items), items = ring[l],
           NEW v \in Nat, v = ver[l], RingInv(l)
    PROVE  Continues(items, 0, v)
<1> Capacity \in Nat
  BY FeedAssumption
<1>1. PICK n \in Nat : n = Len(items)
  BY LenProperties
<1>2. /\ n = IF v < Capacity THEN v ELSE Capacity
      /\ \A i \in 1..n : items[i].seq = (v - n) + i
  BY <1>1 DEF RingInv, RingOf
<1>3. PICK base \in Nat : base = v - n
  BY <1>2
<1>4. v = base + n /\ n <= Capacity /\ \A i \in 1..n : items[i].seq = base + i
  BY <1>2, <1>3
<1>5. \A i, j \in 1..n : i <= j => items[i].seq + (j - i) <= items[j].seq
  <2> SUFFICES ASSUME NEW i \in 1..n, NEW j \in 1..n, i <= j
               PROVE  items[i].seq + (j - i) <= items[j].seq
    OBVIOUS
  <2>1. items[i].seq = base + i /\ items[j].seq = base + j
    BY <1>4
  <2> QED BY <2>1
<1>6. \A i \in 1..n : 0 < items[i].seq /\ items[i].seq <= v
  <2> SUFFICES ASSUME NEW i \in 1..n PROVE 0 < items[i].seq /\ items[i].seq <= v
    OBVIOUS
  <2>1. items[i].seq = base + i
    BY <1>4
  <2> QED BY <1>4, <2>1
<1>7. ASSUME NEW x \in 0+1..v, x + Capacity > v
      PROVE  \E i \in 1..n : items[i].seq = x
  <2>1. x > base
    <3>1. CASE v < Capacity
      BY <1>2, <1>3, <3>1
    <3>2. CASE ~(v < Capacity)
      BY <1>2, <1>3, <1>7, <3>2
    <3> QED BY <3>1, <3>2
  <2>2. x - base \in 1..n /\ base + (x - base) = x
    BY <1>4, <2>1
  <2>3. items[x - base].seq = base + (x - base)
    BY <1>4, <2>2
  <2> QED BY <2>2, <2>3
<1> QED BY <1>1, <1>5, <1>6, <1>7 DEF Continues, Spread

\* What broadcastIfChanged sends takes a page from the last version to the new.
LEMMA SinceContinues ==
    ASSUME NEW l \in FeedLevels, NEW items \in Seq(Items), items = ring[l],
           NEW v \in Nat, v = ver[l], RingInv(l), NEW w \in Nat, w = last[l]
    PROVE  Since(l, w) \in Seq(Items) /\ Continues(Since(l, w), w, v)
<1> Capacity \in Nat
  BY FeedAssumption
<1>1. PICK n \in Nat : n = Len(items)
  BY LenProperties
<1>2. /\ n = IF v < Capacity THEN v ELSE Capacity
      /\ \A i \in 1..n : items[i].seq = (v - n) + i
      /\ w <= v
  BY <1>1 DEF RingInv, RingOf
<1>3. PICK base \in Nat : base = v - n
  BY <1>2
<1>4. \A i \in 1..Len(items) : items[i].seq = base + i
  BY <1>1, <1>2, <1>3
<1> PICK r : r = Since(l, w)
  OBVIOUS
<1>5. r = NewerThan(items, w)
  BY DEF Since
<1>6. PICK k \in 0..n :
         /\ r \in Seq(Items)
         /\ Len(r) = n - k
         /\ \A i \in 1..n - k : r[i] = items[i + k]
         /\ \A i \in 1..k : items[i].seq <= w
         /\ \A i \in k+1..n : items[i].seq > w
  <2>1. Numbered(items, base)
    BY <1>4 DEF Numbered
  <2>2. SuffixAfter(items, w, NewerThan(items, w))
    BY <2>1, NewerThanIsSuffix
  <2>3. SuffixAfter(items, w, r)
    BY <1>5, <2>2
  <2> QED BY <1>1, <2>3 DEF SuffixAfter
<1>7. ASSUME NEW i \in 1..n-k
      PROVE  /\ i + k \in k+1..n /\ i + k \in 1..n /\ r[i] = items[i + k]
             /\ r[i].seq = base + (i + k)
  <2>1. i + k \in k+1..n /\ i + k \in 1..n
    OBVIOUS
  <2>2. r[i] = items[i + k]
    BY <1>6
  <2> QED BY <1>1, <1>4, <2>1, <2>2
<1>8. \A i \in 1..n-k : w < r[i].seq /\ r[i].seq <= v
  <2> SUFFICES ASSUME NEW i \in 1..n-k PROVE w < r[i].seq /\ r[i].seq <= v
    OBVIOUS
  <2>1. items[i + k].seq > w
    BY <1>6, <1>7
  <2>2. r[i].seq = base + (i + k) /\ r[i].seq > w
    BY <1>7, <2>1
  <2> QED BY <1>3, <2>2
<1>9. \A i, j \in 1..n-k : i <= j => r[i].seq + (j - i) <= r[j].seq
  <2> SUFFICES ASSUME NEW i \in 1..n-k, NEW j \in 1..n-k, i <= j
               PROVE  r[i].seq + (j - i) <= r[j].seq
    OBVIOUS
  <2>1. r[i].seq = base + (i + k) /\ r[j].seq = base + (j + k)
    BY <1>7
  <2> QED BY <2>1
<1>10. ASSUME NEW x \in w+1..v, x + Capacity > v
       PROVE  \E i \in 1..n-k : r[i].seq = x
  <2>1. x - base \in 1..n /\ base + (x - base) = x
    <3>1. x > base
      <4>1. CASE v < Capacity
        BY <1>2, <1>3, <4>1
      <4>2. CASE ~(v < Capacity)
        BY <1>2, <1>3, <1>10, <4>2
      <4> QED BY <4>1, <4>2
    <3>2. x <= v /\ v = base + n
      BY <1>3
    <3> QED BY <3>1, <3>2
  <2>2. PICK y \in 1..n : y = x - base
    BY <2>1
  <2>3. items[y].seq = x
    BY <1>1, <1>4, <2>1, <2>2
  <2>4. ~(y \in 1..k)
    BY <1>6, <1>10, <2>3
  <2>5. y - k \in 1..n-k /\ (y - k) + k = y
    BY <2>4
  <2>6. r[y - k] = items[y]
    BY <1>6, <2>5
  <2> QED BY <2>3, <2>5, <2>6
<1> QED BY <1>2, <1>6, <1>8, <1>9, <1>10 DEF Continues, Spread

-----------------------------------------------------------------------------
LEMMA InitFeed == FeedInit => FeedInv
<1> SUFFICES ASSUME FeedInit PROVE FeedInv
  OBVIOUS
<1>1. <<>> \in Seq(Items) /\ Len(<<>>) = 0 /\ <<>> \in Seq([level : FeedLevels, time : Nat])
      /\ <<>> \in Seq([level : FeedLevels, items : Seq(Items)])
  BY EmptySeq
<1>2. FeedTypeOK
  BY <1>1, FeedAssumption DEF FeedInit, FeedTypeOK
<1>3. \A l \in FeedLevels : RingInv(l)
  BY <1>1, FeedAssumption DEF FeedInit, RingInv, RingOf
<1>4. \A c \in Clients, l \in FeedLevels : PageInv(c, l)
  BY DEF FeedInit, PageInv
<1> QED BY <1>2, <1>3, <1>4 DEF FeedInv

\* A step that leaves a page, its messages and the versions sent alone.
LEMMA PageUnchanged ==
    ASSUME NEW c \in Clients, NEW l \in FeedLevels, PageInv(c, l),
           conn'[c] = "open" => conn[c] = "open", inbox'[c] = inbox[c], view'[c] = view[c],
           initial'[c] = initial[c], last'[l] = last[l], passedOver'[c] = passedOver[c]
    PROVE  PageInv(c, l)'
<1>1. Kept(c, l)' = Kept(c, l)
  BY DEF Kept
<1> QED BY <1>1 DEF PageInv

LEMMA WriteToFileFeed ==
    ASSUME FeedInv, NEW w \in Writers, NEW l \in FeedLevels, WriteToFile(w, l)
    PROVE  FeedInv'
<1>1. inFlight' \in [Writers -> Seq([level : FeedLevels, time : Nat])]
  <2>1. [level |-> l, time |-> written + 1] \in [level : FeedLevels, time : Nat]
    BY FeedAssumption DEF FeedInv, FeedTypeOK
  <2>2. PICK e \in [level : FeedLevels, time : Nat] : e = [level |-> l, time |-> written + 1]
    BY <2>1
  <2>3. <<e>> \in Seq([level : FeedLevels, time : Nat])
    OBVIOUS
  <2>4. inFlight' = [inFlight EXCEPT ![w] = <<e>>]
    BY <2>2 DEF WriteToFile
  <2> QED BY <2>3, <2>4 DEF FeedInv, FeedTypeOK
<1>2. written' \in 0..MaxEntries
  BY FeedAssumption DEF FeedInv, FeedTypeOK, WriteToFile
<1>3. FeedTypeOK'
  BY <1>1, <1>2 DEF FeedInv, FeedTypeOK, WriteToFile
<1>4. \A k \in FeedLevels : RingInv(k)'
  BY DEF FeedInv, RingInv, WriteToFile
<1>5. \A c \in Clients, k \in FeedLevels : PageInv(c, k)'
  BY PageUnchanged DEF FeedInv, WriteToFile
<1> QED BY <1>3, <1>4, <1>5 DEF FeedInv

\* The ring after a push: one entry more, the oldest gone if there is no room.
LEMMA PushedRing ==
    ASSUME NEW items \in Seq(Items), NEW v \in Nat, NEW e \in Items, e.seq = v + 1,
           RingOf(items, v), NEW q, q = Newest(Append(items, e))
    PROVE  q \in Seq(Items) /\ RingOf(q, v + 1)
<1> Capacity \in Nat \ {0}
  BY FeedAssumption
<1>1. PICK n \in Nat : n = Len(items)
  BY LenProperties
<1>2. PICK u \in Seq(Items) : u = Append(items, e)
  BY AppendProperties
<1>3. /\ Len(u) = n + 1
      /\ \A i \in 1..n : u[i] = items[i]
      /\ u[n+1] = e
  BY <1>1, <1>2, AppendProperties
<1>4. n = (IF v < Capacity THEN v ELSE Capacity) /\ n <= v
  BY <1>1 DEF RingOf
<1>5. ASSUME NEW i \in 1..n+1 PROVE u[i].seq = (v - n) + i
  <2>1. CASE i = n + 1
    BY <1>3, <1>4, <2>1
  <2>2. CASE i # n + 1
    <3>1. i \in 1..n
      BY <2>2
    <3> QED BY <1>1, <1>3, <3>1 DEF RingOf
  <2> QED BY <2>1, <2>2
<1>6. PICK d \in 0..n+1 :
         /\ q \in Seq(Items)
         /\ Len(q) = (n + 1) - d
         /\ \A i \in 1..(n + 1) - d : q[i] = u[i + d]
         /\ d = IF n + 1 > Capacity THEN (n + 1) - Capacity ELSE 0
  <2>1. q = Newest(u)
    BY <1>2
  <2>2. q \in Seq(Items) /\ EndOf(u, q)
    BY <2>1, NewestKeepsEnd
  <2> QED BY <1>3, <2>2 DEF EndOf
<1>7. (n + 1) - d = IF v + 1 < Capacity THEN v + 1 ELSE Capacity
  <2>1. CASE v < Capacity
    BY <1>4, <1>6, <2>1
  <2>2. CASE ~(v < Capacity)
    BY <1>4, <1>6, <2>2
  <2> QED BY <2>1, <2>2
<1>8. ASSUME NEW i \in 1..(n + 1) - d
      PROVE  q[i].seq = ((v + 1) - ((n + 1) - d)) + i
  <2>1. i + d \in 1..n+1
    OBVIOUS
  <2>4. q[i] = u[i + d]
    BY <1>6
  <2>2. u[i + d].seq = (v - n) + (i + d)
    BY <1>5, <2>1
  <2>3. (v - n) + (i + d) = ((v + 1) - ((n + 1) - d)) + i
    OBVIOUS
  <2> QED BY <2>2, <2>3, <2>4
<1> QED BY <1>6, <1>7, <1>8 DEF RingOf

LEMMA PushFeed ==
    ASSUME FeedInv, NEW w \in Writers, Push(w)
    PROVE  FeedInv'
<1> Capacity \in Nat
  BY FeedAssumption
<1>1. PICK e \in [level : FeedLevels, time : Nat] : e = Head(inFlight[w])
  BY HeadTailProperties DEF FeedInv, FeedTypeOK, Push
<1>2. PICK l \in FeedLevels : l = e.level
  BY <1>1
<1>3. PICK v \in Nat : v = ver[l]
  BY DEF FeedInv, FeedTypeOK
<1>4. PICK it \in Items : it = [seq |-> v + 1, time |-> e.time] /\ it.seq = v + 1
  <2>1. e.time \in Nat
    OBVIOUS
  <2>2. [seq |-> v + 1, time |-> e.time] \in Items
    BY <2>1 DEF Items
  <2> QED BY <2>2
<1>5. PICK q : q = Newest(Append(ring[l], it))
  OBVIOUS
<1>6. /\ ver' = [ver EXCEPT ![l] = v + 1]
      /\ ring' = [ring EXCEPT ![l] = q]
      /\ inFlight' = [inFlight EXCEPT ![w] = <<>>]
      /\ UNCHANGED <<written, last, conn, inbox, view, initial, opens, passedOver>>
  BY <1>1, <1>2, <1>3, <1>4, <1>5 DEF Push
<1>7. q \in Seq(Items) /\ RingOf(q, v + 1)
  <2>1. PICK items \in Seq(Items) : items = ring[l]
    BY DEF FeedInv, FeedTypeOK
  <2>2. RingOf(items, v)
    BY <1>3, <2>1 DEF FeedInv, RingInv
  <2> QED BY <1>4, <1>5, <2>1, <2>2, PushedRing
<1>8. /\ ver \in [FeedLevels -> Nat] /\ last \in [FeedLevels -> Nat]
      /\ ring \in [FeedLevels -> Seq(Items)]
      /\ inFlight \in [Writers -> Seq([level : FeedLevels, time : Nat])]
      /\ \A k \in FeedLevels : Len(ring[k]) <= Capacity
  BY DEF FeedInv, FeedTypeOK
<1>9. /\ ver'[l] = v + 1 /\ ring'[l] = q
      /\ \A k \in FeedLevels : k # l => ver'[k] = ver[k] /\ ring'[k] = ring[k]
  BY <1>6, <1>8
<1>10. FeedTypeOK'
  <2>1. inFlight' \in [Writers -> Seq([level : FeedLevels, time : Nat])]
    <3>1. <<>> \in Seq([level : FeedLevels, time : Nat])
      BY EmptySeq
    <3> QED BY <1>6, <1>8, <3>1
  <2>2. ring' \in [FeedLevels -> Seq(Items)] /\ ver' \in [FeedLevels -> Nat]
    BY <1>6, <1>7, <1>8
  <2>3. \A k \in FeedLevels : Len(ring'[k]) <= Capacity
    <3>1. Len(q) <= Capacity
      BY <1>7 DEF RingOf
    <3> QED BY <1>8, <1>9, <3>1
  <2> QED BY <1>6, <2>1, <2>2, <2>3 DEF FeedInv, FeedTypeOK
<1>11. ASSUME NEW k \in FeedLevels PROVE RingInv(k)'
  <2>1. RingInv(k) /\ last' = last
    BY <1>6 DEF FeedInv
  <2>2. CASE k = l
    <3>1. last[l] \in Nat /\ last[l] <= v + 1
      BY <1>3, <1>8, <2>1, <2>2 DEF RingInv
    <3> QED BY <1>7, <1>9, <2>1, <2>2, <3>1 DEF RingInv
  <2>3. CASE k # l
    BY <1>9, <2>1, <2>3 DEF RingInv
  <2> QED BY <2>2, <2>3
<1>12. \A c \in Clients, k \in FeedLevels : PageInv(c, k)'
  BY <1>6, PageUnchanged DEF FeedInv
<1> QED BY <1>10, <1>11, <1>12 DEF FeedInv

LEMMA CloseFeed ==
    ASSUME FeedInv, NEW c \in Clients, Close(c)
    PROVE  FeedInv'
<1>1. conn' \in [Clients -> {"closed", "open", "closing"}]
      /\ inbox' \in [Clients -> Seq([level : FeedLevels, items : Seq(Items)])]
  <2>1. <<>> \in Seq([level : FeedLevels, items : Seq(Items)])
    BY EmptySeq
  <2> QED BY <2>1 DEF FeedInv, FeedTypeOK, Close
<1>2. FeedTypeOK'
  BY <1>1 DEF FeedInv, FeedTypeOK, Close
<1>3. \A k \in FeedLevels : RingInv(k)'
  BY DEF FeedInv, RingInv, Close
<1>4. ASSUME NEW d \in Clients, NEW k \in FeedLevels PROVE PageInv(d, k)'
  <2>1. CASE d = c
    BY <2>1 DEF FeedInv, FeedTypeOK, PageInv, Close
  <2>2. CASE d # c
    <3>1. conn'[d] = conn[d] /\ inbox'[d] = inbox[d]
      BY <2>2 DEF FeedInv, FeedTypeOK, Close
    <3> QED BY <3>1, PageUnchanged DEF FeedInv, Close
  <2> QED BY <2>1, <2>2
<1> QED BY <1>2, <1>3, <1>4 DEF FeedInv

\* Two messages in a row, at most one of them of the level.
LEMMA TwoAdded ==
    ASSUME NEW kept \in Seq(Items), NEW box \in Seq(Messages),
           NEW f \in Messages, f.level = "FAULT", NEW w \in Messages, w.level = "WARN",
           NEW l \in FeedLevels, NEW hi \in Nat, NEW hi2 \in Nat, NEW whole,
           Served(kept, box, l, hi, whole),
           l = "FAULT" => Continues(f.items, hi, hi2),
           l = "WARN" => Continues(w.items, hi, hi2)
    PROVE  Served(kept, Append(Append(box, f), w), l, hi2, whole)
<1>1. Append(box, f) \in Seq(Messages)
  BY AppendProperties
<1>2. PICK two \in Seq(Messages) : two = Append(box, f)
  BY <1>1
<1>3. CASE l = "FAULT"
  <2>1. Served(kept, two, l, hi2, whole)
    BY <1>2, <1>3, MessageAdded
  <2> QED BY <1>2, <1>3, <2>1, MessageAdded
<1>4. CASE l = "WARN"
  <2>1. Served(kept, two, l, hi, whole)
    BY <1>2, <1>4, MessageAdded
  <2> QED BY <1>2, <1>4, <2>1, MessageAdded
<1> QED BY <1>3, <1>4 DEF FeedLevels

LEMMA TwoMessages ==
    ASSUME NEW box \in Seq(Messages), NEW f \in Messages, NEW w \in Messages
    PROVE  /\ box \o <<>> = box
           /\ box \o <<f>> = Append(box, f)
           /\ box \o <<f, w>> = Append(Append(box, f), w)
<1>1. <<f>> \in Seq(Messages) /\ <<w>> \in Seq(Messages)
  OBVIOUS
<1>2. box \o <<>> = box
  BY ConcatEmptySeq
<1>3. box \o <<f>> = Append(box, f) /\ Append(box, f) \in Seq(Messages)
  BY AppendIsConcat, AppendProperties
<1>4. Append(box, f) \o <<w>> = Append(Append(box, f), w)
  BY <1>3, AppendIsConcat
<1>5. (box \o <<f>>) \o <<w>> = box \o (<<f>> \o <<w>>)
  BY <1>1, ConcatAssociative
<1>6. <<f>> \o <<w>> = <<f, w>>
  <2>1. PICK u : u = <<f>> \o <<w>>
    OBVIOUS
  <2>2. u \in Seq(Messages) /\ Len(u) = 2 /\ u[1] = f /\ u[2] = w
    <3>1. u = Append(<<f>>, w)
      BY <1>1, <2>1, AppendIsConcat
    <3>2. Len(<<f>>) = 1 /\ <<f>>[1] = f
      OBVIOUS
    <3> QED BY <1>1, <3>1, <3>2, AppendProperties
  <2>3. <<f, w>> \in Seq(Messages) /\ Len(<<f, w>>) = 2 /\ <<f, w>>[1] = f /\ <<f, w>>[2] = w
    OBVIOUS
  <2>4. PICK v \in Seq(Messages) : v = <<f, w>>
    BY <2>3
  <2>5. \A i \in 1..Len(u) : i = 1 \/ i = 2
    BY <2>2
  <2>6. u = v
    BY <2>2, <2>3, <2>4, <2>5, SeqEqual
  <2> QED BY <2>1, <2>4, <2>6
<1> QED BY <1>2, <1>3, <1>4, <1>5, <1>6

\* Entries sent are entries broadcast: the versions only grow.
LEMMA LaterServed ==
    ASSUME NEW kept \in Seq(Items), NEW box \in Seq(Messages), NEW l \in FeedLevels,
           NEW hi \in Nat, NEW hi2 \in Nat, hi <= hi2, NEW whole,
           Served(kept, box, l, hi, whole)
    PROVE  Served(kept, box, l, hi2, FALSE)
<1>1. PICK P : P = Parts(kept, box, l)
  OBVIOUS
<1>2. PICK n : n = Len(box)
  OBVIOUS
<1>3. Orderly(P, n, hi)
  BY <1>1, <1>2 DEF Served
<1>4. ASSUME NEW k \in 0..n, NEW i \in 1..Len(P[k]) PROVE P[k][i].seq <= hi2
  <2>1. P[k] \in Seq(Items) /\ P[k][i].seq <= hi
    BY <1>3 DEF Orderly
  <2>2. P[k][i].seq \in Nat
    BY <2>1, NumbersAreNat
  <2> QED BY <2>1, <2>2
<1>5. Orderly(P, n, hi2)
  BY <1>3, <1>4 DEF Orderly
<1> QED BY <1>1, <1>2, <1>5 DEF Served

LEMMA KeptType ==
    ASSUME FeedTypeOK, NEW c \in Clients, NEW l \in FeedLevels
    PROVE  Kept(c, l) \in Seq(Items) /\ inbox[c] \in Seq(Messages)
<1>1. view[c][l] \in Seq(Items) /\ inbox[c] \in Seq(Messages)
  BY DEF FeedTypeOK, Messages
<1>2. <<>> \in Seq(Items)
  BY EmptySeq
<1> QED BY <1>1, <1>2 DEF Kept

LEMMA OpenFeed ==
    ASSUME FeedInv, NEW c \in Clients, Open(c)
    PROVE  FeedInv'
<1>1. /\ ver \in [FeedLevels -> Nat] /\ last \in [FeedLevels -> Nat]
      /\ ring \in [FeedLevels -> Seq(Items)]
      /\ \A l \in FeedLevels : RingInv(l) /\ last[l] <= ver[l]
  BY DEF FeedInv, FeedTypeOK, RingInv
<1>2. PICK f \in Messages : f = Message("FAULT", ring["FAULT"])
  BY <1>1 DEF Messages, Message, FeedLevels
<1>3. PICK w \in Messages : w = Message("WARN", ring["WARN"])
  BY <1>1 DEF Messages, Message, FeedLevels
<1>4. /\ f.level = "FAULT" /\ f.items = ring["FAULT"]
      /\ w.level = "WARN" /\ w.items = ring["WARN"]
  BY <1>2, <1>3 DEF Message
<1>5. last' \in [FeedLevels -> Nat] /\ \A l \in FeedLevels : last'[l] = ver[l]
  <2>1. last' = [l \in FeedLevels |-> IF ver[l] > last[l] THEN ver[l] ELSE last[l]]
    BY DEF Open
  <2>2. \A l \in FeedLevels :
           (IF ver[l] > last[l] THEN ver[l] ELSE last[l]) \in Nat
    BY <1>1
  <2>3. ASSUME NEW l \in FeedLevels PROVE last'[l] = ver[l]
    <3>1. ver[l] \in Nat /\ last[l] \in Nat /\ last[l] <= ver[l]
      BY <1>1
    <3>2. last'[l] = IF ver[l] > last[l] THEN ver[l] ELSE last[l]
      BY <2>1
    <3> QED BY <3>1, <3>2
  <2> QED BY <2>1, <2>2, <2>3
<1>6. PICK box : box = <<f, w>>
  OBVIOUS
<1>7. box \in Seq(Messages)
  BY <1>6
<1>8. inbox' = [inbox EXCEPT ![c] = box]
  BY <1>2, <1>3, <1>6 DEF Open
<1>9. /\ <<>> \in Seq(Items) /\ <<>> \in Seq(Messages) /\ Len(<<>>) = 0
      /\ <<>> \o box = box
  BY <1>7, EmptySeq, ConcatEmptySeq
<1>10. box = Append(Append(<<>>, f), w)
  BY <1>6, <1>9, TwoMessages
<1>11. FeedTypeOK'
  <2>1. inbox' \in [Clients -> Seq([level : FeedLevels, items : Seq(Items)])]
    BY <1>7, <1>8 DEF FeedInv, FeedTypeOK, Messages
  <2>2. view' \in [Clients -> [FeedLevels -> Seq(Items)]]
        /\ \A d \in Clients, l \in FeedLevels : Len(view'[d][l]) <= Capacity
    <3>1. PICK e \in Seq(Items) : e = <<>> /\ Len(e) = 0
      BY <1>9
    <3>2. view' = [view EXCEPT ![c] = [l \in FeedLevels |-> e]]
      BY <3>1 DEF Open
    <3>3. view' \in [Clients -> [FeedLevels -> Seq(Items)]]
      BY <3>2 DEF FeedInv, FeedTypeOK
    <3>4. \A d \in Clients, l \in FeedLevels : view'[d][l] = view[d][l] \/ view'[d][l] = e
      BY <3>2 DEF FeedInv, FeedTypeOK
    <3>5. Len(e) <= Capacity
      BY <3>1, FeedAssumption
    <3> QED BY <3>3, <3>4, <3>5 DEF FeedInv, FeedTypeOK
  <2>3. initial' \in [Clients -> [FeedLevels -> BOOLEAN]]
    BY DEF FeedInv, FeedTypeOK, Open
  <2>4. passedOver' \in [Clients -> BOOLEAN]
    BY DEF FeedInv, FeedTypeOK, Open
  <2>5. conn' \in [Clients -> {"closed", "open", "closing"}]
    BY DEF FeedInv, FeedTypeOK, Open
  <2>6. opens' \in 0..MaxOpens
    BY FeedAssumption DEF FeedInv, FeedTypeOK, Open
  <2>7. UNCHANGED <<written, inFlight, ring, ver>>
    BY DEF Open
  <2> QED BY <1>5, <2>1, <2>2, <2>3, <2>4, <2>5, <2>6, <2>7 DEF FeedInv, FeedTypeOK
<1>12. ASSUME NEW l \in FeedLevels PROVE RingInv(l)'
  <2>1. ring' = ring /\ ver' = ver
    BY DEF Open
  <2>2. last'[l] <= ver[l]
    BY <1>1, <1>5
  <2> QED BY <1>1, <2>1, <2>2 DEF RingInv
<1>13. ASSUME NEW d \in Clients, NEW l \in FeedLevels PROVE PageInv(d, l)'
  <2>1. CASE d = c
    <3>1. Served(<<>>, <<>>, l, 0, TRUE)
      BY NothingIsSound
    <3>2. Continues(ring[l], 0, ver[l])
      BY <1>1, RingContinues
    <3>3. 0 \in Nat /\ ver[l] \in Nat
      BY <1>1
    <3>4. Served(<<>>, Append(Append(<<>>, f), w), l, ver[l], TRUE)
      BY <1>4, <1>9, <3>1, <3>2, <3>3, TwoAdded
    <3>5. inbox'[c] = box /\ Kept(c, l)' = <<>>
      BY <1>8 DEF FeedInv, FeedTypeOK, Kept, Open
    <3>6. Served(<<>>, box, l, ver[l], TRUE)
      BY <1>10, <3>4
    <3>7. Served(<<>>, box, l, last'[l], ~passedOver'[c])
      BY <1>5, <3>6 DEF Served
    <3> QED BY <2>1, <3>5, <3>7 DEF PageInv
  <2>2. CASE d # c
    <3>1. /\ conn'[d] = conn[d] /\ inbox'[d] = inbox[d] /\ view'[d] = view[d]
          /\ initial'[d] = initial[d]
      BY <2>2 DEF FeedInv, FeedTypeOK, Open
    <3>2. passedOver'[d] = (passedOver[d] \/ ver # last)
      BY <2>2 DEF Open
    <3>3. CASE ver = last
      <4>1. last'[l] = last[l]
        BY <1>5, <3>3
      <4>2. passedOver'[d] = passedOver[d]
        BY <3>2, <3>3 DEF FeedInv, FeedTypeOK
      <4> QED BY <3>1, <4>1, <4>2, PageUnchanged DEF FeedInv
    <3>4. CASE ver # last /\ conn[d] = "open"
      <4>1. Served(Kept(d, l), inbox[d], l, last[l], ~passedOver[d])
        BY <3>4 DEF FeedInv, PageInv
      <4>2. Kept(d, l) \in Seq(Items) /\ inbox[d] \in Seq(Messages)
        BY KeptType DEF FeedInv
      <4>3. last[l] \in Nat /\ last'[l] \in Nat /\ last[l] <= last'[l]
        BY <1>1, <1>5
      <4>4. Served(Kept(d, l), inbox[d], l, last'[l], FALSE)
        BY <4>1, <4>2, <4>3, LaterServed
      <4>5. Kept(d, l)' = Kept(d, l)
        BY <3>1 DEF Kept
      <4>6. passedOver'[d] = TRUE
        BY <3>2, <3>4
      <4>7. (~passedOver'[d]) = FALSE
        BY <4>6
      <4> QED BY <3>1, <4>4, <4>5, <4>7 DEF PageInv, Served
    <3>5. CASE conn[d] # "open"
      BY <3>1, <3>5 DEF PageInv
    <3> QED BY <3>3, <3>4, <3>5
  <2> QED BY <2>1, <2>2
<1> QED BY <1>11, <1>12, <1>13 DEF FeedInv

LEMMA UpdatesType ==
    ASSUME FeedInv
    PROVE  Updates \in Seq(Messages)
<1>1. \A k \in FeedLevels : last[k] \in Nat /\ ver[k] \in Nat /\ RingInv(k)
                              /\ ring[k] \in Seq(Items)
  BY DEF FeedInv, FeedTypeOK
<1>2. \A k \in FeedLevels : Since(k, last[k]) \in Seq(Items)
  BY <1>1, SinceContinues
<1>3. \A k \in FeedLevels : Message(k, Since(k, last[k])) \in Messages
  BY <1>2 DEF Messages, Message
<1>4. "FAULT" \in FeedLevels /\ "WARN" \in FeedLevels
  BY DEF FeedLevels
<1>5. \A m \in Messages : <<m>> \in Seq(Messages)
  OBVIOUS
<1>6. <<>> \in Seq(Messages)
  BY EmptySeq
<1>7. PICK a \in Seq(Messages) :
         a = IF ver["FAULT"] # last["FAULT"]
             THEN <<Message("FAULT", Since("FAULT", last["FAULT"]))>> ELSE <<>>
  BY <1>3, <1>4, <1>5, <1>6
<1>8. PICK b \in Seq(Messages) :
         b = IF ver["WARN"] # last["WARN"]
             THEN <<Message("WARN", Since("WARN", last["WARN"]))>> ELSE <<>>
  BY <1>3, <1>4, <1>5, <1>6
<1>9. Updates = a \o b
  BY <1>7, <1>8 DEF Updates
<1> QED BY <1>9, ConcatProperties

\* One broadcast takes an open page from the last versions to the new ones.
LEMMA UpdatesServe ==
    ASSUME FeedInv, NEW kept \in Seq(Items), NEW box \in Seq(Messages),
           NEW l \in FeedLevels, NEW whole, Served(kept, box, l, last[l], whole)
    PROVE  box \o Updates \in Seq(Messages) /\ Served(kept, box \o Updates, l, ver[l], whole)
<1>1. /\ ver \in [FeedLevels -> Nat] /\ last \in [FeedLevels -> Nat]
      /\ ring \in [FeedLevels -> Seq(Items)]
      /\ \A k \in FeedLevels : RingInv(k)
      /\ "FAULT" \in FeedLevels /\ "WARN" \in FeedLevels
  BY DEF FeedInv, FeedTypeOK, FeedLevels
<1>2. \A k \in FeedLevels :
        Since(k, last[k]) \in Seq(Items) /\ Continues(Since(k, last[k]), last[k], ver[k])
  BY <1>1, SinceContinues
<1>3. PICK f \in Messages : f = Message("FAULT", Since("FAULT", last["FAULT"]))
  BY <1>1, <1>2 DEF Messages, Message
<1>4. PICK w \in Messages : w = Message("WARN", Since("WARN", last["WARN"]))
  BY <1>1, <1>2 DEF Messages, Message
<1>5. /\ f.level = "FAULT" /\ f.items = Since("FAULT", last["FAULT"])
      /\ w.level = "WARN" /\ w.items = Since("WARN", last["WARN"])
  BY <1>3, <1>4 DEF Message
<1>6. /\ box \o <<>> = box /\ box \o <<f>> = Append(box, f) /\ box \o <<w>> = Append(box, w)
      /\ box \o <<f, w>> = Append(Append(box, f), w)
  BY TwoMessages
<1>7. /\ Append(box, f) \in Seq(Messages) /\ Append(box, w) \in Seq(Messages)
      /\ Append(Append(box, f), w) \in Seq(Messages)
  BY AppendProperties
<1>8. Updates = (IF ver["FAULT"] # last["FAULT"] THEN <<f>> ELSE <<>>)
                  \o (IF ver["WARN"] # last["WARN"] THEN <<w>> ELSE <<>>)
  BY <1>3, <1>4 DEF Updates
<1>9. l = "FAULT" \/ l = "WARN"
  BY DEF FeedLevels
<1>10. ver[l] \in Nat /\ last[l] \in Nat
  BY <1>1
<1>11. /\ <<>> \o <<>> = <<>> /\ <<f>> \o <<>> = <<f>> /\ <<>> \o <<w>> = <<w>>
       /\ <<f>> \o <<w>> = <<f, w>>
  <2>1. <<f>> \in Seq(Messages) /\ <<w>> \in Seq(Messages) /\ <<>> \in Seq(Messages)
    OBVIOUS
  <2>2. /\ <<>> \o <<>> = <<>> /\ <<f>> \o <<>> = <<f>> /\ <<>> \o <<w>> = <<w>>
    BY <2>1, ConcatEmptySeq
  <2>3. <<f>> \o <<w>> = Append(<<f>>, w) /\ <<>> \o <<f, w>> = Append(Append(<<>>, f), w)
    BY <2>1, AppendIsConcat, TwoMessages
  <2>4. Append(<<>>, f) = <<f>> /\ <<>> \o <<f, w>> = <<f, w>>
    <3>1. <<f, w>> \in Seq(Messages)
      OBVIOUS
    <3> QED BY <2>1, <3>1, ConcatEmptySeq, AppendIsConcat
  <2> QED BY <2>2, <2>3, <2>4
<1>12. CASE ver["FAULT"] # last["FAULT"] /\ ver["WARN"] # last["WARN"]
  <2>1. Updates = <<f, w>>
    BY <1>8, <1>11, <1>12
  <2>2. Served(kept, Append(Append(box, f), w), l, ver[l], whole)
    BY <1>2, <1>5, <1>10, TwoAdded
  <2> QED BY <1>6, <1>7, <2>1, <2>2
<1>13. CASE ver["FAULT"] # last["FAULT"] /\ ver["WARN"] = last["WARN"]
  <2>1. Updates = <<f>>
    BY <1>8, <1>11, <1>13
  <2>2. IF f.level = l THEN Continues(f.items, last[l], ver[l]) ELSE ver[l] = last[l]
    BY <1>2, <1>5, <1>9, <1>13
  <2>3. Served(kept, Append(box, f), l, ver[l], whole)
    BY <1>10, <2>2, MessageAdded
  <2> QED BY <1>6, <1>7, <2>1, <2>3
<1>14. CASE ver["FAULT"] = last["FAULT"] /\ ver["WARN"] # last["WARN"]
  <2>1. Updates = <<w>>
    BY <1>8, <1>11, <1>14
  <2>2. IF w.level = l THEN Continues(w.items, last[l], ver[l]) ELSE ver[l] = last[l]
    BY <1>2, <1>5, <1>9, <1>14
  <2>3. Served(kept, Append(box, w), l, ver[l], whole)
    BY <1>10, <2>2, MessageAdded
  <2> QED BY <1>6, <1>7, <2>1, <2>3
<1>15. CASE ver["FAULT"] = last["FAULT"] /\ ver["WARN"] = last["WARN"]
  <2>1. Updates = <<>>
    BY <1>8, <1>11, <1>15
  <2>2. ver[l] = last[l]
    BY <1>9, <1>15
  <2> QED BY <1>6, <2>1, <2>2
<1> QED BY <1>12, <1>13, <1>14, <1>15

LEMMA BroadcastFeed ==
    ASSUME FeedInv, Broadcast
    PROVE  FeedInv'
<1> PICK slow : slow = {c \in Clients : conn[c] = "open" /\ Len(inbox[c]) > SendBuffer}
  OBVIOUS
<1>1. /\ conn' = [c \in Clients |-> IF c \in slow THEN "closing" ELSE conn[c]]
      /\ inbox' = [c \in Clients |-> IF conn'[c] = "open" THEN inbox[c] \o Updates
                                                          ELSE inbox[c]]
      /\ last' = ver
      /\ UNCHANGED <<written, inFlight, ring, ver, view, initial, opens, passedOver>>
  BY DEF Broadcast
<1>2. ASSUME NEW c \in Clients PROVE inbox[c] \o Updates \in Seq(Messages)
  <2>1. inbox[c] \in Seq(Messages) /\ "FAULT" \in FeedLevels
    BY KeptType DEF FeedInv, FeedLevels
  <2>2. Updates \in Seq(Messages)
    BY UpdatesType
  <2> QED BY <2>1, <2>2, ConcatProperties
<1>3. conn' \in [Clients -> {"closed", "open", "closing"}]
  BY <1>1 DEF FeedInv, FeedTypeOK
<1>4. inbox' \in [Clients -> Seq([level : FeedLevels, items : Seq(Items)])]
  <2>1. inbox' \in [Clients -> Seq(Messages)]
    BY <1>1, <1>2, KeptType DEF FeedInv, FeedTypeOK
  <2> QED BY <2>1 DEF Messages
<1>5. FeedTypeOK'
  BY <1>1, <1>3, <1>4 DEF FeedInv, FeedTypeOK
<1>6. ASSUME NEW l \in FeedLevels PROVE RingInv(l)'
  <2>1. RingInv(l) /\ ver[l] \in Nat
    BY DEF FeedInv, FeedTypeOK
  <2> QED BY <1>1, <2>1 DEF RingInv
<1>7. ASSUME NEW c \in Clients, NEW l \in FeedLevels, conn'[c] = "open"
      PROVE  Served(Kept(c, l)', inbox'[c], l, last'[l], ~passedOver'[c])
  <2>1. conn[c] = "open" /\ inbox'[c] = inbox[c] \o Updates
    BY <1>1, <1>7
  <2>2. Served(Kept(c, l), inbox[c], l, last[l], ~passedOver[c])
    BY <2>1 DEF FeedInv, PageInv
  <2>3. Kept(c, l) \in Seq(Items) /\ inbox[c] \in Seq(Messages)
    BY KeptType DEF FeedInv
  <2>4. Served(Kept(c, l), inbox[c] \o Updates, l, ver[l], ~passedOver[c])
    BY <2>2, <2>3, UpdatesServe
  <2>5. Kept(c, l)' = Kept(c, l)
    BY <1>1 DEF Kept
  <2> QED BY <1>1, <2>1, <2>4, <2>5
<1> QED BY <1>5, <1>6, <1>7 DEF FeedInv, PageInv

LEMMA ReceiveFeed ==
    ASSUME FeedInv, NEW c \in Clients, Receive(c)
    PROVE  FeedInv'
<1>1. /\ inbox[c] \in Seq(Messages) /\ inbox[c] # <<>>
      /\ view \in [Clients -> [FeedLevels -> Seq(Items)]]
      /\ initial \in [Clients -> [FeedLevels -> BOOLEAN]]
      /\ inbox \in [Clients -> Seq(Messages)]
  BY DEF FeedInv, FeedTypeOK, Receive, Messages
<1>2. PICK m \in Messages : m = Head(inbox[c])
  BY <1>1, HeadTailProperties
<1>3. PICK x \in FeedLevels : x = m.level
  BY DEF Messages
<1>4. PICK items \in Seq(Items) : items = m.items
  BY DEF Messages
<1>5. PICK kept \in Seq(Items) : kept = Kept(c, x)
  BY KeptType DEF FeedInv
<1>6. PICK q : q = Newest(kept \o items)
  OBVIOUS
<1>7. q \in Seq(Items) /\ Len(q) <= Capacity
  <2>1. PICK u \in Seq(Items) : u = kept \o items
    BY ConcatProperties
  <2>2. q \in Seq(Items) /\ Trims(u, q)
    BY <1>6, <2>1, NewestTrims
  <2> QED BY <2>2 DEF Trims
<1>8. (IF initial[c][x] THEN Newest(items) ELSE Newest(view[c][x] \o items)) = q
  <2>1. <<>> \o items = items
    BY ConcatEmptySeq
  <2>2. CASE initial[c][x]
    BY <1>5, <1>6, <2>1, <2>2 DEF Kept
  <2>3. CASE ~initial[c][x]
    BY <1>5, <1>6, <2>3 DEF Kept
  <2> QED BY <2>2, <2>3
<1>9. view' = [view EXCEPT ![c][x] = q]
  BY <1>2, <1>3, <1>4, <1>8 DEF Receive
<1>10. initial' = [initial EXCEPT ![c][x] = FALSE]
  BY <1>2, <1>3 DEF Receive
<1>11. /\ inbox' = [inbox EXCEPT ![c] = Tail(inbox[c])]
       /\ UNCHANGED <<written, inFlight, ring, ver, last, conn, opens, passedOver>>
  BY DEF Receive
<1>12. view' \in [Clients -> [FeedLevels -> Seq(Items)]]
       /\ \A d \in Clients, l \in FeedLevels :
             view'[d][l] = IF d = c /\ l = x THEN q ELSE view[d][l]
  BY <1>1, <1>7, <1>9
<1>13. initial' \in [Clients -> [FeedLevels -> BOOLEAN]]
       /\ \A d \in Clients, l \in FeedLevels :
             ~(d = c /\ l = x) => initial'[d][l] = initial[d][l]
  BY <1>1, <1>10
<1>14. initial'[c][x] = FALSE
  BY <1>1, <1>10
<1>15. FeedTypeOK'
  <2>1. inbox' \in [Clients -> Seq([level : FeedLevels, items : Seq(Items)])]
    BY <1>1, <1>11, HeadTailProperties DEF Messages
  <2>2. \A d \in Clients, l \in FeedLevels : Len(view'[d][l]) <= Capacity
    <3>1. \A d \in Clients, l \in FeedLevels : Len(view[d][l]) <= Capacity
      BY DEF FeedInv, FeedTypeOK
    <3> QED BY <1>7, <1>12, <3>1
  <2> QED BY <1>11, <1>12, <1>13, <2>1, <2>2 DEF FeedInv, FeedTypeOK
<1>16. ASSUME NEW l \in FeedLevels PROVE RingInv(l)'
  BY <1>11 DEF FeedInv, RingInv
<1>17. ASSUME NEW d \in Clients, NEW l \in FeedLevels PROVE PageInv(d, l)'
  <2>1. CASE d # c
    <3>1. inbox'[d] = inbox[d]
      BY <1>1, <1>11, <2>1
    <3>2. PageInv(d, l)
      BY DEF FeedInv
    <3>3. Kept(d, l)' = Kept(d, l)
      BY <1>12, <1>13, <2>1 DEF Kept
    <3> QED BY <1>11, <3>1, <3>2, <3>3 DEF PageInv
  <2>2. CASE d = c /\ conn[c] = "open"
    <3>1. Served(Kept(c, l), inbox[c], l, last[l], ~passedOver[c])
      BY <2>2 DEF FeedInv, PageInv
    <3>2. PICK k \in Seq(Items) : k = Kept(c, l)
      BY KeptType DEF FeedInv
    <3>3. PICK r \in Seq(Items) : r = IF Head(inbox[c]).level = l THEN Head(inbox[c]).items ELSE <<>>
      BY <1>2, <1>3, <1>4, EmptySeq
    <3>4. last[l] \in Nat
      BY DEF FeedInv, FeedTypeOK
    <3>5. Served(Newest(k \o r), Tail(inbox[c]), l, last[l], ~passedOver[c])
      BY <1>1, <3>1, <3>2, <3>3, <3>4, MessageHandled
    <3>6. Kept(c, l)' = Newest(k \o r)
      <4>1. CASE l = x
        <5>1. r = items /\ k = kept
          BY <1>2, <1>3, <1>4, <1>5, <3>2, <3>3, <4>1
        <5> QED BY <1>6, <1>12, <1>14, <4>1, <5>1 DEF Kept
      <4>2. CASE l # x
        <5>1. r = <<>>
          BY <1>2, <1>3, <3>3, <4>2
        <5>2. k \o r = k
          BY <5>1, ConcatEmptySeq
        <5>3. Kept(c, l)' = Kept(c, l)
          BY <1>12, <1>13, <4>2 DEF Kept
        <5>4. Len(k) <= Capacity
          <6>1. Len(<<>>) <= Capacity
            BY EmptySeq, FeedAssumption
          <6>2. Len(view[c][l]) <= Capacity
            BY DEF FeedInv, FeedTypeOK
          <6> QED BY <3>2, <6>1, <6>2 DEF Kept
        <5>5. Newest(k) = k
          BY <5>4, FeedAssumption, LenProperties DEF Newest
        <5> QED BY <3>2, <5>2, <5>3, <5>5
      <4> QED BY <4>1, <4>2
    <3>7. inbox'[c] = Tail(inbox[c])
      BY <1>1, <1>11
    <3> QED BY <1>11, <2>2, <3>5, <3>6, <3>7 DEF PageInv
  <2>3. CASE d = c /\ conn[c] # "open"
    BY <1>11, <2>3 DEF PageInv
  <2> QED BY <2>1, <2>2, <2>3
<1> QED BY <1>15, <1>16, <1>17 DEF FeedInv

LEMMA FeedStep == FeedInv /\ [FeedNext]_feedVars => FeedInv'
<1> SUFFICES ASSUME FeedInv, [FeedNext]_feedVars PROVE FeedInv'
  OBVIOUS
<1>1. ASSUME NEW w \in Writers, Push(w) PROVE FeedInv'
  BY <1>1, PushFeed
<1>2. ASSUME NEW w \in Writers, NEW l \in FeedLevels, WriteToFile(w, l) PROVE FeedInv'
  BY <1>2, WriteToFileFeed
<1>3. CASE Broadcast
  BY <1>3, BroadcastFeed
<1>4. ASSUME NEW c \in Clients, Open(c) PROVE FeedInv'
  BY <1>4, OpenFeed
<1>5. ASSUME NEW c \in Clients, Close(c) PROVE FeedInv'
  BY <1>5, CloseFeed
<1>6. ASSUME NEW c \in Clients, Receive(c) PROVE FeedInv'
  BY <1>6, ReceiveFeed
<1>7. CASE UNCHANGED feedVars
  BY <1>7 DEF feedVars, FeedInv, FeedTypeOK, RingInv, PageInv, Kept
<1> QED BY <1>1, <1>2, <1>3, <1>4, <1>5, <1>6, <1>7 DEF FeedNext

\* Whatever joins, leaves, falls behind or is logged meanwhile: the rings are
\* numbered without a gap, and what an open page keeps and has before it is
\* served up to the version broadcast.
THEOREM FeedInvariant == FeedSpec => []FeedInv
<1>1. FeedSpec => FeedInit /\ [][FeedNext]_feedVars
  BY PTL DEF FeedSpec
<1> QED BY <1>1, InitFeed, FeedStep, PTL

LEMMA ServedIsReceived ==
    ASSUME FeedInv, NEW c \in Clients, NEW l \in FeedLevels, conn[c] = "open"
    PROVE  InOrder(c, l) /\ (~passedOver[c] => Complete(c, l))
<1>1. PICK P : P = Parts(Kept(c, l), inbox[c], l)
  OBVIOUS
<1>2. PICK n \in Nat : n = Len(inbox[c])
  BY KeptType, LenProperties DEF FeedInv
<1>3. \A k \in 0..n : Part(c, l, k) = P[k]
  BY <1>1, <1>2 DEF Parts, Part, Kept
<1>4. /\ Orderly(P, n, last[l])
      /\ ~passedOver[c] => Window(P, n, last[l])
  BY <1>1, <1>2 DEF FeedInv, PageInv, Served
<1>5. \A k \in 0..n : P[k] \in Seq(Items) /\ Len(P[k]) \in Nat /\ DOMAIN P[k] = 1..Len(P[k])
  BY <1>4, LenProperties DEF Orderly
<1>6. InOrder(c, l)
  <2>1. ASSUME NEW j \in 0..n, NEW k \in 0..n, NEW i \in DOMAIN P[j], NEW m \in DOMAIN P[k],
               j < k \/ (j = k /\ i < m)
        PROVE  P[j][i].seq < P[k][m].seq
    <3>1. i \in 1..Len(P[j]) /\ m \in 1..Len(P[k]) /\ P[k] \in Seq(Items)
      BY <1>5
    <3>2. CASE j < k
      BY <1>4, <3>1, <3>2 DEF Orderly
    <3>3. CASE j = k /\ i < m
      <4>1. P[k][i].seq + (m - i) <= P[k][m].seq
        BY <1>4, <3>1, <3>3 DEF Orderly, Spread
      <4>2. P[k][i].seq \in Nat /\ P[k][m].seq \in Nat
        BY <3>1, <3>3, NumbersAreNat
      <4>3. P[k][i].seq < P[k][m].seq
        BY <1>5, <3>1, <3>3, <4>1, <4>2
      <4> QED BY <3>3, <4>3
    <3> QED BY <2>1, <3>2, <3>3
  <2> QED BY <1>2, <1>3, <2>1 DEF InOrder
<1>7. ASSUME ~passedOver[c] PROVE Complete(c, l)
  <2>1. \A k \in 0..n : \A i \in DOMAIN P[k] : P[k][i].seq <= last[l]
    BY <1>4, <1>5 DEF Orderly
  <2>2. \A x \in 1..last[l] : x + Capacity > last[l] =>
           \E k \in 0..n : \E i \in DOMAIN P[k] : P[k][i].seq = x
    BY <1>4, <1>5, <1>7 DEF Window
  <2> QED BY <1>2, <1>3, <2>1, <2>2 DEF Complete
<1> QED BY <1>6, <1>7

\* Every open page has each entry at most once and in order, and unless it was
\* passed over has all those of its window: for any number of pages, loggers
\* and entries, any capacity and any pace of the pages (WsServer::onOpen,
\* broadcastIfChanged, receiveFaultBuffer).
THEOREM FeedReceived == FeedSpec => []AllReceiveAll
<1>1. FeedInv => AllReceiveAll
  BY ServedIsReceived DEF AllReceiveAll
<1> QED BY <1>1, FeedInvariant, PTL
=============================================================================
