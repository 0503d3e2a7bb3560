---------------------------- MODULE FaultTracker ----------------------------
(***************************************************************************)
(* Fault tracking in the HV poll thread: the second half of                *)
(* HVPoller::doPoll, which reports every board and channel of the          *)
(* connected crates to FaultTracker::update and closes the cycle with      *)
(* FaultTracker::endCycle.  Entries are kept per key, because the key is   *)
(* what pairs them: the order between two keys (which endCycle takes from  *)
(* an unordered map) is left out.                                          *)
(*                                                                         *)
(* Commands run between two cycles in the same thread; of them only        *)
(* set_name matters here.  A restart is a clean one: the poll loop is      *)
(* stopped between two iterations, and the log file outlives it.           *)
(***************************************************************************)
EXTENDS ChannelStatus, Naturals, Sequences, FiniteSets

CONSTANTS
    Crates, Channels, Boards,
    CrateOf,          \* the crate of each channel and board
    NamesOf,          \* the names each channel may bear
    PolledReadings,   \* the readings a poll may find
    BoardReadings,    \* the bits of a board status word a poll may find
    MaxPolls,         \* bound: full poll cycles
    MaxRestarts       \* bound: restarts of the daemon

\* FaultTracker's maps are keyed by string: channel names and board ids.
Keys == Names \cup Boards

ASSUME TrackerAssumption ==
    /\ Names \cap Boards = {}
    /\ CrateOf \in [Channels \cup Boards -> Crates]
    /\ NamesOf \in [Channels -> SUBSET Names]
    /\ PolledReadings \subseteq Readings
    /\ BoardReadings \subseteq SUBSET BoardFlags
    /\ MaxPolls \in Nat /\ MaxRestarts \in Nat

VARIABLES
    name,      \* name[ch]: the channel's current name
    prev,      \* prev[k]: last status and level of k (prev_status_, prev_level_)
    seen,      \* keys updated in this cycle (seen_)
    todo,      \* boards and channels this cycle has still to report
    tracking,  \* a cycle is in progress
    log,       \* log[k]: the entries the fault log file holds about k
    polls, restarts,
    polled     \* history: prev as the last complete cycle left it

vars == <<name, prev, seen, todo, tracking, log, polls, restarts, polled>>

Levels == {"FAULT", "WARN"}

\* A key absent from the maps behaves like one whose status is empty.
NotTracked == [status |-> {}, level |-> "FAULT"]

Entry(dir, alarm) == [dir |-> dir, alarm |-> alarm]

IsActive(k) == IsFault(prev[k].status)

Init ==
    /\ name \in {f \in [Channels -> Names] : \A ch \in Channels : f[ch] \in NamesOf[ch]}
    /\ prev = [k \in Keys |-> NotTracked]
    /\ seen = {} /\ todo = {} /\ tracking = FALSE
    /\ log = [k \in Keys |-> <<>>]
    /\ polls = 0 /\ restarts = 0
    /\ polled = prev

-----------------------------------------------------------------------------
\* Mutants of Update: it writes gone and new as given, ...
UpdateWith(k, status, level, entries) ==
    /\ seen' = seen \cup {k}
    /\ log' = [log EXCEPT ![k] = @ \o entries]
    /\ prev' = [prev EXCEPT ![k] = [status |-> status, level |-> level]]

\* ... the end of an alarm with the level of the new status,
UpdateNewLevel(k, status, level) ==
    UpdateWith(k, status, level,
        IF prev[k].status = status THEN <<>>
        ELSE (IF IsActive(k) THEN <<Entry("DISAPPEAR", [prev[k] EXCEPT !.level = level])>>
                             ELSE <<>>)
             \o (IF IsFault(status)
                 THEN <<Entry("APPEAR", [status |-> status, level |-> level])>> ELSE <<>>))

\* ... the new alarm before the end of the old one,
UpdateNewFirst(k, status, level) ==
    UpdateWith(k, status, level,
        IF prev[k].status = status THEN <<>>
        ELSE (IF IsFault(status)
              THEN <<Entry("APPEAR", [status |-> status, level |-> level])>> ELSE <<>>)
             \o (IF IsActive(k) THEN <<Entry("DISAPPEAR", prev[k])>> ELSE <<>>))

\* ... the end of an alarm in every poll after it appeared.
UpdateAlwaysGone(k, status, level) ==
    UpdateWith(k, status, level,
        (IF IsActive(k) THEN <<Entry("DISAPPEAR", prev[k])>> ELSE <<>>)
        \o (IF IsFault(status) /\ prev[k].status # status
            THEN <<Entry("APPEAR", [status |-> status, level |-> level])>> ELSE <<>>))

\* FaultTracker::update
Update(k, status, level) ==
    LET old  == prev[k]
        gone == IF IsFault(old.status) /\ old.status # status
                THEN <<Entry("DISAPPEAR", old)>> ELSE <<>>
        new  == IF IsFault(status) /\ old.status # status
                THEN <<Entry("APPEAR", [status |-> status, level |-> level])>> ELSE <<>>
    IN  /\ seen' = seen \cup {k}
        /\ log' = [log EXCEPT ![k] = (@ \o gone) \o new]
        /\ prev' = [prev EXCEPT ![k] = [status |-> status, level |-> level]]

\* The set_name command, dispatched by the same thread before the poll.
Rename(ch, n) ==
    /\ ~tracking
    /\ n \in NamesOf[ch] /\ n # name[ch]
    /\ name' = [name EXCEPT ![ch] = n]
    /\ UNCHANGED <<prev, seen, todo, tracking, log, polls, restarts, polled>>

\* doPoll has read the crates: those in up are connected and will be tracked.
StartCycle(up) ==
    /\ ~tracking /\ polls < MaxPolls
    /\ tracking' = TRUE /\ polls' = polls + 1
    /\ todo' = {x \in Channels \cup Boards : CrateOf[x] \in up}
    /\ UNCHANGED <<name, prev, seen, log, restarts, polled>>

TrackBoard(bd, bits) ==
    /\ tracking /\ bd \in todo
    /\ Update(bd, GetBdStatusString(bits), "FAULT")
    /\ todo' = todo \ {bd}
    /\ UNCHANGED <<name, tracking, polls, restarts, polled>>

TrackChannel(ch, r) ==
    /\ tracking /\ ch \in todo
    /\ Update(name[ch], TrackStatus(name[ch], r), LogLevel(name[ch], r))
    /\ todo' = todo \ {ch}
    /\ UNCHANGED <<name, tracking, polls, restarts, polled>>

\* Mutant: keys not seen in the cycle are kept.
EndCycleKeepsUnseen ==
    /\ tracking /\ todo = {}
    /\ polled' = prev
    /\ seen' = {} /\ tracking' = FALSE
    /\ UNCHANGED <<name, prev, todo, log, polls, restarts>>

EndCycle ==
    /\ tracking /\ todo = {}
    /\ log' = [k \in Keys |-> IF k \notin seen /\ IsActive(k)
                              THEN Append(log[k], Entry("DISAPPEAR", prev[k]))
                              ELSE log[k]]
    /\ prev' = [k \in Keys |-> IF k \in seen THEN prev[k] ELSE NotTracked]
    /\ polled' = prev'
    /\ seen' = {} /\ tracking' = FALSE
    /\ UNCHANGED <<name, todo, polls, restarts>>

\* The maps live in memory only; the log file is opened for appending again.
Restart ==
    /\ ~tracking /\ restarts < MaxRestarts
    /\ restarts' = restarts + 1
    /\ prev' = [k \in Keys |-> NotTracked]
    /\ polled' = prev'
    /\ UNCHANGED <<name, seen, todo, tracking, log, polls>>

Next ==
    \/ \E ch \in Channels : \E n \in Names : Rename(ch, n)
    \/ \E up \in SUBSET Crates : StartCycle(up)
    \/ \E bd \in Boards, bits \in BoardReadings : TrackBoard(bd, bits)
    \/ \E ch \in Channels, r \in PolledReadings : TrackChannel(ch, r)
    \/ EndCycle
    \/ Restart

Spec == Init /\ [][Next]_vars

-----------------------------------------------------------------------------
Tokens == [flag : NormalTokens \cup ErrorFlags \cup BoardFlags \cup {"DVW"},
           ignored : BOOLEAN]
Alarm == [status : SUBSET Tokens, level : Levels]
Entries == [dir : {"APPEAR", "DISAPPEAR"}, alarm : Alarm]

\* Every variable holds a value of its C++ type, and a cycle reports only
\* things it has not reported yet.
TypeOK ==
    /\ name \in [Channels -> Names]
    /\ prev \in [Keys -> Alarm] /\ polled \in [Keys -> Alarm]
    /\ seen \in SUBSET Keys
    /\ todo \in SUBSET (Channels \cup Boards)
    /\ tracking \in BOOLEAN
    /\ log \in [Keys -> Seq(Entries)]
    /\ polls \in Nat /\ restarts \in Nat

\* faultgrep -p: the (name, status) pairs of FAULT level that appear without a
\* later disappearance.
Persistent(k) ==
    {i \in DOMAIN log[k] :
        /\ log[k][i].dir = "APPEAR" /\ log[k][i].alarm.level = "FAULT"
        /\ \A j \in DOMAIN log[k] :
              j > i => ~ /\ log[k][j].dir = "DISAPPEAR"
                         /\ log[k][j].alarm.level = "FAULT"
                         /\ log[k][j].alarm.status = log[k][i].alarm.status}

\* faultgrep's promise (faultgrep.py, "faults still active at the end of the
\* log"): what it lists for a key is that key's active FAULT, and nothing else.
FaultgrepExact ==
    \A k \in Keys :
        {log[k][i].alarm.status : i \in Persistent(k)} =
            IF IsActive(k) /\ prev[k].level = "FAULT" THEN {prev[k].status} ELSE {}

\* As long as the daemon has not been restarted over the same log.
FaultgrepExactInOneLife == restarts = 0 => FaultgrepExact

\* The half of it that survives a restart of the daemon: no active FAULT is
\* missing from the list.
FaultgrepComplete ==
    \A k \in Keys : IsActive(k) /\ prev[k].level = "FAULT" =>
        \E i \in Persistent(k) : log[k][i].alarm.status = prev[k].status

\* The level of an entry says whether the hardware reports an error nobody
\* asked to ignore.  The level is chosen by the classifier and the token set
\* by the tracker, each with its own list of words; ring buffer, colour and
\* console output all follow the level.
LevelMeansHardware ==
    \A k \in Keys : \A i \in DOMAIN log[k] :
        LET alarm == log[k][i].alarm
        IN  alarm.level = "FAULT" <=> HasFault(alarm.status \ {Token("DVW", FALSE)})

\* Nothing else reports under the key k (the maps do not tell two channels of
\* one name apart).
BorneByOne(k) == \A c, d \in Channels : name[c] = k /\ name[d] = k => c = d

\* fault_logger.h: APPEAR is "a fault status that was not present in the
\* previous poll", for a name that one channel bears.  And once a cycle is
\* over, every alarm still open belongs to a channel or board that this very
\* cycle read: a crate that dropped out or a name that was given up leaves
\* nothing open behind it.
NewWhenOpenedClosedWhenGone ==
    /\ [][\A k \in Keys : \A i \in DOMAIN log'[k] \ DOMAIN log[k] :
            BorneByOne(k) /\ log'[k][i].dir = "APPEAR" =>
                log'[k][i].alarm.status # polled[k].status]_vars
    /\ [][EndCycle => \A k \in Keys : IsActive(k)' =>
            \/ k \in Boards /\ k \in seen
            \/ \E ch \in Channels : name[ch] = k /\ k \in seen]_vars

\* The tracker writes the abstract alarm log: see AlarmLog.
Book == INSTANCE AlarmLog WITH
    Keys <- Keys,
    Alarms <- {a \in Alarm : IsFault(a.status)},
    NoAlarm <- NotTracked,
    active <- [k \in Keys |-> IF IsActive(k) THEN prev[k] ELSE NotTracked],
    log <- log

WritesAlarmLog == Book!AlarmSpec
=============================================================================
