---------------------------- MODULE PageSession ----------------------------
(***************************************************************************)
(* One page of the monitor and its connection to the daemon: the WebSocket *)
(* client with its reconnection (ws_client.js), the bootstrap of the page, *)
(* its handlers and the access level (monitor.js), the Save button         *)
(* (monitor_table.js), and the alarm that every snapshot evaluates (module *)
(* Alarm).  The daemon appears as what it sends and what it answers        *)
(* (ws_server.h, hv_aggregator.h).                                         *)
(*                                                                         *)
(* Both directions of a connection are FIFO queues that a cut empties.     *)
(* A snapshot is abstracted to whether it shows a fault, an aggregation    *)
(* point to its number, and a password to whether it opens the level asked *)
(* for.  The status messages of the crates are left out.                   *)
(***************************************************************************)
EXTENDS Alarm, Sequences, SequencesExt, FiniteSets

CONSTANTS
  MaxEvents,    \* bound: connections cut, requests of the user, changes of the
                \* hardware and aggregation points, together
  MaxQueue      \* bound: the daemon publishes only with fewer messages under way

ASSUME BoundsAssumption == MaxEvents \in Nat /\ MaxQueue \in Nat \ {0}

VARIABLES
  \* the daemon
  hw,          \* the sources that show a fault
  passwords,   \* authRequired()
  level,       \* ClientInfo::accessLevel of this page's connection
  flushed,     \* aggregation points computed so far
  taken,       \* of these, the points already taken for broadcast
  requester,   \* settings_requester_ while settings_pending_: this page's
               \* connection or an "other" one; "none" when nothing is pending
  \* the connection
  sock,        \* "closed" (a timer will reconnect), "connecting" or "open"
  wire, toDaemon,
  \* the page
  initData,    \* _initData: the init message of this connection, or none
  booted,      \* bootstrapped
  once,        \* sources whose first snapshot a readAll or readBoards waits for
  loaded,      \* what the page has loaded of its static parts
  accessLevel,
  allowed,     \* the level the buttons are enabled for (updateAccessUI)
  pill,        \* the connection pill says "live"
  saveBtn,     \* the Save button: "Save" or "Saving"
  series,      \* the aggregation points of the HV Monitor tab
  \* history and bounds
  events,
  lost,        \* points broadcast while this page was not there to take them
  early,       \* points in the init message and still to be broadcast
  lostSave,    \* a cut took a save request or its answer
  overtaken,   \* another page asked before the answer to this page was sent
  refused      \* "none", or what was under way when a refused command was sent

daemonVars == <<hw, passwords, level, flushed, taken, requester>>
linkVars == <<sock, wire, toDaemon>>
bootVars == <<initData, booted, once, loaded, series>>
viewVars == <<accessLevel, allowed, pill, saveBtn>>
historyVars == <<lost, early, lostSave, overtaken, refused>>
vars == <<events, alarmVars, daemonVars, linkVars, bootVars, viewVars, historyVars>>

NoInit == [level |-> 0, points |-> 0, none |-> TRUE]
InitMsg(l, n) == [level |-> l, points |-> n, none |-> FALSE]
Static == {"cards", "boards", "geometry", "history", "config"}

Snapshot(src) == [type |-> src, fault |-> src \in hw]
Snapshots == <<Snapshot("ch"), Snapshot("bd"), Snapshot("bst")>>
Opening == IF passwords THEN 0 ELSE 2

Init ==
  /\ AlarmInit
  /\ hw = {}
  /\ passwords \in BOOLEAN
  /\ level = 0 /\ flushed = 0 /\ taken = 0 /\ requester = "none"
  /\ sock = "connecting" /\ wire = <<>> /\ toDaemon = <<>>
  /\ initData = NoInit
  /\ booted = FALSE /\ once = {} /\ loaded = {} /\ series = <<>>
  /\ accessLevel = 0 /\ allowed = 0
  /\ pill = FALSE /\ saveBtn = "Save"
  /\ events = 0
  /\ lost = {} /\ early = {} /\ lostSave = FALSE /\ overtaken = FALSE
  /\ refused = "none"

Event == events < MaxEvents /\ events' = events + 1

-----------------------------------------------------------------------------
(* The connection. *)

\* new WebSocket, two seconds after the last one closed.
Connect ==
  /\ sock = "closed"
  /\ sock' = "connecting"
  /\ initData' = NoInit
  /\ AlarmQuiet
  /\ UNCHANGED <<events, daemonVars, wire, toDaemon, booted, once, loaded,
                 series, viewVars, historyVars>>

\* Mutant: a connection that ends takes the listeners of readAll with it.
WaitingDropped == IF booted THEN {} ELSE {"ch", "bst"}
\* The listeners of readAll outlive a connection that ends before they are called.
Waiting == IF booted THEN once ELSE {"ch", "bst"}

\* WsServer::onOpen and the page's onopen: the daemon sends the init message
\* and every snapshot; the page boots the first time and asks for its level.
Open ==
  /\ sock = "connecting"
  /\ sock' = "open"
  /\ level' = Opening
  /\ wire' = <<[type |-> "init", level |-> Opening, points |-> flushed]>> \o Snapshots
  /\ booted' = TRUE
  /\ once' = Waiting
  /\ early' = IF "history" \in loaded THEN early ELSE taken + 1 .. flushed
  /\ AlarmQuiet
  /\ UNCHANGED <<events, hw, passwords, flushed, taken, requester, toDaemon, initData,
                 loaded, series, viewVars, lost, lostSave, overtaken, refused>>

PointsOf(m) == IF m.type = "agg" THEN ToSet(m.points) ELSE {}

\* Mutant: the pill is left as it is.
PillAfterCutKept == pill
PillAfterCut == FALSE
LevelAfterCut == 0

\* A connection ends or an attempt fails: onclose, and the handler of monitor.js.
\* The buttons keep the level they were enabled for, the Save button stays as
\* it is.  The daemon keeps the handle that an answer would go to.
Cut ==
  /\ sock # "closed"
  /\ Event
  /\ sock' = "closed"
  /\ wire' = <<>> /\ toDaemon' = <<>>
  /\ pill' = PillAfterCut
  /\ accessLevel' = LevelAfterCut
  /\ lost' = lost \union UNION {PointsOf(wire[i]) : i \in DOMAIN wire}
  /\ lostSave' = (lostSave \/ saveBtn = "Saving")
  /\ requester' = IF requester = "page" THEN "other" ELSE requester
  /\ AlarmQuiet
  /\ UNCHANGED <<hw, passwords, level, flushed, taken, bootVars, allowed, saveBtn,
                 early, overtaken, refused>>

-----------------------------------------------------------------------------
(* The daemon. *)

Send(m) == wire' = IF sock = "open" THEN Append(wire, m) ELSE wire

HardwareChanges ==
  /\ Event
  /\ \E src \in Sources : hw' = (hw \ {src}) \union ({src} \ hw)
  /\ AlarmQuiet
  /\ UNCHANGED <<passwords, level, flushed, taken, requester, linkVars, bootVars,
                 viewVars, historyVars>>

\* broadcastIfChanged, when the pollers have stored a new cycle.
Broadcast ==
  /\ sock = "open" /\ Len(wire) < MaxQueue
  /\ wire' = wire \o Snapshots
  /\ AlarmQuiet
  /\ UNCHANGED <<events, daemonVars, sock, toDaemon, bootVars, viewVars, historyVars>>

Flush ==
  /\ Event
  /\ flushed' = flushed + 1
  /\ AlarmQuiet
  /\ UNCHANGED <<hw, passwords, level, taken, requester, linkVars, bootVars,
                 viewVars, historyVars>>

\* Mutant: the delta is not emptied when it is taken.
DeltaUncleared == [i \in 1 .. flushed |-> i]
\* takeDeltaJson
Delta == [i \in 1 .. flushed - taken |-> taken + i]

\* takeDeltaJson in broadcastIfChanged, for this page and the others.  While
\* this page is away the step is taken only if another one is connected.
BroadcastDelta ==
  /\ taken < flushed
  /\ taken' = flushed
  /\ Send([type |-> "agg", points |-> Delta])
  /\ lost' = IF sock = "open" THEN lost ELSE lost \union taken + 1 .. flushed
  /\ AlarmQuiet
  /\ UNCHANGED <<events, hw, passwords, level, flushed, requester, sock, toDaemon,
                 bootVars, viewVars, early, lostSave, overtaken, refused>>

\* handleAuth: a request that is denied leaves the connection a guest.
Granted(c) == IF c.ask = 0 \/ ~passwords \/ c.good THEN c.ask ELSE 0

\* WsServer::onMessage on the oldest message of the page.
Serve ==
  /\ toDaemon # <<>>
  /\ toDaemon' = Tail(toDaemon)
  /\ LET c == Head(toDaemon)
     IN \/ /\ c.type = "auth"
           /\ level' = Granted(c)
           /\ Send([type |-> "auth_result", granted |-> Granted(c)])
           /\ UNCHANGED <<requester, refused>>
        \/ /\ c.type = "power"
           /\ refused' = IF level < 1 THEN c.asking ELSE refused
           /\ UNCHANGED <<level, requester, wire>>
        \/ /\ c.type = "save"
           /\ requester' = "page"
           /\ UNCHANGED <<level, wire, refused>>
  /\ AlarmQuiet
  /\ UNCHANGED <<events, hw, passwords, flushed, taken, sock, bootVars,
                 viewVars, lost, early, lostSave, overtaken>>

\* onMessage on a save request of another page: the one slot becomes its own.
OtherSaves ==
  /\ Event
  /\ requester' = "other"
  /\ overtaken' = (overtaken \/ requester = "page")
  /\ AlarmQuiet
  /\ UNCHANGED <<hw, passwords, level, flushed, taken, linkVars, bootVars, viewVars,
                 lost, early, lostSave, refused>>

\* The settings part of broadcastIfChanged: the next response goes to the
\* connection in the slot, whichever request it answers; one that finds nothing pending is dropped.
Answer ==
  /\ requester # "none"
  /\ requester' = "none"
  /\ IF requester = "page" THEN Send([type |-> "settings"]) ELSE UNCHANGED wire
  /\ AlarmQuiet
  /\ UNCHANGED <<events, hw, passwords, level, flushed, taken, sock, toDaemon, bootVars,
                 viewVars, historyVars>>

-----------------------------------------------------------------------------
(* The page's handlers (DaemonClient::_handleMessage). *)

Receive(type) == wire # <<>> /\ Head(wire).type = type /\ wire' = Tail(wire)

\* Mutant: the buttons are not updated.
ShowLevelPillOnly(l) == accessLevel' = l /\ UNCHANGED allowed
\* updateAccessPill and updateAccessUI
ShowLevel(l) == accessLevel' = l /\ allowed' = l

ReceiveInit ==
  /\ Receive("init")
  /\ LET m == Head(wire)
     IN /\ initData' = InitMsg(m.level, m.points)
        /\ ShowLevel(m.level)
  /\ AlarmQuiet
  /\ UNCHANGED <<events, daemonVars, sock, toDaemon, booted, once, loaded, series,
                 pill, saveBtn, historyVars>>

\* onHVMonAggHistory, on the history of the init message.
Seed == [i \in 1 .. initData.points |-> i]

\* The callback of readAll in bootstrap: everything else the page loads once.
\* The daemon sends the init message before the first channels and boards after
\* them: the init data are there and readBoards has to wait.
FirstChannels ==
  /\ loaded' = loaded \union {"geometry", "history", "config"}
  /\ once' = (once \ {"ch"}) \union {"bd"}
  /\ series' = Seed
  /\ pill' = TRUE

ReceiveSnapshot(src) ==
  /\ Receive(src)
  /\ Evaluate((faults \ {src}) \union (IF Head(wire).fault THEN {src} ELSE {}))
  /\ IF src = "ch" /\ "ch" \in once
     THEN FirstChannels
     ELSE /\ once' = once \ {src}
          /\ loaded' = IF src \in once
                       THEN loaded \union {IF src = "bd" THEN "boards" ELSE "cards"}
                       ELSE loaded
          /\ UNCHANGED <<series, pill>>
  /\ UNCHANGED <<events, daemonVars, sock, toDaemon, initData, booted,
                 accessLevel, allowed, saveBtn, historyVars>>

\* onHVMonAggUpdate
ReceiveDelta ==
  /\ Receive("agg")
  /\ series' = series \o Head(wire).points
  /\ AlarmQuiet
  /\ UNCHANGED <<events, daemonVars, sock, toDaemon, initData, booted, once, loaded,
                 viewVars, historyVars>>

\* onAuthResult
ReceiveAuthResult ==
  /\ Receive("auth_result")
  /\ ShowLevel(Head(wire).granted)
  /\ AlarmQuiet
  /\ UNCHANGED <<events, daemonVars, sock, toDaemon, bootVars, pill, saveBtn, historyVars>>

ReceiveSettings ==
  /\ Receive("settings")
  /\ saveBtn' = "Save"
  /\ AlarmQuiet
  /\ UNCHANGED <<events, daemonVars, sock, toDaemon, bootVars, accessLevel, allowed, pill,
                 historyVars>>

-----------------------------------------------------------------------------
(* The user. *)

\* DaemonClient::_send: without an open connection the message is dropped.
Ask(c) ==
  /\ Event
  /\ toDaemon' = IF sock = "open" THEN Append(toDaemon, c) ELSE toDaemon
  /\ AlarmQuiet
  /\ UNCHANGED <<daemonVars, sock, wire, bootVars, accessLevel, allowed, pill,
                 early, lost, overtaken, refused>>

Login(l, good) ==
  /\ Ask([type |-> "auth", ask |-> l, good |-> good])
  /\ UNCHANGED <<saveBtn, lostSave>>

Holds(queue, type) == \E i \in DOMAIN queue : queue[i].type = type

AuthUnderWay ==
  IF Holds(toDaemon, "auth") \/ Holds(wire, "auth_result") THEN "login" ELSE "nothing"

\* A power command: enabled by updateAccessUI, checked again in the handler.
Power ==
  /\ allowed >= 1 /\ accessLevel >= 1
  /\ Ask([type |-> "power", asking |-> AuthUnderWay])
  /\ UNCHANGED <<saveBtn, lostSave>>

Save ==
  /\ booted /\ saveBtn = "Save"
  /\ saveBtn' = "Saving"
  /\ Ask([type |-> "save"])
  /\ lostSave' = (sock # "open")

Mute ==
  /\ Event
  /\ ToggleMute
  /\ UNCHANGED <<daemonVars, linkVars, bootVars, viewVars, historyVars>>

Time ==
  /\ Tick
  /\ UNCHANGED <<events, daemonVars, linkVars, bootVars, viewVars, historyVars>>

Handle ==
  \/ ReceiveInit \/ ReceiveDelta
  \/ ReceiveAuthResult \/ ReceiveSettings
  \/ \E src \in Sources : ReceiveSnapshot(src)

Next ==
  \/ Connect \/ Open \/ Cut
  \/ HardwareChanges \/ Broadcast \/ Flush \/ BroadcastDelta
  \/ Serve \/ OtherSaves \/ Answer
  \/ Handle
  \/ Power \/ Save \/ Mute \/ Time
  \/ \E l \in 0..2, good \in BOOLEAN : Login(l, good)

\* The page's timers and its event loop run, the daemon accepts connections,
\* polls and broadcasts; users and hardware are free to do nothing.
Fairness ==
  /\ WF_vars(Connect) /\ WF_vars(Open) /\ WF_vars(Handle)
  /\ WF_vars(Serve) /\ SF_vars(Broadcast) /\ WF_vars(Time)

Spec == Init /\ [][Next]_vars /\ Fairness
-----------------------------------------------------------------------------
(* What is checked. *)

Requests ==
  [type : {"auth"}, ask : 0..2, good : BOOLEAN]
    \union [type : {"power"}, asking : {"login", "nothing"}]
    \union [type : {"save"}]

Messages ==
  [type : {"init"}, level : 0..2, points : Nat]
    \union [type : Sources, fault : BOOLEAN]
    \union [type : {"agg"}, points : Seq(Nat)]
    \union [type : {"auth_result"}, granted : 0..2]
    \union [type : {"settings"}]

\* Messages, points and levels are what the handlers expect: a level is one of
\* the three whatever was asked, and what the page waits for it can be sent.
TypeOK ==
  /\ AlarmTypeOK
  /\ hw \in SUBSET Sources /\ passwords \in BOOLEAN /\ level \in 0..2
  /\ flushed \in Nat /\ taken \in Nat /\ requester \in {"none", "page", "other"}
  /\ sock \in {"closed", "connecting", "open"}
  /\ wire \in Seq(Messages) /\ toDaemon \in Seq(Requests)
  /\ initData \in [level : 0..2, points : Nat, none : BOOLEAN]
  /\ booted \in BOOLEAN /\ once \in SUBSET Sources /\ loaded \in SUBSET Static
  /\ series \in Seq(Nat)
  /\ accessLevel \in 0..2 /\ allowed \in 0..2
  /\ pill \in BOOLEAN /\ saveBtn \in {"Save", "Saving"}
  /\ events \in Nat
  /\ lost \in SUBSET Nat /\ early \in SUBSET Nat
  /\ lostSave \in BOOLEAN /\ overtaken \in BOOLEAN
  /\ refused \in {"none", "login", "nothing"}

\* When no message is under way to the page, the level it shows and the level
\* its buttons are enabled for are the one the daemon checks its commands
\* against: over reconnections, denied logins and logouts (onDisconnect,
\* onAuthResult and updateAccessUI of monitor.js against handleAuth).  And a
\* power command that the page let through is refused only if the answer to a
\* login was still outstanding when it was sent; in particular no level of an
\* earlier connection survives in the page.
AccessAgrees ==
  /\ sock = "open" /\ wire = <<>> => accessLevel = level /\ allowed = level
  /\ refused # "nothing"

Count(p) == Cardinality({i \in DOMAIN series : series[i] = p})

\* The aggregated plot against the daemon's history: once everything has
\* arrived, a point is missing only if it was broadcast while the page was not
\* connected, and drawn twice only if it was computed but not yet broadcast
\* when the page joined (the init message and the next delta both carry it).
SeriesExplained ==
  sock = "open" /\ "history" \in loaded /\ taken = flushed /\ ~Holds(wire, "agg") =>
    \A p \in 1..flushed : /\ Count(p) = 0 => p \in lost
                          /\ Count(p) > 1 => p \in early

\* "live" is shown only over an open connection, and a Save button that stays
\* disabled has an answer coming, lost it with a connection, or lost it to
\* another page (the daemon remembers one requester): nothing else can take it.
ControlsTellTheLink ==
  /\ pill => sock = "open"
  /\ saveBtn = "Saving" =>
       \/ Holds(toDaemon, "save") \/ requester = "page" \/ Holds(wire, "settings")
       \/ lostSave \/ overtaken

\* However the connection was cut while the page booted, the page gets all of
\* its static parts, and in the end shows the faults that the hardware has.
PageCatchesUp ==
  <>[](/\ loaded = Static
       /\ faults = hw /\ button.dots = hw /\ button.on = (hw # {}))

\* While a page is connected, a fault it shows makes it beep again and again
\* (since falls back to zero) unless the user mutes it.
AlarmHeard ==
  (active /\ ~muted /\ sock = "open")
    ~> (since = 0 \/ ~active \/ muted \/ sock # "open")

\* A silenced alarm stays silent until the user unmutes it or no source shows a
\* fault any more, also over a reconnection (header of monitor_alarm.js).
MutedUntilClear ==
  [][active /\ muted /\ active' => muted' \/ ToggleMute]_vars
=============================================================================
