# Specifications of prad2hvmon

prad2hvmon monitors and controls the high voltage of the PRad-II calorimeter:
CAEN crates through the vendor's library, TDK-Lambda booster supplies through
SCPI sockets, and any number of browser pages over WebSockets.  This directory
holds TLA+ specifications of the daemon and of the pages' side of its
protocols, TLC configurations that check them on small instances, and proofs
of the most important theorems for every instance.

Line numbers refer to the source tree; `PROJECT.json` maps every definition to
the lines it models.

## 1. Inventory

### 1.1 Threads and shared state

| thread | code | owns |
|---|---|---|
| HV poll thread | `HVPoller::run`, `include/hv_daemon.h` | crates, handles, parameter caches, pending overrides, reconnect records, fault tracker |
| booster poll thread | `BoosterPoller::run`, same file | supplies, sockets, its own overrides and fault tracker |
| web server thread | `WsServer`, `include/ws_server.h` | connections, access levels, versions sent, requesters, pending capture; its 100 ms timer does all sending |
| each page | `resources/*.js` | views, pending edits, callbacks of its requests |

They meet in three places: `CommandQueue` (pages to pollers, one mutex),
`SnapshotStore` (pollers to web server: a string and a version per topic, two
rings of fault entries, one slot per settings response, one mutex per topic),
and `FileFaultLogger` (both pollers, a mutex for the file and afterwards the
store's mutex for the ring).  A poll thread drains its commands at the start of
a cycle and then polls: commands never interleave with a poll.  The web server
is single-threaded: callbacks and timer run to their ends.  What does
interleave is every access to a lock of one thread with those of the others,
the network, and the hardware.

### 1.2 Components

| component | state and operations | what makes it correct | status |
|---|---|---|---|
| status strings and classification (`caen_channel.cpp`, `channel_classifier.h`) | pure: status word, suppression, level | an entry's level says whether the hardware has an error nobody asked to ignore | `ChannelStatus` |
| fault tracking and log (`fault_tracker.h`, `file_fault_logger.cpp`) | last status and level by name; `update`, `endCycle`, rename, restart | APPEAR and DISAPPEAR pair up; `faultgrep -p` lists the active faults | `FaultTracker`, `AlarmLog` |
| live fault feed (`FileFaultLogger::log`, `SnapshotStore`, `WsServer`, `monitor_faultlog.js`) | rings, versions, connections, lists of the pages | no gap, no duplicate, catch-up | `FaultFeed` |
| crate connection and polling (`HVPoller`, `caen_channel.cpp`) | handle, map, discovered parameters, fallback lists, back-off | retries on time, no leaked session, every channel read, recovery | `CrateLink` |
| setpoints, commands, overrides (`HVPoller`) | hardware, cache, overrides, files | no setpoint above the limit but those from outside; display converges; no writes to lost crates | `Setpoints` (V0Set only) |
| settings requests (`WsServer`, `SnapshotStore`, `HVPoller`, `ws_client.js`) | requester, flags, slots, callbacks | the page that asked gets its own answer | `SettingsRequest` |
| booster supplies (`booster_supply.h`, `BoosterPoller`) | socket, fields, error, overrides | fresh reads, losses explained, display converges | `BoosterSupply` |
| automatic reports (`WsServer`, `report.js`) | pending capture, reporters, clocks, summary | one report per request, no page asked twice | `AutoReport` |
| page: connection, start, access level, Save button (`ws_client.js`, `monitor.js`, `WsServer::onOpen`, `handleAuth`) | socket, init data, pending listeners, level of page and of daemon, pill, aggregated points | page and daemon agree on the level; the page gets everything after any cut; no point lost or doubled without a reason | `PageSession` |
| page: alarm (`monitor_alarm.js`) | alarm, mute, time of the last beep, evaluated after each snapshot | heard until muted, muted until clear | `Alarm` in `PageSession` |
| page: edits and power commands under way (`monitor_pending.js`, editors of table, map and boosters) | overlays with the value shown before the edit and their age; power commands with the snapshots since | stale snapshots do not undo an edit, other users' changes show, toasts tell the truth | `PendingEdits` |
| page: tabs, flags, popups, canvases, render loop (`monitor.js` and the tabs' files) | dirty flags, colour cache, canvases and their resize observers, dots | what is in view and out of date is drawn | `PageDisplay` |
| page: report capture (`report.js`) | coroutine per request, attachments, tab to go back to | a report has its own pictures, the page is left as it was | `ReportCapture` |
| page: channel table (`monitor_table.js`) | filters, typed text, rows in the window, cells being edited | bulk commands act on what is listed; buttons do what they say | `ChannelTable` |
| HV Monitor statistics and plots, colours and zoom of the map | arithmetic on the samples | results of a computation, not of an order of steps | when they are drawn only |
| VMon aggregation (`hv_aggregator.h`) | accumulators, ramping channels, deltas | no sample of a ramp in an average | its points in `PageSession` |
| access control (`WsServer`, HTTP and WebSocket) | level of each connection | no command above the level | WebSocket level in `PageSession` |
| VMon recorder (`vmon_recorder.h`) | day's file, tables, recovery | a reader can always parse the file | not modelled |
| settings auto and edit loggers, file operations | restore points, history files | history survives | not modelled |
| start, configuration, desktop wrapper | run once in a fixed order | none | not modelled |
| command-line tools | offline readers and converters | `faultgrep -p` appears as `Persistent`; the others planned or left out | not modelled |
| CAEN wrapper library | vendor's binary | outside; an environment that fails when the link is down | external |

### 1.3 What is hard here

The hazards are listed with their lines in `PROJECT.json`.  The recurring
ones: state of all clients that is updated on behalf of one (`onOpen`); a
single slot for several requesters; links that break between two library
calls, those that discover a board among them; answers on a stream that carries no request numbers; values shown
because they were asked for, not because they were read; alarms that live in
memory while their log does not; and late answers to requests that were given
to somebody else.  In the pages: snapshots that are older than what the user
has just done; flags shared by drawings of different tabs; coroutines that wait
while the user goes on; and controls that are set by events of one connection
and outlive it.

## 2. Modules

```
AlarmLog  <---- refined by ----  FaultTracker  extends  ChannelStatus
                                 MCFaultTracker, FaultLogProofs
FaultFeed         FaultLogProofs
CrateLink         MCCrateLink, CrateLinkProofs
Setpoints         MCSetpoints, SetpointsProofs
SettingsRequest   SettingsRequestProofs
BoosterSupply     BoosterSupplyProofs
ReportRequests  <---- refined by ----  AutoReport      ReportProofs
PageDisplay  <---- extended by ----  ReportCapture      MCReportCapture, ReportProofs
Alarm  <---- extended by ----  PageSession      PageSessionProofs
PendingEdits      PageTableProofs
ChannelTable      MCChannelTable, PageTableProofs
```

In every module, definitions marked "Mutant" are variants of the definition
after them with one plausible bug.  No specification uses them: they exist to
show that each checked property can fail.

**ChannelStatus** translates `GetStatusString`, `IsErrorSuppressed` and
`ChannelClassifier::classify`.  A status string is the set of its words; a
word is a flag with a mark telling whether the configuration suppresses it for
this channel.  `TrackStatus` and `LogLevel` are what `doPoll` (lines 526-547)
makes of it: the tracker is given the status with a word for a dV excess, and
the level the classifier chose.

**FaultTracker** is the second half of `doPoll`.  `StartCycle` fixes the
crates that are connected, `TrackBoard` and `TrackChannel` are the calls of
`update`, `EndCycle` is `endCycle`, `Rename` the only command that matters,
`Restart` a clean stop and start.  `prev` is `prev_status_` and `prev_level_`,
`log` the file.  The tracker is keyed by name, as in the code.  `AlarmLog` is
what it promises per key: at most one alarm at a time, its changes in the log
in order, and a restart that forgets.

**FaultFeed** splits `FileFaultLogger::log` at its two locks (`WriteToFile`,
`Push`), with two writers.  `Open` is `onOpen` with its effect on the versions
of all clients, `Broadcast` the fault part of `broadcastIfChanged` together
with `broadcastRaw`'s closing of slow clients, `Receive` the page's
`receiveFaultBuffer`.  `Broadcast` takes the versions of both levels in one
step; the code takes them under two locks, but each level is independent of
the other and a push in between is a push before or after for its level.
`NewerThan` is the walk of `dumpSince_`, which stops at the first entry the
client has; `Part`, `InOrder` and `Complete` say of a page's list, part by part
as it was received, what `AllReceiveAll` promises.

**CrateLink** has one action per library call of `initCrates`, `doPoll` and
`doFastPoll`, since the link can break between any two.  `session` is what
the handle refers to, `rs` is `crate_reconnect_`, `fallback` the list
`ReadAllParams` builds by probing when a bulk read fails.  A crate stands for
one board and one parameter, a number or a word (`Words`); the others are read in
the same way.  Mapping a crate is a row of calls too: `ReadCrateMap`,
`DiscoverChParams`, `DiscoverType` and the first `ReadAllParams`.  `info` is what
was discovered: a parameter that is not listed is never read again, and a word
whose type could not be asked is read as a number, which `GetUInt` does not find
(`Stored`).  Left out of the mapping are names, limits and modes.

**Setpoints** has `set_voltage`, `set_all_voltage`, save, load and full polls
as single steps of the poll thread; the fast polls between them read VMon only.
The crate takes a setpoint at once, reports it later (`Report`), refuses what is
above its own limit, and may drop its connection at any time (`Break`).  It starts
with any setpoint, and somebody may change one at its panel (`SetByHand`).
`LoadSaved` loads the file saved last, `LoadOther` any file a page may send; both
write what differs from the cache, with no regard to the limit.  A crate whose
parameters were not discovered is in `unknown`, one whose list of channels to read
is empty in `unread`: at the start, or when a link breaks in a poll (`failed`).
`outside` remembers the values that did not come from the daemon.

**SettingsRequest** follows a request from the page through the queue, the
response slot, and the two locks under which the timer takes response and
path.  Connections are numbered so that a reconnected page is another
connection.  `path` is the field `settings_saved_path_`.

**BoosterSupply** is one supply's TCP connection at the level where the
protocol can go wrong: commands on the wire, answers in flight, commands of
closed connections that arrive late, the timeout that closes the socket, and
the override that covers the setpoint.  Two of the six queries are kept; they
differ in what matters (one is overridden, one is not).

**AutoReport** has the timer's `autoReportTick` and `autoReportWatchdog`,
split by their outcomes, `handleElogPost`, and pages that may answer late,
never, or after they were given up.  Times are ages that stop counting where
they stop mattering.  **ReportRequests** is what the server promises: one request
at a time, one page after the other with its full time for each, and an end,
saved or dropped, that is final.

**Alarm** is `evaluateAlarm` as a function of the faults a snapshot shows, with
the mute button and the two ages of the beep throttle (`_lastBeepTime` and the
age of the page, which it falls back to).  **PageSession** evaluates it after
each snapshot of channels, boards or boosters, and adds everything around: both
directions of the connection as queues that a cut empties, the daemon's
`onOpen`, `handleAuth` and broadcasts, `takeDeltaJson`, and the page's
`_handleMessage`.  `once` holds the listeners that `readAll` and `readBoards`
leave behind, `loaded` the parts of the page they fill.  `requester` is the one
slot for whoever asked for a save: `OtherSaves` is another page's request, which
takes it over, and `Answer` sends the next answer to whom it names.

**PendingEdits** has one channel or one booster supply: `entry` is its overlay
in `pendingSets` (or `pendingBoosterSets`), `power` that in `pendingPower`.
Each place that edits is a parameter of an action: the popups set the page's
copy, the cards do not, the table leaves no overlay.  `Snapshot` is
`channelsUpdated` or `boosterUpdated` with `applyPendingSets` and
`applyPendingPower`.  The daemon is what it reports: commands in order, a clamp,
an interlock that may refuse, other users.  `linked` is its link to the crate or
supply: while that is down a command is dropped (`Skip`) and the snapshots repeat
what was read before.  `Null` is a value not read yet, as the page's copy and as
the original of an overlay.  `fate` follows the pending power command, so that a
toast can be compared with what became of it.

**PageDisplay** abstracts content to whether it is the newest (`stale`) and
keeps the whole control: which drawing takes down which flag, what only a flag
makes a tab draw, the throttles of the HV Monitor, the colour cache, canvases
that are drawn, emptied by a resize, or without a size, and the resize
observers.  A drawing is a function on that part of the state (`Drawn`,
`Opened`, `Render`), because clicks and captures are several of them in a row.
A module's popup has four parts (`ModuleParts`): its live fields, the texts that
are only written when it is built, the rows of its primary, and whether it has
one.  A drawing refreshes the first, and builds the popup again when the last has
changed (`RefreshAllPopups`).  A reconnection empties the lists of the fault log
and flags nothing (`Reconnect`).
**ReportCapture** adds `report.js`: each request is a coroutine that runs from
one await to the next, among everything the page does meanwhile.

**ChannelTable** is the table's filters, its virtual scroll (`Window`,
`DrawRows`), the rows that are patched, built or kept because a cell is being
edited, the power button of a row, and the bulk commands.  `Ranked` is the sort:
the member of rank i is the one that i - 1 others precede.

## 3. What is checked

Every run finishes in about two minutes on two cores.  Deadlock is checked
unless the run's bounds make the system stop, in which case the configuration
says so (`FaultTracker`, `FaultFeed`, `SettingsRequest`, `ReportCapture`,
`ChannelTable`: after the last poll, entry, request or click nothing is left to
do).

### 3.1 Runs that hold

| run | instance | properties |
|---|---|---|
| `FaultTracker` | 2 crates, 2 channels with 3 names, one of which both may bear, 1 board, 6 readings, 2 polls, 1 restart; 527 000 states | `FaultgrepExactInOneLife`, `FaultgrepComplete`, `LevelMeansHardware`, `NewWhenOpenedClosedWhenGone`, `WritesAlarmLog` (refinement) |
| `FaultFeed` | 2 pages, 2 writers, rings and send buffers of 2, 3 entries, 3 connections; 319 000 states | `AllReceiveAll`, `CatchesUp` |
| `CrateLink` | 2 crates of 2 channels, one with a number, one with a word, back-off up to 3, full poll every 2 cycles; 44 000 states, links may break at any point without limit | `RetryOnTime`, `OneSession`, `ReadsUnlessCut`, `Recovers` |
| `Setpoints` | 2 channels in 2 crates, 2 values, 3 commands, files, losses or changes by hand in all, overrides of 2 polls; 206 000 states | `LimitHolds`, `OnlyConnectedChange`, `CacheConverges` |
| `SettingsRequest` | 2 pages, 3 requests, 3 connections; 121 000 states | `AnswersArriveRight`, `Answered` |
| `BoosterSupply` | 2 setpoints, 2 commands, 3 troubles; 903 000 states | `ReadsAreFresh`, `LossIsExplained`, `ShowsTheSupply` |
| `AutoReport` | 2 pages, 3 connections, 2 requests every 4 seconds with 2 seconds to answer; 108 000 states | `OneReportPerRequest`, `AskedOnce`, `KeepsRequests` (refinement), `Resolves` |
| `PageSession` | 3 cuts, requests (another page's too), changes or points in all, either with passwords or without; 253 000 states | `AccessAgrees`, `SeriesExplained`, `ControlsTellTheLink`, `MutedUntilClear`, `PageCatchesUp`, `AlarmHeard` |
| `PendingEdits` | 2 values, one of them the limit, and null; overlays of age 1, 3 edits, changes, losses or cuts, 2 snapshots under way; 1 460 000 states | `EditStays`, `OthersShowAtOnce`, `ToastIsTrue`, `ShowsTheDaemon` |
| `ReportCapture` | 2 requests for 2 pictures (the fault log, the HV Monitor's map), 3 clicks, requests or data; 1 505 000 states | `StaleIsDue`, `DotStays`, `ReportIsWhole`, `CaptureLeavesNoTrace` |
| `ChannelTable` | 4 channels in 2 crates, a window of 3 rows of which 1 is in view, 4 events; 235 000 states | `BulkIsWhatIsListed`, `ButtonIsTrue`, `WindowIsDrawn` |

Where a module states its types, they are proved (section 4) and no run spends
its time on them.

Why the bounds are enough.  *FaultTracker*: the tracker remembers one status
per key, so two polls show every transition between two readings, including
"new while another is open", and a third starts from a state the second can
leave; six readings cover quiet, dV excess, one and two errors, a suppressed
error with and without dV excess, and ramping.  *FaultFeed*: rings of 2 overflow
with the third entry, a send buffer of 2 is exceeded by a page that misses
two broadcasts, and of the two pages one can join in each gap of the other's.
*CrateLink*: back-off 3 doubles, and doubles into its limit; a crate supports a
proper subset of its channels, so the fallback list differs from the full one;
the number is read by both polls, the word by full ones only.
*Setpoints*: values lie below and above the software limit, the one above is
clamped to it, and one crate takes both, the other only the lower; three events
are a file from elsewhere, its way through the cache into a saved file, and its
return, or a command, a loss and a failed reading; overrides of 2 polls both
converge and expire.
*SettingsRequest*: three requests of two pages cross in all orders and reuse
the slots.  *BoosterSupply*: three troubles allow a break, a late answer and a
hand at the front panel within one exchange.  *AutoReport*: three connections
allow a page to be given up, come back and be asked again, and a retry leaves
another request under way when the next one is due.  *PageSession*: a
login, a command and a cut, or a point on either side of one, fit into three
events; broadcasts, deliveries and time are not events and are not bounded.
*PendingEdits*: an edit, a change elsewhere and another edit, a loss or a cut cross
in all orders with two snapshots under way; a threshold of 5 snapshots is reached
because polls are not events, and "+1" asks for more than the limit.  *ReportCapture*: two overlapping requests and a
click, data or the covering of the page between any two steps of them; the map
as a second picture is the case where coming back has just emptied it, and any
of the six tabs may be the one to come back to.  *ChannelTable*: the window is
smaller than the list, so rows leave and enter it while one is edited.

### 3.2 Runs that are violated

Each quotes a claim of the repository that the code does not keep; the finding
in `PROJECT.json` has the details.

| run | property | what happens |
|---|---|---|
| `AutoReportEntries` | `OneEntryPerAttempt` | when all pages have left, the watchdog writes a failure ten times a second |

Further divergences met while modelling, of which no run is kept.  Where a
property of a passing run states how far the claim does hold, its name is given.

In the daemon:

- after a restart `faultgrep -p` keeps listing faults that cleared while the
  daemon was down (`FaultgrepExact` without its premise; `FaultgrepComplete`
  is what survives);
- the ring's order differs from the file's when both pollers log at once,
  although `monitor_faultlog.js` says "newest first";
- a page's connection moves `last_flf_ver_` for all, and another page misses an
  entry that was pushed but not yet broadcast (`AllReceiveAll`);
- a link that breaks during the bulk read while the fallback list is due leaves
  an empty list for good: the crate is connected and its last values are shown as
  if they were read (`ReadsUnlessCut`, and `CacheConverges` claims nothing of such
  a crate);
- a link that breaks while a board is discovered leaves no list of parameters, or
  one in which a word has the type of a number; the crate counts as mapped, is
  connected again and is never discovered again, although `Reconnect` keeps its
  maps "so that if reconnect succeeds, we resume polling" (caen_channel.cpp:749-750)
  (`ReadsUnlessCut`);
- a crate that is off at start is connected later without its boards and never
  gets its map;
- overlapping settings requests of two pages are answered to the wrong one, or
  with the wrong path (`AnswersArriveRight`), and the Save button of the page whose
  answer went elsewhere stays disabled (`ControlsTellTheLink`);
- `load_settings` writes with `SetFloat`, past the software limit, whatever file a
  page sends; what a value above the limit can come from is all that `LimitHolds`
  claims;
- `load_settings` skips a parameter when the file agrees with the *cache*,
  which a pending override has filled with a value the hardware may have
  refused (README: "Unchanged parameters are skipped");
- two channels that share a name make the tracker write an end and a beginning
  in every poll.

In the pages:

- a report captured from a page that shows a map may have it blank: on the way
  back from the picture before, `_activateTab` resizes the canvas after it was
  drawn (report.js:71-72; the HV Monitor's has no size yet), and a section whose
  tab is already in view is captured without waiting (report.js:134), although
  _activateTab is said to reflect "exactly what the user would see"
  (report.js:58-60); `ReportIsWhole` excepts this picture;
- a second edit within a poll takes the first one's value for the snapshot's,
  and the next stale snapshot drops it (`EditStays` asks for a page that was up
  to date);
- the points computed between a page's init message and the next delta are
  drawn twice, those broadcast while it reconnects are missing
  (`SeriesExplained`);
- the pill stays "disconnected" after a reconnection, since only the first
  answer to `readAll` sets it, and a Save button whose answer was lost stays
  disabled (`ControlsTellTheLink`);
- an edit of a value that was not read yet (monitor_booster.js:140, 363) has a null
  original, with which nothing is ever superseded: what another user sets stays
  hidden until the overlay expires, although monitor_pending.js:11-16 has such an
  entry cleared (`OthersShowAtOnce` excepts it);
- the toast "Power ON rejected ... check interlock" (monitor.js:111) is shown for a
  command the daemon has skipped because the crate is disconnected
  (hv_daemon.h:759-767), whose channels the snapshots go on to report, and for one
  that the snapshots have overtaken (`ToastIsTrue` claims neither);
- an open module popup keeps the VSet and ISet texts it was built with, gets no
  status badge if it had none then, and looks for the fields of the primary in
  another element than they are in (monitor_geo.js:548-550, 615-619), although the
  comment there says "we refresh both VMon and VSet every tick" (`StaleIsDue`
  claims its live fields);
- a reconnection empties the lists of the fault log and flags nothing, and an empty
  buffer is not drawn (monitor_faultlog.js:53-62, 79): the rows stay in view until
  entries arrive (`StaleIsDue`);
- the table's edits leave no overlay, although the header of
  `monitor_pending.js` names the table as one of its users;
- rows that enter the window while a cell is edited are appended at its end,
  although monitor_table.js:587 says the order is maintained (`WindowIsDrawn`
  claims the order without edits only);
- after a crate's chips are rebuilt the chip "All" is lit whatever the filter is
  (`BulkIsWhatIsListed`).

### 3.3 Fairness

| module | assumed | because |
|---|---|---|
| `FaultFeed` | `Push`, `Broadcast`, `Receive` | a `log()` call returns; the timer reschedules itself; an open page runs its handlers |
| `CrateLink` | the poll thread | it loops until the daemon stops and every library call returns |
| `Setpoints` | `Poll`, `Report` | as above; a crate reports what was set in it |
| `SettingsRequest` | `Serve`, the timer's steps | the poll thread drains the queue in every cycle |
| `BoosterSupply` | the poll thread (not its timeouts), the supply's handling of commands | `poll()` calls are bounded by timeouts; a reachable supply answers |
| `AutoReport` | the clock, the timer | pages may do nothing at all |
| `PageSession` | reconnection, handlers, the daemon's answers; strong for its broadcasts, which a full queue or a cut disables in between | timers and event loops run; a snapshot is stored in every cycle of the pollers |
| `PendingEdits` | commands, polls, snapshots, the page's clock, reconnection | as above; nobody has to edit |

Nothing is assumed of people, browsers that may leave, or of links, which need
not heal: where recovery is claimed, "stays reachable" is a premise.

## 4. What is proved

All for any number of crates, channels, pages, polls, commands and requests,
under the named assumptions on constants only.

**FaultLogProofs**, of the tracker: `TypeCorrect`, `LevelCorrect`,
`FaultgrepMissesNothing`, `FaultgrepCorrect` (within one life of the daemon)
and `TrackerRefinesAlarmLog`.  The invariant `LogInv` joins three parts.
`Sound`: the stored level is the one the stored status calls for; without it
the DISAPPEAR could carry another level than its APPEAR and not pair with it.
`Faithful`: the end of a key's log agrees with `prev`.  `Paired`: every earlier
APPEAR is followed at once by its own DISAPPEAR; this part is given up at the
first restart.  One lemma (`UpdateLog`) shows that the entries `update` writes
keep the last two for arbitrary logs and alarms; `EndCycle` reuses its case of
an alarm that closes.  `AppearsAreNew` needs to know where a cycle stands
(`CycleInv`): a key it has not updated holds what the last complete cycle left,
and those it has updated belong to boards and to bearers of names that have
reported.  Two channels that share a name break the first part (section 3.2), so
the property claims it of names that one channel bears.

Of the feed: `FeedInvariant` and `FeedReceived`, for any pages, loggers, entries
and capacity.  A page's list is a row of parts: its init message and one part for
each broadcast that reached it, under way or received.  `RingInv`: the ring holds
the newest entries, numbered without a gap.  `PageInv`: the parts of a page follow
each other in their numbers (`Orderly`), and unless the page was passed over they
hold every one of the newest `Capacity` entries up to the version sent
(`Window`).  What a broadcast adds are the entries above that version
(`NewerThan`), and an entry the ring has dropped by then is older than the window,
so the window moves on without a gap.

**CrateLinkProofs.** `LinkTypeCorrect`, `RetryCorrect`, `SessionCorrect` from
`LinkInv`; `ReadsCorrect` from `ReadInv`, which says what is in a crate's
fallback list at every stage of a visit: the full list until it was built, the
supported channels afterwards, and during the probes exactly those already
probed; and of what was discovered: a mapped crate that is past discovery has its
parameter listed with its own type.  `cut` records the events that spoil it, a
break during discovery or while the list is due.

**SetpointsProofs.** `SetpointTypeCorrect`, `LimitCorrect`,
`ConnectedChangeCorrect`.  The limit is enforced in `SetVoltage` only, and values
above it come in at the start, at the panel and with files; `WithinInv` therefore
has to say of everything a setpoint can later be taken from (cache, file, what
crates report, overrides still pending) that it is within the limit or one of those
that came from outside for this channel.

**ReportProofs**, of the server: `TypeCorrect`, `ReportOnce`, `AskOnce`.  `ReportInv` says
of the pending request that no report was saved for it and that whoever was
asked for it is in its `tried`, and of requests still to come that nothing is
known.  No timeout or interval enters: these do not depend on timing.
`ServerKeepsRequests`, the refinement of `ReportRequests`, does: it maps a request
to its outcome and shows step by step that a page which still has time is neither
followed by another nor by the next request, if the timeout is not zero.

Of the page: `NothingOldStays`, `DotsStay`, `ReportsAreWhole` and
`CapturesLeaveNoTrace`, for any number of requests, clicks and data and for any
list of tabs to report on, if no tab is in it twice and the first is not a map, as
in report.js:43-50.  `CaptureInv` is about the screen.  `ScreenInv` holds for
whatever tab may be opened next, `ViewInv` for the one in view: what is old there
is flagged, throttled, or waits for a resize observer.  `ScreenInv` also says that
an open popup whose primary came or went has its drawing due, and that the fault log
is flagged if it is old and the connection has brought entries (`logged`).  Each drawing function keeps
the first and brings about the second, so a click or a capture, which is several
of them in a row, does too.  Of a request that nothing disturbed, `AloneInv` says
that it has the page for itself from one await to the next: nobody else is busy,
the tab in view is the one of its picture, and its attachments so far are its own
pictures in order, each with its canvas.

**BoosterSupplyProofs.** `FreshReads`, `ExplainedLosses` and `TypeCorrect`.  An answer does not
name its query, so the invariant `SupplyInv` is about the stream.  `StreamInv`:
at most one query is under way, only while the thread waits for it, and it is
the last thing on the wire; or its answer has been given, with a value the
supply held since the question.  A timeout keeps this true because it closes
the socket and everything on its way.  `FieldInv`: what the fields hold at each
step of a poll, and at its end connected exactly when there is no error.
`ShapeInv` has the domains.

**PageTableProofs**, of the pending edits: `EditsStay`, `OthersShow`, `ToastsAreTrue` and
`TypeCorrect`, for any values, ages, queues and users.  `OthersShow` needs only
that the overlay is that of the last edit (`OverlayInv`).  `ToastsAreTrue` needs
what a pending command has come to, now and in each snapshot under way
(`FateInv`): where it was carried out and left alone the output is the one asked
for, so such a snapshot confirms it; and a pending command is never a lost one,
because a cut clears both maps.  `EditsStay` is about
what is under way: `StreamInv` says that, as long as nothing else changes the
value, snapshots in flight and then the daemon hold the value from before the
edit until one holds the value of the edit, and this one from there on; the
overlay hides the first and goes with the second, so an edit that has converged
cannot be undone by a late snapshot.

Of the channel table: `BulkActsOnTheList`, `ButtonsSayTheState` and
`WindowStaysDrawn`, for any channels, crates, texts, sizes of the window and its
buffer.  Two drawings may be due, of the list (`dataDirty`) and of its rows
(`scrolled`), and a typed text may wait for its timer.  `TableInv` says what the
list, the rows and the buttons hold while theirs is not due.  The proof
rests on lemmas about what a drawing leaves: a sort by a linear order lists each
channel once (`RankedLists`, `SortedLists`), the window covers what is in view
(`WindowCuts`), and moving rows about, with some kept because they are edited,
repeats none and loses none of them (`OnlyKeeps`, `ConcatKeeps`, `RowsHold`).  A
patched button is a new one because its text determines what it asks for
(`NewButtonTypes`).

**PageSessionProofs.** `AccessHolds`, `ControlsHold`, `StaysMuted`, `SeriesHolds`
and `TypeCorrect`, for any number of cuts, logins and broadcasts.  The page's level
lags behind the daemon's, so `LevelInv` is about the queue: as long as a
message that carries a level is under way, the last of them carries the
daemon's; otherwise page and buttons have it already.  `PowerInv` adds that a
command sent with no login under way has none ahead of it, so nothing can lower
the level before it is served.  `ControlsInv` adds to the property of the pill and the Save button that the
slot names this page only while it is connected, so a cut cannot leave an answer to
a connection that is gone.  `InitFirst` and `ClosedInv` say why a level of
an earlier connection is never used: the page is a guest until the init message,
which comes first.  `SeriesInv` follows the aggregated points: each one taken for
broadcast is lost, under way or drawn (`PointsKept`), none is under way twice
(`DeltasOnce`), and one that is drawn twice was anticipated by the init message
(`DrawnTwice`); no point can arrive before the snapshot of the channels that
makes the page draw its history (`BootOrder`).

**SettingsRequestProofs.** `AnswersAreRight` and `TypeCorrect`, for any pages,
connections and requests.  The daemon remembers one requester of each kind, so
the theorem rests on what is on its way (`OneInv`): after a request that found
nothing of its kind there, the queue, the store and the timer's hands hold that
request only, and the remembered page waits for it.  `ConnInv`: connections are
not reused, so no other page can be taken for the remembered one.

Model-checked only: liveness (`CatchesUp`, `CacheConverges`, `Answered`,
`Recovers`, `ShowsTheSupply`, `Resolves`, `PageCatchesUp`, `AlarmHeard`,
`ShowsTheDaemon`), because the proof system has neither fairness nor ENABLED.
Every other property of the runs that hold is proved.

## 5. Not modelled

- The vendor's library: an environment whose calls fail when the link is down.
  Its behaviour on bad arguments and the pointers freed after a failed
  `GetCrateMap` are outside.
- Formats: JSON, settings files, colours, time stamps, the VMDF bytes.
- Numbers: voltages are compared within 0.01 V in the code and exactly here.
- Power, current, primary-channel and board commands; they take the path of
  `set_voltage` without its limit.
- Contents of the HV, board and crate snapshots, which overwrite each other
  whole.
- Of the discovery of a board: names, limits and modes of its parameters, and
  several boards of one crate, each of which is discovered by itself.
- `VMonRecorder`, the settings loggers and the file operations log: each writes
  its file from one thread; what can go wrong is a crash inside a write, and the
  code has no recovery for it but the truncation listed as a hazard.
- Averages and the exclusion of ramping channels in `HVAggregator`, and the
  statistics and plots of the HV Monitor: arithmetic on samples.
- HTTP requests, which carry their password each time, and the list of commands
  of each level.
- Colours, legends, zoom, hit tests and tooltips of the maps; markdown and XML
  of the reports; the validation of the table's bulk set voltage.
- Memory and shutdown.

## 6. What is left

1. `VMonRecorder`: day rotation, channel table before snapshots, recovery of a
   truncated file.  Abstract specification: a reader sees a prefix of the samples
   taken.
2. `HVAggregator`: accumulators under one lock and the ramping flags of the last
   full poll.
3. The edit history rewritten in place, with a crash in the middle.
4. HTTP access and the commands of each level.
5. Proofs: the safety part of what liveness rests on, such as the bound on what
   a page of `FaultFeed` or `PageSession` can still lack.
