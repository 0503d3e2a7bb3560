---------------------------- MODULE PageDisplay ----------------------------
(***************************************************************************)
(* What the page draws and when: the tabs, the dirty flags and the render  *)
(* loop of monitor.js, with the rules of each tab (monitor_table.js,       *)
(* monitor_board.js, monitor_geo.js with its colour cache,                 *)
(* monitor_booster.js, monitor_hvmon.js, monitor_faultlog.js) and of the   *)
(* popups, and the dots of the fault log.                                  *)
(*                                                                         *)
(* Content is abstracted to whether it is the newest: stale holds the      *)
(* parts of the page that a fresh drawing would change.  The first         *)
(* channels have arrived.  The rate limit of the loop is left out.  One    *)
(* popup of each kind stands for all, that of a module with its channel,   *)
(* and one panel of the fault log for its two, which are flagged apart.    *)
(***************************************************************************)
EXTENDS Naturals, Sequences, FiniteSets

CONSTANT MaxEvents   \* bound: data, clicks and requests, together

ASSUME DisplayAssumption == MaxEvents \in Nat

VARIABLES
  tab,         \* the active tab
  dirty,       \* the flags that are set: dataDirty, boardDirty, boosterDirty,
               \* _colorCacheDirty, and flFaultDirty or flWarnDirty
  stale,       \* parts of the page that are not the newest
  popups,      \* the kinds of popup that are open
  canvas,      \* what is on the two maps: "drawn", "empty" after its canvas was
               \* resized, or "none": it has no size, and nothing is drawn
  sized,       \* the maps that their resize observers last saw in view
  visible,     \* the browser shows the page: frames and resize observers run
  throttled,   \* parts of the HV Monitor that were drawn a moment ago
  logged,      \* the page holds entries of the fault log
  initial,     \* flFaultIsInitial
  unread,      \* flUnreadFaults: the dot on the fault log's tab
  events,
  \* history
  touched,     \* the user changed the map since the last data
  unseen,      \* entries arrived since the user looked at the fault log
  excused      \* a reconnection or a report may have put out the dot

logVars == <<logged, initial, unseen, excused>>
screenVars == <<stale, dirty, throttled, unread, canvas>>
displayVars == <<tab, screenVars, sized, popups, visible, logged, initial, events, touched, unseen,
                 excused>>

Tabs == {"table", "board", "geo", "booster", "faultlog", "hvmon"}
Popups == {"module", "supply"}
HVMonParts == {"sigma", "plots"}
Maps == {"geo", "hvmon"}

\* A module's popup: its live fields; the texts of its set points, with the
\* status when it had none as it was built; the rows of its primary; and whether
\* there is a primary, which is "links" when that changed since it was built.
ModuleParts == {"module", "texts", "primary", "links"}
PartsOf(p) == IF p = "module" THEN ModuleParts ELSE {p}

Parts ==
  (Tabs \ {"hvmon"}) \union HVMonParts \union {"colors"} \union Popups \union ModuleParts

DisplayInit ==
  /\ tab = "table"
  /\ dirty = {"data", "board", "booster", "color"}
  /\ stale = Parts \ ({"faultlog"} \union Popups \union ModuleParts)
  /\ popups = {} /\ throttled = {} /\ visible = TRUE
  /\ canvas = [w \in Maps |-> "none"] /\ sized = {}
  /\ logged = FALSE /\ initial = TRUE /\ unread = FALSE
  /\ events = 0 /\ touched = FALSE /\ unseen = FALSE /\ excused = FALSE

Event == events < MaxEvents /\ events' = events + 1

-----------------------------------------------------------------------------
(* Drawing, on the part of the state that it changes. *)

Screen == [stale |-> stale, dirty |-> dirty, throttled |-> throttled, unread |-> unread,
           canvas |-> canvas]
Shows(s) ==
  /\ stale' = s.stale /\ dirty' = s.dirty
  /\ throttled' = s.throttled /\ unread' = s.unread /\ canvas' = s.canvas

\* The parts that each tab's function draws anew
RenderTable(s)        == {"table"}
RenderBoardTable(s)   == {"board"} \intersect s.dirty
RenderBoosterCards(s) == {"booster"} \intersect s.dirty
RenderFaultLog(s)     == IF "fault" \in s.dirty THEN {"faultlog"} ELSE {}
RenderHVMonPlots(s)   == {"plots"} \ s.throttled
\* moduleColor draws from the cache, which only a flag makes it rebuild.
ModuleColorsAreTrue(s) == "color" \in s.dirty \/ "colors" \notin s.stale
Colored(s, w) ==
  IF w = "hvmon" THEN {"sigma"} ELSE IF ModuleColorsAreTrue(s) THEN {"geo", "colors"} ELSE {}

\* GeoView.render of map w
Render(s, w) ==
  IF s.canvas[w] = "none" THEN s
  ELSE [s EXCEPT !.canvas[w] = "drawn", !.stale = @ \ Colored(s, w),
                 !.dirty = IF w = "geo" THEN @ \ {"color"} ELSE @]

\* The map that a tab draws: the HV Monitor not more often than its interval.
RenderMap(s, t) ==
  IF t \in Maps /\ (t = "hvmon" => "sigma" \notin s.throttled) THEN Render(s, t) ELSE s

Redrawn(s, t) ==
  CASE t = "table"    -> RenderTable(s)
    [] t = "board"    -> RenderBoardTable(s)
    [] t = "booster"  -> RenderBoosterCards(s)
    [] t = "geo"      -> {}
    [] t = "faultlog" -> RenderFaultLog(s)
    [] t = "hvmon"    -> RenderHVMonPlots(s)

\* Every popup is refreshed with any tab.  Once a module's popup is built only its
\* live fields are, unless its primary came or went: then it is built again.  The
\* fields of the primary are looked for in the grid of the channel and not found.
RefreshAllPopups(s) == Popups \union (IF "links" \in s.stale THEN ModuleParts ELSE {})

\* The cards of the boosters are redrawn on their tab only, but every drawing
\* takes their flag down.
Cleared(t) ==
  {"booster"} \union
  CASE t \in {"table", "hvmon"} -> {"data"}
    [] t = "board"    -> {"board"}
    [] t = "faultlog" -> {"fault"}
    [] OTHER          -> {}

\* Mutant: drawing any tab puts out the dots.
DotOutOnAnyTab(s, t) == FALSE
\* The patch of renderActiveTab puts out the dots on the fault log's tab.
Dot(s, t) == s.unread /\ t # "faultlog"

\* renderActiveTab, as monitor_faultlog.js patches it: tab t and the popups.
Drawn(s, t) ==
  [RenderMap(s, t) EXCEPT
     !.stale     = @ \ (Redrawn(s, t) \union RefreshAllPopups(s)),
     !.dirty     = @ \ Cleared(t),
     !.throttled = @ \union (IF t = "hvmon" THEN HVMonParts ELSE {}),
     !.unread    = Dot(s, t)]

\* Mutant: no tab is flagged as it opens.
OpenedUnflagged(s, t, more) == Drawn([s EXCEPT !.dirty = @ \union more], t)
\* The tabs that are drawn only when flagged are flagged as they open.
Opened(s, t, more) ==
  Drawn([s EXCEPT !.dirty = @ \union more \union ({t} \intersect {"board", "booster"})], t)
\* initHVMonGeo draws the map of the HV Monitor whenever its tab is opened; the
\* first time it only makes it, and the resize observer draws.
InitHVMonGeo(s, t) == IF t = "hvmon" THEN Render(s, t) ELSE s
\* resizeGeoCanvas gives the map its size, and empties it.
ResizeGeoCanvas(s, t) == IF t = "geo" THEN [s EXCEPT !.canvas[t] = "empty"] ELSE s
ResetGeoView(s, t) == IF t = "geo" THEN Render(s, t) ELSE s

\* The click handler of initTabs.
Click(t) ==
  /\ Event /\ visible
  /\ tab' = t
  /\ Shows(LET s == ResizeGeoCanvas(Opened(Screen, t, {"data"}), t)
           IN  InitHVMonGeo(ResetGeoView(s, t), t))
  /\ unseen' = (unseen /\ t # "faultlog")
  /\ UNCHANGED <<sized, popups, visible, logged, initial, touched, excused>>

ShouldRender ==
  \/ "data" \in dirty
  \/ "booster" \in dirty /\ (popups # {} \/ tab \in {"booster", "geo"})
  \/ "board" \in dirty /\ tab = "board"

\* renderLoop
Frame ==
  /\ visible /\ ShouldRender
  /\ Shows(Drawn(Screen, tab))
  /\ UNCHANGED <<tab, sized, popups, visible, events, touched, logVars>>

\* The resize observer of a map that came into view draws it; when it goes out of
\* view its canvas is left without a size.
ResizeDue(w) == (tab = w) # (w \in sized)
ResizeCanvas(w) ==
  /\ visible /\ ResizeDue(w)
  /\ sized' = IF tab = w THEN sized \union {w} ELSE sized \ {w}
  /\ Shows(IF tab = w THEN Render([Screen EXCEPT !.canvas[w] = "empty"], w)
           ELSE [Screen EXCEPT !.canvas[w] = "none"])
  /\ UNCHANGED <<tab, popups, visible, events, touched, logVars>>

\* The user covers the page, or comes back to it.
Cover ==
  /\ Event /\ visible' = ~visible
  /\ UNCHANGED <<tab, screenVars, sized, popups, touched, logVars>>

\* The interval of renderHVMonTab for part p passes.
Unthrottle(p) ==
  /\ p \in throttled /\ throttled' = throttled \ {p}
  /\ UNCHANGED <<tab, dirty, stale, canvas, sized, unread, popups, visible, events, touched,
                 logVars>>

-----------------------------------------------------------------------------
(* What makes the page stale. *)

MapParts == {"geo", "colors"}

\* There is nothing to see of a popup that is closed.
Closed == UNION {PartsOf(p) : p \in Popups \ popups}

Arrive(flags, parts, settled) ==
  /\ Event
  /\ dirty' = dirty \union flags
  /\ stale' = (stale \ settled) \union (parts \ Closed)
  /\ touched' = (touched /\ "color" \notin flags)
  /\ UNCHANGED <<tab, popups, visible, throttled, canvas, sized, unread, logVars>>

\* The maps from names to channels are rebuilt, and the colours flagged.
RebuildChMap == {"color"}

\* A module gets or loses its primary, or has the one its popup was built with.
ChannelsUpdated ==
  \E links \in SUBSET {"links"} :
    Arrive({"data"} \union RebuildChMap,
           {"table", "module", "texts", "primary"} \union links \union MapParts, {"links"})
VmonUpdated ==
  Arrive({"data", "color"}, {"table", "module", "primary"} \union HVMonParts \union MapParts, {})
BoardsUpdated   == Arrive({"board"}, {"board"}, {})
BoosterUpdated  == Arrive({"booster", "color"}, {"booster", "supply"} \union MapParts, {})
AggUpdated      == Arrive({}, {"plots"}, {})

\* updateAccessUI: buttons and inputs are drawn with the content.
AccessUpdated == Arrive({"data", "booster", "board"}, {"table", "booster"} \union Popups, {})

\* The user changes what other parts show.  None of this flags the colours: the
\* search draws the map with the cached ones, and an edited range is drawn
\* before the cache is rebuilt.
Touch(flags, parts, fresh) ==
  /\ Event /\ visible /\ touched' = TRUE
  /\ stale' = (stale \union parts) \ fresh
  /\ UNCHANGED <<tab, popups, visible, throttled, canvas, sized, unread, logVars>>
  /\ dirty' = (dirty \union flags) \ (IF "colors" \in fresh THEN {"color"} ELSE {})

SearchMap      == tab = "geo" /\ Touch({}, MapParts, {})
EditRange      == tab = "geo" /\ Touch({}, {"geo"}, {"colors"})
\* A command of a popup changes the page's copy and builds that popup at once.
ModuleCommand  == "module" \in popups /\ Touch({"data"}, MapParts \union {"table"}, ModuleParts)
BoosterCommand == "supply" \in popups /\ Touch({"booster"}, MapParts \union {"booster"}, {"supply"})

OpenPopup(p) ==
  /\ Event /\ visible /\ tab = "geo" /\ p \notin popups /\ popups' = popups \union {p}
  /\ UNCHANGED <<tab, screenVars, sized, visible, touched, logVars>>
OpenModPopup == OpenPopup("module")
OpenBoosterPopup == OpenPopup("supply")

CloseModPopup(p) ==
  /\ p \in popups /\ popups' = popups \ {p}
  /\ stale' = stale \ PartsOf(p)
  /\ UNCHANGED <<tab, dirty, throttled, canvas, sized, unread, visible, events, touched, logVars>>

-----------------------------------------------------------------------------
(* The fault log. *)

\* receiveFaultBuffer, with entries: the tab is drawn at once, or gets its dot
\* if this is not the first message of a connection.
ReceiveFaults ==
  /\ Event
  /\ logged' = TRUE /\ initial' = FALSE
  /\ IF tab = "faultlog"
     THEN stale' = stale \ {"faultlog"} /\ dirty' = dirty \ {"fault"}
          /\ UNCHANGED <<unread, unseen>>
     ELSE stale' = stale \union {"faultlog"} /\ dirty' = dirty \union {"fault"}
          /\ unread' = (unread \/ ~initial) /\ unseen' = (unseen \/ ~initial)
  /\ excused' = (excused /\ (initial \/ tab = "faultlog"))
  /\ UNCHANGED <<tab, popups, visible, throttled, canvas, sized, touched>>

\* The same without entries, right after the connection.
ReceiveNoFaults ==
  /\ initial /\ initial' = FALSE
  /\ UNCHANGED <<tab, screenVars, sized, popups, visible, events, touched, logged, unseen, excused>>

\* The connection ends, and the page empties its buffers to connect again.
\* Nothing flags the fault log for drawing: its rows stay until entries arrive.
Reconnect ==
  /\ Event
  /\ dirty' = dirty \union {"data", "booster"}
  /\ stale' = stale \union {"table", "booster"} \union popups
                 \union (IF logged THEN {"faultlog"} ELSE {})
  /\ logged' = FALSE /\ initial' = TRUE /\ unread' = FALSE
  /\ excused' = TRUE
  /\ UNCHANGED <<tab, popups, visible, throttled, canvas, sized, touched, unseen>>

DisplayStep ==
  \/ Frame \/ \E w \in Maps : ResizeCanvas(w)
  \/ \E p \in HVMonParts : Unthrottle(p)
  \/ ChannelsUpdated \/ VmonUpdated \/ BoardsUpdated \/ BoosterUpdated \/ AggUpdated
  \/ AccessUpdated \/ SearchMap \/ EditRange \/ ModuleCommand \/ BoosterCommand
  \/ OpenModPopup \/ OpenBoosterPopup \/ \E p \in Popups : CloseModPopup(p)
  \/ ReceiveFaults \/ ReceiveNoFaults \/ Reconnect

-----------------------------------------------------------------------------
(* What is checked, in ReportCapture. *)

\* Whatever tabs were opened, and whatever flags the drawing of another tab has
\* cleared: when the tab in view or a popup's live fields are not the newest, the
\* next drawing of the render loop is due and will redraw them, or the resize
\* observer of its map will.  Left out are the plots of the HV Monitor, which wait
\* for the next samples when they were throttled; the map after the user has
\* changed it (search, range and commands do not flag the colours: they wait for
\* data too); the fault log that a reconnection has emptied, which waits for
\* entries; and a popup's texts and primary, which wait for a command.
StaleIsDue ==
  /\ tab \in stale /\ ~(tab = "geo" /\ touched) /\ ~(tab = "faultlog" /\ ~logged)
       => \/ ShouldRender /\ tab \notin Drawn(Screen, tab).stale
          \/ tab \in Maps /\ ResizeDue(tab)
  /\ tab \in Maps /\ canvas[tab] = "none" => ResizeDue(tab)
  /\ stale \intersect (Popups \union {"links"}) # {} => ShouldRender

\* The dot for new entries stays until the user looks at the fault log, unless
\* the page reconnected or made a report: that opens the tab and puts it out.
DotStays == unseen => unread \/ excused
=============================================================================
