---------------------------- MODULE PendingEdits ----------------------------
(***************************************************************************)
(* The edits of an expert on one page and the snapshots that may not have  *)
(* caught up with them: the overlays of monitor_pending.js, and the places *)
(* that edit (monitor_geo.js, monitor_booster.js, monitor_table.js), for   *)
(* one set value and the output of one channel or of one booster supply.   *)
(*                                                                         *)
(* The daemon is what it reports: a command changes what the next poll     *)
(* reads, because both pollers overlay what was just written (module       *)
(* Setpoints), unless its link to the crate or supply is down: then the    *)
(* command is skipped, and the snapshots repeat what was read before.      *)
(* Commands and snapshots travel in order.  Two values are the same when   *)
(* they differ by less than PENDING_TOL: small integers.                   *)
(***************************************************************************)
EXTENDS Integers, Sequences

CONSTANTS
  Values,       \* values a user may ask for
  Limit,        \* the daemon clamps to this
  TTL,          \* PENDING_TTL_MS, in ticks of the page's clock
  MaxEvents,    \* bound: edits, changes made elsewhere and losses of a link, together
  MaxQueue      \* bound: snapshots under way

ASSUME PendingAssumption ==
  /\ Values \subseteq Nat /\ Limit \in Nat
  /\ {TTL, MaxQueue} \subseteq Nat \ {0} /\ MaxEvents \in Nat

VARIABLES
  kind,             \* what is edited: "channel" or "booster"
  set, on,          \* what the daemon would report of it
  linked,           \* the daemon's link to the crate or supply
  connected, toDaemon, wire,
  shown, shownOn,   \* the page's copy: ch.vset and ch.on, bs.vset and bs.on
  entry,            \* pendingSets, pendingBoosterSets
  power,            \* pendingPower
  events,
  \* history
  last,             \* the set value of the last snapshot received
  asked,            \* the last edit that left an overlay: its value, the page's
                    \* copy then, whether the copy has been set since, and
                    \* whether a snapshot has arrived since
  busy,             \* that edit was made while the page was not up to date
  foreign,          \* something but this page has changed the value since, or
                    \* the overlay is too old, or the connection was cut
  fate,             \* of the pending power command
  toast             \* why the last snapshot made the page show a toast, or "none"

edited == <<shown, entry, asked, busy>>
switched == <<shownOn, power>>
vars == <<kind, set, on, linked, connected, toDaemon, wire, edited, switched, events,
          last, foreign, fate, toast>>

\* A value that was not read yet: null in a snapshot.
Null == -1

NoEntry == [value |-> 0, orig |-> 0, age |-> 0, none |-> TRUE]
Entry(v, orig) == [value |-> v, orig |-> orig, age |-> 0, none |-> FALSE]
NoPower == [on |-> FALSE, ticks |-> 0, batch |-> FALSE, none |-> TRUE]
PowerEntry(o, batch) == [on |-> o, ticks |-> 0, batch |-> batch, none |-> FALSE]
NotAsked == [value |-> 0, was |-> 0, seen |-> FALSE, snapped |-> FALSE, none |-> TRUE]
AskedFor(v, was, seen) ==
  [value |-> v, was |-> was, seen |-> seen, snapped |-> FALSE, none |-> FALSE]

Init ==
  /\ kind \in {"channel", "booster"}
  /\ set \in {0, Null} /\ on = FALSE /\ linked = TRUE
  /\ connected = TRUE /\ toDaemon = <<>> /\ wire = <<>>
  /\ shown = set /\ shownOn = on
  /\ entry = NoEntry /\ power = NoPower
  /\ events = 0 /\ last = set /\ asked = NotAsked
  /\ busy = FALSE /\ foreign = FALSE /\ fate = "none" /\ toast = "none"

Event == events < MaxEvents /\ events' = events + 1

-----------------------------------------------------------------------------
(* The editors.  All but commitEdit ask for a level, and a page that is not  *)
(* connected has none.                                                       *)

Submit(c) == toDaemon' = IF connected THEN Append(toDaemon, c) ELSE toDaemon

UpToDate ==
  /\ set = shown /\ \A i \in DOMAIN wire : wire[i].set = shown
  /\ \A i \in DOMAIN toDaemon : toDaemon[i].type # "set"

\* Mutant: orig is read after the edit.
AddPendingSetLate(v) == entry' = Entry(v, v)

\* addPendingSet, addPendingBoosterSet: orig is the page's copy before the edit,
\* null when that was not read yet.
AddPendingSet(v) == entry' = Entry(v, shown)

\* The Set V and Set I buttons of the module popups and the booster popup set
\* the page's copy, the buttons of a booster card do not.
OverlaidEdit(v, optimistic) ==
  /\ Event /\ connected
  /\ ~optimistic => kind = "booster"
  /\ Submit([type |-> "set", value |-> v])
  /\ AddPendingSet(v)
  /\ shown' = IF optimistic THEN v ELSE shown
  /\ asked' = AskedFor(v, shown, optimistic)
  /\ busy' = ~UpToDate /\ foreign' = FALSE
  /\ UNCHANGED <<kind, set, on, linked, connected, wire, switched, last, fate, toast>>

\* commitEdit of the table and its bulk Set V: neither copy nor overlay.
TableEdit(v) ==
  /\ Event /\ kind = "channel"
  /\ Submit([type |-> "set", value |-> v])
  /\ foreign' = TRUE
  /\ UNCHANGED <<kind, set, on, linked, connected, wire, edited, switched, last, fate, toast>>

\* resolveVSetInput: "+1" is resolved against the page's copy, if there is one.
Asked == Values \union (IF kind = "channel" /\ shown # Null THEN {shown + 1} ELSE {})

Edit == \E v \in Asked : TableEdit(v) \/ \E opt \in BOOLEAN : OverlaidEdit(v, opt)

SwitchCommand(o) ==
  /\ Event /\ connected
  /\ Submit([type |-> "power", on |-> o])
  /\ UNCHANGED <<kind, set, on, linked, connected, edited, last, foreign, toast>>

\* The buttons of the table, the popups, and the bulk buttons (batch).
SwitchChannel(o, batch) ==
  /\ kind = "channel"
  /\ SwitchCommand(o)
  /\ power' = PowerEntry(o, batch)
  /\ fate' = "under way"
  /\ wire' = [i \in DOMAIN wire |-> [wire[i] EXCEPT !.fate = "under way"]]
  /\ UNCHANGED shownOn

\* The booster popup sets the page's copy, the card does not.
SwitchBooster(o, optimistic) ==
  /\ kind = "booster"
  /\ SwitchCommand(o)
  /\ shownOn' = IF optimistic THEN o ELSE shownOn
  /\ UNCHANGED <<power, fate, wire>>

Switch == \E o, how \in BOOLEAN : SwitchChannel(o, how) \/ SwitchBooster(o, how)

-----------------------------------------------------------------------------
(* The daemon, and what others do. *)

Clamped(v) == IF v > Limit THEN Limit ELSE v

\* What becomes of the pending command when the oldest one ends in this way.
Fate(end) ==
  IF fate = "under way" /\ \A i \in 2..Len(toDaemon) : toDaemon[i].type # "power"
  THEN end ELSE fate

\* The poll thread executes the oldest command.  An interlock may refuse ON.
Execute ==
  /\ linked /\ toDaemon # <<>> /\ toDaemon' = Tail(toDaemon)
  /\ LET c == Head(toDaemon)
     IN \/ /\ c.type = "set"
           /\ set' = Clamped(c.value)
           /\ foreign' = (foreign \/ Clamped(c.value) # c.value)
           /\ UNCHANGED <<on, fate>>
        \/ /\ c.type = "power"
           /\ on' \in {c.on, on /\ c.on}
           /\ fate' = Fate(IF on' = c.on THEN "done" ELSE "refused")
           /\ UNCHANGED <<set, foreign>>
  /\ UNCHANGED <<kind, linked, connected, wire, edited, switched, events, last, toast>>

\* dispatchCommand while the crate is disconnected, setVoltage and setOutput
\* while the supply is: nothing is written, and nobody is told.
Skip ==
  /\ ~linked /\ toDaemon # <<>> /\ toDaemon' = Tail(toDaemon)
  /\ fate' = IF Head(toDaemon).type = "power" THEN Fate("skipped") ELSE fate
  /\ UNCHANGED <<kind, set, on, linked, connected, wire, edited, switched, events, last,
                 foreign, toast>>

\* The link to the crate or supply is lost, and found again.
Unlink ==
  /\ Event /\ linked /\ linked' = FALSE
  /\ UNCHANGED <<kind, set, on, connected, toDaemon, wire, edited, switched, last,
                 foreign, fate, toast>>

Relink ==
  /\ ~linked /\ linked' = TRUE
  /\ UNCHANGED <<kind, set, on, connected, toDaemon, wire, edited, switched, events, last,
                 foreign, fate, toast>>

\* The value is read for the first time.
FirstRead ==
  /\ linked /\ set = Null
  /\ set' \in Values
  /\ UNCHANGED <<kind, on, linked, connected, toDaemon, wire, edited, switched, events,
                 last, foreign, fate, toast>>

Elsewhere ==
  /\ Event /\ linked
  /\ \/ set' \in Values \ {set} /\ foreign' = TRUE /\ UNCHANGED <<on, fate>>
     \/ /\ on' = ~on
        /\ fate' = IF fate = "done" THEN "undone" ELSE fate
        /\ UNCHANGED <<set, foreign>>
  /\ UNCHANGED <<kind, linked, connected, toDaemon, wire, edited, switched, last, toast>>

\* A poll, and the snapshot made after it.
Poll ==
  /\ connected /\ Len(wire) < MaxQueue
  /\ wire' = Append(wire, [set |-> set, on |-> on, fate |-> fate])
  /\ UNCHANGED <<kind, set, on, linked, connected, toDaemon, edited, switched, events,
                 last, foreign, fate, toast>>

-----------------------------------------------------------------------------
(* The page's clock and its snapshot handlers. *)

Tick ==
  /\ ~entry.none /\ entry.age <= TTL
  /\ entry' = [entry EXCEPT !.age = @ + 1]
  /\ UNCHANGED <<kind, set, on, linked, connected, toDaemon, wire, shown, asked, busy,
                 switched, events, last, foreign, fate, toast>>

Converged(s) == s = entry.value
\* A null on either side tells nothing.
Superseded(s) == s # Null /\ entry.orig # Null /\ s # entry.orig
Expired == entry.age > TTL

\* Mutant: the overlay hides what others set.
OverridesOthers(s) == ~entry.none /\ ~Expired /\ ~Converged(s)
\* applyPendingSets and applyPendingBoosterSets: the overlay outlives s and hides it.
Overrides(s) == ~entry.none /\ ~Expired /\ ~Converged(s) /\ ~Superseded(s)

ApplyPendingSets(s) ==
  /\ shown' = IF Overrides(s) THEN entry.value ELSE s
  /\ entry' = IF Overrides(s) THEN entry ELSE NoEntry
  /\ asked' = [asked EXCEPT !.seen = TRUE, !.snapped = TRUE]
  /\ foreign' = (foreign \/ Expired)

Threshold(batch) == IF batch THEN 5 ELSE 2

Confirmed(o) == o = power.on
Spent == power.ticks + 1 >= Threshold(power.batch)

\* What had become of the command when the snapshot m was made.
Cause(m) ==
  IF fate = "lost" THEN "lost" ELSE IF m.fate = "under way" THEN "overtaken" ELSE m.fate

\* Mutant: the snapshots are not counted.
ApplyPendingPowerUncounted(m) ==
  /\ power' = IF power.none \/ Confirmed(m.on) \/ Spent THEN NoPower ELSE power
  /\ UNCHANGED <<fate, toast>>

\* applyPendingPower: only a rejected ON shows a toast.
ApplyPendingPower(m) ==
  /\ power' = IF power.none \/ Confirmed(m.on) \/ Spent THEN NoPower
              ELSE [power EXCEPT !.ticks = @ + 1]
  /\ fate' = IF power.none \/ Confirmed(m.on) \/ Spent THEN "none" ELSE fate
  /\ toast' = IF ~power.none /\ ~Confirmed(m.on) /\ Spent /\ power.on
              THEN Cause(m) ELSE "none"

\* channelsUpdated, boosterUpdated
Snapshot ==
  /\ wire # <<>> /\ wire' = Tail(wire)
  /\ LET m == Head(wire)
     IN /\ ApplyPendingSets(m.set)
        /\ ApplyPendingPower(m)
        /\ shownOn' = m.on /\ last' = m.set
  /\ UNCHANGED <<kind, set, on, linked, connected, toDaemon, busy, events>>

\* Mutant: the maps of the set values are cleared, that of the commands is not.
ClearAllPendingSetsOnly == entry' = NoEntry /\ UNCHANGED power
\* clearAllPendingSets, when the connection ends; commands under way are lost.
ClearAllPendingSets == entry' = NoEntry /\ power' = NoPower

Cut ==
  /\ Event /\ connected
  /\ connected' = FALSE /\ toDaemon' = <<>> /\ wire' = <<>>
  /\ ClearAllPendingSets
  /\ foreign' = TRUE
  /\ fate' = IF fate = "under way" THEN "lost" ELSE fate
  /\ UNCHANGED <<kind, set, on, linked, shown, asked, busy, shownOn, last, toast>>

\* The daemon sends what it read last: modelled as a poll right after.
Reconnect ==
  /\ ~connected
  /\ connected' = TRUE
  /\ UNCHANGED <<kind, set, on, linked, toDaemon, wire, edited, switched, events, last,
                 foreign, fate, toast>>

Next ==
  \/ Edit \/ Switch
  \/ Execute \/ Skip \/ Unlink \/ Relink \/ FirstRead \/ Elsewhere \/ Poll
  \/ Tick \/ Snapshot
  \/ Cut \/ Reconnect

\* Pollers, connection and the page's clock and event loop run; nobody has to edit.
Spec ==
  /\ Init /\ [][Next]_vars
  /\ WF_vars(Execute \/ Skip) /\ WF_vars(Poll) /\ WF_vars(Snapshot)
  /\ WF_vars(Tick) /\ WF_vars(Reconnect)

-----------------------------------------------------------------------------
(* What is checked. *)

Fates == {"none", "under way", "done", "refused", "skipped", "undone", "lost"}
Reported == Nat \union {Null}
Commands == [type : {"set"}, value : Nat] \union [type : {"power"}, on : BOOLEAN]
Reports == [set : Reported, on : BOOLEAN, fate : Fates]
Overlays == [value : Nat, orig : Reported, age : 0..TTL + 1, none : BOOLEAN]
PendingPower == [on : BOOLEAN, ticks : 0..4, batch : BOOLEAN, none : BOOLEAN]
Edits == [value : Nat, was : Reported, seen : BOOLEAN, snapped : BOOLEAN, none : BOOLEAN]
Toasts == Fates \union {"overtaken"}

\* The variables have their types.
TypeOK ==
  /\ kind \in {"channel", "booster"}
  /\ set \in Reported /\ shown \in Reported /\ last \in Reported /\ events \in Nat
  /\ on \in BOOLEAN /\ shownOn \in BOOLEAN /\ linked \in BOOLEAN /\ connected \in BOOLEAN
  /\ toDaemon \in Seq(Commands) /\ wire \in Seq(Reports)
  /\ entry \in Overlays /\ power \in PendingPower
  /\ asked \in Edits /\ busy \in BOOLEAN /\ foreign \in BOOLEAN
  /\ fate \in Fates /\ toast \in Toasts

\* The promise of monitor_pending.js: what a user has set is not overwritten by
\* a snapshot.  It is kept for an edit made while the page was up to date, until
\* the value changes elsewhere (or is clamped), the overlay expires, or the
\* connection is cut; also when the command is skipped, and when the value is
\* read for the first time.  (A second edit within a poll takes the page's copy,
\* the first edit's value, for the snapshot's: the next stale snapshot drops it.)
EditStays ==
  ~asked.none /\ asked.seen /\ ~foreign /\ ~busy => shown = asked.value

\* "Multi-user safety": once a snapshot has arrived after an edit, the page hides
\* no value behind that edit but the one it showed when the edit was made; what
\* another user sets shows at once.  Not so for an edit of a value that the page
\* had not read yet: nothing is superseded then.
OthersShowAtOnce ==
  asked.snapped /\ shown # last =>
    shown = asked.value /\ (last \in {asked.was, Null} \/ asked.was = Null)

\* A toast that blames an interlock is never about a command that was lost with
\* the connection, or was carried out and left alone.  It may be about one that
\* was refused, or switched back by somebody else; but also about one that the
\* snapshots have overtaken, or that was skipped because the crate was
\* disconnected.
ToastIsTrue == toast \notin {"lost", "done"}

\* Whatever was edited, refused, expired or lost: in the end the page shows what
\* the daemon reports, and no power command is still pending.
ShowsTheDaemon == <>[](shown = set /\ shownOn = on /\ power.none)
=============================================================================
