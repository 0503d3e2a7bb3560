-------------------------- MODULE PageTableProofs ---------------------------
(***************************************************************************)
(* Theorems about PendingEdits, for any values, limit, age of overlays and *)
(* any number of edits, snapshots, users and cuts; and, below, about       *)
(* ChannelTable.                                                           *)
(*                                                                         *)
(* An edit stays because of what is under way (StreamInv): the snapshots   *)
(* in flight, and then the daemon, hold the value the page showed before   *)
(* the edit until one holds the value of the edit, and that one from there *)
(* on.  The overlay hides the first and goes with the second.              *)
(***************************************************************************)
EXTENDS PendingEdits, ChannelTable, SequenceTheorems, FiniteSetTheorems, TLAPS

\* The overlay is that of the last edit.
OverlayInv ==
  ~entry.none => ~asked.none /\ entry.value = asked.value /\ entry.orig = asked.was

\* What the fate of the pending command tells: a lost one is not pending, one
\* that is over has left the queue, and the output agrees with one that was
\* carried out and left alone, in the daemon and in the snapshots made since.
IsLast(i) == \A j \in DOMAIN toDaemon : i < j => toDaemon[j].type # "power"
FateInv ==
  ~power.none =>
    /\ kind = "channel" /\ fate \notin {"lost"}
    /\ fate = "done" => on = power.on
    /\ \A i \in DOMAIN wire :
         /\ wire[i].fate # "lost"
         /\ wire[i].fate = "done" => wire[i].on = power.on
    /\ \A i \in DOMAIN toDaemon : toDaemon[i].type = "power" =>
         fate = "under way" /\ (IsLast(i) => toDaemon[i].on = power.on)
ToastInv == FateInv /\ ToastIsTrue

\* The last edit is the only thing that changes the value.
Mine == ~asked.none /\ ~foreign /\ ~busy

Arrived(i) == wire[i].set = asked.value

CommandsMine ==
  \A i \in DOMAIN toDaemon : toDaemon[i].type = "set" => toDaemon[i].value = asked.value
ReportsMine ==
  /\ asked.was = Null \/ set \in {asked.was, asked.value}
  /\ \A i \in DOMAIN wire :
       /\ asked.was = Null \/ wire[i].set \in {asked.was, asked.value}
       /\ Arrived(i) => set = asked.value /\ \A j \in DOMAIN wire : i < j => Arrived(j)
PageMine ==
  /\ asked.seen => shown = asked.value
  /\ entry.none => asked.seen /\ set = asked.value /\ \A i \in DOMAIN wire : Arrived(i)
StreamInv == Mine => CommandsMine /\ ReportsMine /\ PageMine

-----------------------------------------------------------------------------
\* What the queues of the two directions look like after a step.
LEMMA AppendFacts ==
    ASSUME NEW S, NEW q \in Seq(S), NEW e \in S
    PROVE  /\ Append(q, e) \in Seq(S)
           /\ DOMAIN q = 1..Len(q) /\ Len(q) \in Nat
           /\ DOMAIN Append(q, e) = 1..Len(q) + 1
           /\ \A i \in DOMAIN q : Append(q, e)[i] = q[i]
           /\ Append(q, e)[Len(q) + 1] = e
OBVIOUS

LEMMA TailFacts ==
    ASSUME NEW S, NEW q \in Seq(S), q # <<>>
    PROVE  /\ Tail(q) \in Seq(S) /\ Head(q) \in S
           /\ 1 \in DOMAIN q /\ Head(q) = q[1]
           /\ DOMAIN Tail(q) \subseteq Nat \ {0}
           /\ \A i \in DOMAIN Tail(q) : i + 1 \in DOMAIN q /\ Tail(q)[i] = q[i + 1]
OBVIOUS

-----------------------------------------------------------------------------
(* Types. *)

LEMMA TTLIsNat == TTL \in Nat \ {0}
BY PendingAssumption

LEMMA InitRecords ==
    NoEntry \in Overlays /\ NoPower \in PendingPower /\ NotAsked \in Edits
BY TTLIsNat DEF NoEntry, NoPower, NotAsked, Overlays, PendingPower, Edits, Reported

LEMMA SetIsCommand ==
    ASSUME NEW v \in Nat
    PROVE  [type |-> "set", value |-> v] \in Commands
BY DEF Commands

LEMMA PowerIsCommand ==
    ASSUME NEW o \in BOOLEAN
    PROVE  [type |-> "power", on |-> o] \in Commands
BY DEF Commands

LEMMA SubmitTypes ==
    ASSUME TypeOK, NEW c \in Commands, Submit(c)
    PROVE  toDaemon' \in Seq(Commands)
BY AppendFacts DEF TypeOK, Submit

LEMMA AskedIsNat ==
    ASSUME TypeOK
    PROVE  Asked \subseteq Nat
BY PendingAssumption DEF TypeOK, Asked, Reported, Null

\* What an edit makes of the page.
LEMMA EditTypes ==
    ASSUME TypeOK, NEW v \in Nat, NEW opt \in BOOLEAN, OverlaidEdit(v, opt)
    PROVE  /\ entry' \in Overlays /\ asked' \in Edits /\ shown' \in Reported
           /\ entry' = Entry(v, shown) /\ asked' = AskedFor(v, shown, opt)
           /\ entry'.value = v /\ entry'.orig = shown /\ ~entry'.none
           /\ asked'.value = v /\ asked'.was = shown /\ asked'.seen = opt
           /\ ~asked'.snapped /\ ~asked'.none
<1> USE TTLIsNat
<1>1. shown \in Reported /\ shown' \in Reported
  BY DEF OverlaidEdit, TypeOK, Reported
<1>2. entry' = Entry(v, shown) /\ asked' = AskedFor(v, shown, opt)
  BY DEF OverlaidEdit, AddPendingSet
<1>3. Entry(v, shown) \in Overlays /\ AskedFor(v, shown, opt) \in Edits
  BY <1>1 DEF Entry, AskedFor, Overlays, Edits
<1> QED
  BY <1>1, <1>2, <1>3 DEF Entry, AskedFor

\* What a snapshot makes of the page.
LEMMA SnapshotTypes ==
    ASSUME TypeOK, NEW s \in Reported, ApplyPendingSets(s)
    PROVE  /\ shown' \in Reported /\ entry' \in Overlays /\ asked' \in Edits
           /\ foreign' \in BOOLEAN
           /\ asked'.value = asked.value /\ asked'.was = asked.was
           /\ asked'.none = asked.none /\ asked'.seen /\ asked'.snapped
<1>1. entry.value \in Nat
  BY DEF TypeOK, Overlays
<1>2. shown' \in Reported /\ entry' \in Overlays
  BY <1>1, InitRecords DEF ApplyPendingSets, TypeOK, Reported
<1>3. foreign' \in BOOLEAN
  BY DEF ApplyPendingSets
<1>4. asked' \in Edits
  BY DEF ApplyPendingSets, TypeOK, Edits
<1>5. /\ asked'.value = asked.value /\ asked'.was = asked.was
      /\ asked'.none = asked.none /\ asked'.seen /\ asked'.snapped
  BY DEF ApplyPendingSets, TypeOK, Edits
<1> QED
  BY <1>2, <1>3, <1>4, <1>5

LEMMA PowerTypes ==
    ASSUME TypeOK, NEW m \in Reports, ApplyPendingPower(m)
    PROVE  power' \in PendingPower /\ fate' \in Fates /\ toast' \in Toasts
<1>1. power.ticks \in 0..4 /\ power.batch \in BOOLEAN
  BY DEF TypeOK, PendingPower
<1>2. ~Spent => power.ticks + 1 \in 0..4
  BY <1>1 DEF Spent, Threshold
<1>3. ~Spent => [power EXCEPT !.ticks = power.ticks + 1] \in PendingPower
  BY <1>2 DEF TypeOK, PendingPower
<1>4. power' \in PendingPower
  BY <1>3, InitRecords DEF ApplyPendingPower
<1>5. fate' \in Fates
  BY Zenon DEF ApplyPendingPower, TypeOK, Fates
<1>6. Cause(m) \in Toasts
  BY DEF Cause, Reports, Fates, Toasts
<1>7. toast' = Cause(m) \/ toast' = "none"
  BY Zenon DEF ApplyPendingPower
<1> QED
  BY <1>4, <1>5, <1>6, <1>7 DEF Toasts, Fates

LEMMA EventTypes ==
    ASSUME TypeOK, Event
    PROVE  events' \in Nat
BY DEF TypeOK, Event

LEMMA NothingUnderWay == << >> \in Seq(Commands) /\ << >> \in Seq(Reports)
OBVIOUS

LEMMA InitTypes == Init => TypeOK
<1> SUFFICES ASSUME Init PROVE TypeOK
  OBVIOUS
<1>1. /\ kind \in {"channel", "booster"} /\ connected \in BOOLEAN /\ linked \in BOOLEAN
      /\ set \in Reported /\ shown \in Reported /\ last \in Reported /\ events \in Nat
  BY DEF Init, Reported
<1>2. /\ on \in BOOLEAN /\ shownOn \in BOOLEAN /\ busy \in BOOLEAN
      /\ foreign \in BOOLEAN /\ fate \in Fates
  BY DEF Init, Fates
<1>3. toDaemon \in Seq(Commands) /\ wire \in Seq(Reports)
  BY NothingUnderWay DEF Init
<1>4. entry \in Overlays /\ power \in PendingPower /\ asked \in Edits /\ toast \in Toasts
  BY InitRecords DEF Init, Toasts, Fates
<1> QED
  BY <1>1, <1>2, <1>3, <1>4 DEF TypeOK

LEMMA NextTypes == TypeOK /\ [Next]_vars => TypeOK'
<1> SUFFICES ASSUME TypeOK, [Next]_vars PROVE TypeOK'
  OBVIOUS
<1>1. CASE Edit
  <2> PICK v \in Asked : TableEdit(v) \/ \E opt \in BOOLEAN : OverlaidEdit(v, opt)
    BY <1>1 DEF Edit
  <2>1. v \in Nat
    BY AskedIsNat
  <2>2. Submit([type |-> "set", value |-> v])
    BY DEF TableEdit, OverlaidEdit
  <2>3. toDaemon' \in Seq(Commands)
    BY <2>1, <2>2, SetIsCommand, SubmitTypes
  <2>4. CASE TableEdit(v)
    BY <2>3, <2>4 DEF TableEdit, Event, edited, switched, TypeOK
  <2>5. ASSUME NEW opt \in BOOLEAN, OverlaidEdit(v, opt) PROVE TypeOK'
    <3>1. busy' \in BOOLEAN /\ foreign' \in BOOLEAN
      BY <2>5 DEF OverlaidEdit
    <3>2. entry' \in Overlays /\ asked' \in Edits /\ shown' \in Reported
      BY <2>1, <2>5, EditTypes
    <3>3. events' \in Nat
      BY <2>5 DEF OverlaidEdit, Event, TypeOK
    <3> QED
      BY <2>3, <2>5, <3>1, <3>2, <3>3 DEF OverlaidEdit, switched, TypeOK
  <2> QED
    BY <2>4, <2>5
<1>2. CASE Switch
  <2> PICK o \in BOOLEAN, how \in BOOLEAN : SwitchChannel(o, how) \/ SwitchBooster(o, how)
    BY <1>2 DEF Switch
  <2>1. SwitchCommand(o)
    BY DEF SwitchChannel, SwitchBooster
  <2>2. toDaemon' \in Seq(Commands)
    BY <2>1, PowerIsCommand, SubmitTypes DEF SwitchCommand
  <2>3. wire' \in Seq(Reports)
    <3>1. "under way" \in Fates
      BY DEF Fates
    <3>2. ASSUME NEW r \in Reports PROVE [r EXCEPT !.fate = "under way"] \in Reports
      BY <3>1 DEF Reports
    <3>3. /\ Len(wire) \in Nat /\ DOMAIN wire = 1..Len(wire)
          /\ \A i \in 1..Len(wire) : wire[i] \in Reports
      BY DEF TypeOK
    <3>4. CASE wire' = [i \in DOMAIN wire |-> [wire[i] EXCEPT !.fate = "under way"]]
      <4>1. wire' = [i \in 1..Len(wire) |-> [wire[i] EXCEPT !.fate = "under way"]]
        BY <3>3, <3>4
      <4>2. \A i \in 1..Len(wire) : [wire[i] EXCEPT !.fate = "under way"] \in Reports
        BY <3>2, <3>3
      <4>3. ASSUME NEW n \in Nat, NEW g, \A i \in 1..n : g[i] \in Reports,
                   g = [i \in 1..n |-> g[i]]
            PROVE  g \in Seq(Reports)
        BY <4>3
      <4> QED
        BY <3>3, <4>1, <4>2, <4>3
    <3>5. CASE wire' = wire
      BY <3>5 DEF TypeOK
    <3> QED
      BY <3>4, <3>5 DEF SwitchChannel, SwitchBooster
  <2>4. PowerEntry(o, how) \in PendingPower
    BY DEF PowerEntry, PendingPower
  <2>5. power' \in PendingPower /\ shownOn' \in BOOLEAN /\ fate' \in Fates
    BY <2>4 DEF SwitchChannel, SwitchBooster, TypeOK, Fates
  <2>6. events' \in Nat
    BY <2>1, EventTypes DEF SwitchCommand
  <2> QED
    BY <2>1, <2>2, <2>3, <2>5, <2>6 DEF SwitchCommand, edited, TypeOK
<1>3. CASE Execute
  <2>1. Tail(toDaemon) \in Seq(Commands) /\ Head(toDaemon) \in Commands
    BY <1>3, TailFacts DEF Execute, TypeOK
  <2>2. set' \in Reported
    BY <1>3, <2>1, PendingAssumption DEF Execute, Commands, Clamped, TypeOK, Reported
  <2>3. on' \in BOOLEAN /\ foreign' \in BOOLEAN
    BY <1>3, <2>1 DEF Execute, Commands, TypeOK
  <2>4. fate' \in Fates
    BY <1>3 DEF Execute, Fate, TypeOK, Fates
  <2> QED
    BY <1>3, <2>1, <2>2, <2>3, <2>4 DEF Execute, edited, switched, TypeOK
<1>4. CASE Elsewhere
  <2>1. set' \in Reported /\ events' \in Nat
    BY <1>4, PendingAssumption, EventTypes DEF Elsewhere, TypeOK, Reported
  <2>2. on' \in BOOLEAN /\ foreign' \in BOOLEAN /\ fate' \in Fates
    BY <1>4 DEF Elsewhere, TypeOK, Fates
  <2> QED
    BY <1>4, <2>1, <2>2 DEF Elsewhere, edited, switched, TypeOK
<1>5. CASE Poll
  <2>1. [set |-> set, on |-> on, fate |-> fate] \in Reports
    BY DEF TypeOK, Reports
  <2>2. wire' \in Seq(Reports)
    BY <1>5, <2>1, AppendFacts DEF Poll, TypeOK
  <2> QED
    BY <1>5, <2>2 DEF Poll, edited, switched, TypeOK
<1>6. CASE Tick
  <2>1. entry.age \in 0..TTL + 1 /\ entry.age <= TTL
    BY <1>6, TTLIsNat DEF Tick, TypeOK, Overlays
  <2>2. [entry EXCEPT !.age = entry.age + 1] \in Overlays
    <3>1. entry.age + 1 \in 0..TTL + 1
      BY <2>1, TTLIsNat
    <3> QED
      BY <3>1 DEF TypeOK, Overlays
  <2> QED
    BY <1>6, <2>2 DEF Tick, switched, TypeOK
<1>7. CASE Snapshot
  <2> DEFINE m == Head(wire)
  <2>1. Tail(wire) \in Seq(Reports) /\ m \in Reports
    BY <1>7, TailFacts DEF Snapshot, TypeOK
  <2>2. m.set \in Reported /\ m.on \in BOOLEAN
    BY <2>1 DEF Reports
  <2>3. ApplyPendingSets(m.set) /\ ApplyPendingPower(m)
    BY <1>7 DEF Snapshot
  <2>4. /\ shown' \in Reported /\ entry' \in Overlays /\ asked' \in Edits
        /\ foreign' \in BOOLEAN /\ power' \in PendingPower
        /\ fate' \in Fates /\ toast' \in Toasts
    BY <2>1, <2>2, <2>3, SnapshotTypes, PowerTypes
  <2> QED
    BY <1>7, <2>1, <2>2, <2>4 DEF Snapshot, TypeOK
<1>8. CASE Cut
  <2>1. events' \in Nat
    BY <1>8, EventTypes DEF Cut
  <2>2. fate' \in Fates
    BY <1>8 DEF Cut, TypeOK, Fates
  <2>3. entry' \in Overlays /\ power' \in PendingPower
    BY <1>8, InitRecords DEF Cut, ClearAllPendingSets
  <2>4. toDaemon' \in Seq(Commands) /\ wire' \in Seq(Reports)
    BY <1>8, NothingUnderWay DEF Cut
  <2> QED
    BY <1>8, <2>1, <2>2, <2>3, <2>4 DEF Cut, TypeOK
<1>9. CASE Reconnect
  BY <1>9 DEF Reconnect, edited, switched, TypeOK
<1>10. CASE UNCHANGED vars
  BY <1>10 DEF vars, edited, switched, TypeOK
<1>11. CASE Skip
  <2>1. Tail(toDaemon) \in Seq(Commands)
    BY <1>11, TailFacts DEF Skip, TypeOK
  <2>2. fate' \in Fates
    BY <1>11 DEF Skip, Fate, TypeOK, Fates
  <2> QED
    BY <1>11, <2>1, <2>2 DEF Skip, edited, switched, TypeOK
<1>12. CASE Unlink \/ Relink
  BY <1>12, EventTypes DEF Unlink, Relink, edited, switched, TypeOK
<1>13. CASE FirstRead
  BY <1>13, PendingAssumption DEF FirstRead, edited, switched, TypeOK, Reported
<1> QED
  BY <1>1, <1>2, <1>3, <1>4, <1>5, <1>6, <1>7, <1>8, <1>9, <1>10, <1>11, <1>12, <1>13 DEF Next

\* Every variable keeps its type.
THEOREM TypeCorrect == Spec => []TypeOK
<1>1. Init => TypeOK
  BY InitTypes
<1>2. TypeOK /\ [Next]_vars => TypeOK'
  BY NextTypes
<1> QED
  BY <1>1, <1>2, PTL DEF Spec

-----------------------------------------------------------------------------
(* What the page hides. *)

LEMMA InitOverlay == Init => OverlayInv /\ OthersShowAtOnce /\ ToastInv
BY DEF Init, OverlayInv, OthersShowAtOnce, ToastInv, FateInv, ToastIsTrue, NoEntry, NoPower,
       NotAsked

\* A step that leaves the page's copy, its overlay and its last snapshot alone.
LEMMA OverlayKept ==
    ASSUME OverlayInv, OthersShowAtOnce, UNCHANGED <<edited, last>>
    PROVE  OverlayInv' /\ OthersShowAtOnce'
BY DEF edited, OverlayInv, OthersShowAtOnce

LEMMA NextOverlay ==
    TypeOK /\ OverlayInv /\ OthersShowAtOnce /\ [Next]_vars => OverlayInv' /\ OthersShowAtOnce'
<1> SUFFICES ASSUME TypeOK, OverlayInv, OthersShowAtOnce, [Next]_vars
             PROVE  OverlayInv' /\ OthersShowAtOnce'
  OBVIOUS
<1>1. CASE Edit
  <2> PICK v \in Asked : TableEdit(v) \/ \E opt \in BOOLEAN : OverlaidEdit(v, opt)
    BY <1>1 DEF Edit
  <2>1. CASE TableEdit(v)
    BY <2>1, OverlayKept DEF TableEdit
  <2>2. ASSUME NEW opt \in BOOLEAN, OverlaidEdit(v, opt)
        PROVE  OverlayInv' /\ OthersShowAtOnce'
    BY <2>2, AskedIsNat, EditTypes DEF OverlayInv, OthersShowAtOnce
  <2> QED
    BY <2>1, <2>2
<1>2. CASE Switch
  BY <1>2, OverlayKept DEF Switch, SwitchChannel, SwitchBooster, SwitchCommand
<1>3. CASE Execute \/ Skip \/ Unlink \/ Relink \/ FirstRead
  BY <1>3, OverlayKept DEF Execute, Skip, Unlink, Relink, FirstRead
<1>4. CASE Elsewhere
  BY <1>4, OverlayKept DEF Elsewhere
<1>5. CASE Poll
  BY <1>5, OverlayKept DEF Poll
<1>6. CASE Tick
  <2>1. entry'.value = entry.value /\ entry'.orig = entry.orig /\ entry'.none = entry.none
    BY <1>6 DEF Tick, TypeOK, Overlays
  <2> QED
    BY <1>6, <2>1 DEF Tick, OverlayInv, OthersShowAtOnce
<1>7. CASE Snapshot
  <2> DEFINE s == Head(wire).set
  <2>1. ApplyPendingSets(s) /\ last' = s
    BY <1>7 DEF Snapshot
  <2>2. Head(wire) \in Reports
    BY <1>7, TailFacts DEF Snapshot, TypeOK
  <2>3. s \in Reported
    BY <2>2 DEF Reports
  <2>4. /\ asked'.value = asked.value /\ asked'.was = asked.was /\ asked'.none = asked.none
    BY <2>1, <2>3, SnapshotTypes
  <2>5. CASE Overrides(s)
    <3>1. shown' = entry.value /\ entry' = entry
      BY <2>1, <2>5 DEF ApplyPendingSets
    <3>2. ~entry.none /\ (s = entry.orig \/ s = Null \/ entry.orig = Null)
      BY <2>5 DEF Overrides, Superseded
    <3> QED
      BY <2>1, <2>4, <3>1, <3>2 DEF OverlayInv, OthersShowAtOnce
  <2>6. CASE ~Overrides(s)
    <3>1. shown' = s /\ entry' = NoEntry
      BY <2>1, <2>6 DEF ApplyPendingSets
    <3> QED
      BY <2>1, <3>1 DEF OverlayInv, OthersShowAtOnce, NoEntry
  <2> QED
    BY <2>5, <2>6
<1>8. CASE Cut
  BY <1>8 DEF Cut, ClearAllPendingSets, NoEntry, OverlayInv, OthersShowAtOnce
<1>9. CASE Reconnect
  BY <1>9, OverlayKept DEF Reconnect
<1>10. CASE UNCHANGED vars
  BY <1>10, OverlayKept DEF vars
<1> QED
  BY <1>1, <1>2, <1>3, <1>4, <1>5, <1>6, <1>7, <1>8, <1>9, <1>10 DEF Next

\* What another user sets is not hidden behind an edit, for any number of users,
\* edits and snapshots (header of monitor_pending.js, "Multi-user safety"), but
\* for an edit of a value that was not read yet.
THEOREM OthersShow == Spec => []OthersShowAtOnce
<1> DEFINE Inv == TypeOK /\ OverlayInv /\ OthersShowAtOnce
<1>1. Init => Inv
  BY InitTypes, InitOverlay
<1>2. Inv /\ [Next]_vars => Inv'
  BY NextTypes, NextOverlay
<1>3. Inv => OthersShowAtOnce
  OBVIOUS
<1> QED
  BY <1>1, <1>2, <1>3, PTL DEF Spec

-----------------------------------------------------------------------------
(* Toasts. *)

\* A step that leaves the pending command and everything about it alone.
LEMMA FateKept ==
    ASSUME FateInv, UNCHANGED <<kind, on, power, toDaemon, wire>>, fate' = fate
    PROVE  FateInv'
BY DEF FateInv, IsLast

\* A command that switches a channel is the pending one, and the last in the queue.
LEMMA SwitchFate ==
    ASSUME TypeOK, NEW o \in BOOLEAN, NEW batch \in BOOLEAN, SwitchChannel(o, batch)
    PROVE  FateInv'
<1> DEFINE c == [type |-> "power", on |-> o]
<1>1. toDaemon' = Append(toDaemon, c) /\ kind' = "channel"
  BY DEF SwitchChannel, SwitchCommand, Submit
<1>2. fate' = "under way" /\ power'.on = o
  BY DEF SwitchChannel, PowerEntry
<1>3. ASSUME NEW i \in DOMAIN wire' PROVE wire'[i].fate = "under way"
  <2>1. wire' = [j \in DOMAIN wire |-> [wire[j] EXCEPT !.fate = "under way"]]
    BY DEF SwitchChannel
  <2>2. i \in DOMAIN wire /\ wire'[i] = [wire[i] EXCEPT !.fate = "under way"]
    BY <2>1
  <2>3. wire[i] \in Reports
    <3>1. wire \in Seq(Reports)
      BY DEF TypeOK
    <3>2. DOMAIN wire = 1..Len(wire)
      BY <3>1
    <3>3. i \in 1..Len(wire)
      BY <2>2, <3>2
    <3> QED
      BY <3>1, <3>3
  <2> QED
    BY <2>2, <2>3 DEF Reports
<1>4. toDaemon \in Seq(Commands) /\ c \in Commands
  BY PowerIsCommand DEF TypeOK
<1>5. /\ DOMAIN toDaemon' = 1..Len(toDaemon) + 1 /\ Len(toDaemon) \in Nat
      /\ toDaemon'[Len(toDaemon) + 1] = c
  BY <1>1, <1>4, AppendFacts
<1>6. ASSUME NEW i \in DOMAIN toDaemon', IsLast(i)' PROVE toDaemon'[i].on = o
  <2>1. i = Len(toDaemon) + 1
    BY <1>5, <1>6 DEF IsLast
  <2> QED
    BY <1>5, <2>1
<1> QED
  BY <1>1, <1>2, <1>3, <1>6 DEF FateInv

\* The poll thread ends the oldest command.
LEMMA ExecuteFate ==
    ASSUME TypeOK, FateInv, Execute \/ Skip
    PROVE  FateInv'
<1> DEFINE c == Head(toDaemon)
<1> SUFFICES ASSUME ~power.none PROVE FateInv'
  BY DEF Execute, Skip, switched, FateInv
<1>1. /\ UNCHANGED <<kind, power, wire>> /\ toDaemon # <<>> /\ toDaemon' = Tail(toDaemon)
      /\ toDaemon \in Seq(Commands)
  BY DEF Execute, Skip, switched, TypeOK
<1>2. /\ 1 \in DOMAIN toDaemon /\ c = toDaemon[1]
      /\ DOMAIN toDaemon' \subseteq Nat \ {0}
      /\ \A i \in DOMAIN toDaemon' : i + 1 \in DOMAIN toDaemon /\ toDaemon'[i] = toDaemon[i + 1]
      /\ DOMAIN toDaemon = 1..Len(toDaemon) /\ DOMAIN toDaemon' = 1..Len(toDaemon) - 1
      /\ Len(toDaemon) \in Nat
  BY <1>1, TailFacts
<1>3. ASSUME NEW i \in DOMAIN toDaemon', IsLast(i)' PROVE IsLast(i + 1)
  <2>1. ASSUME NEW j \in DOMAIN toDaemon, i + 1 < j PROVE toDaemon[j].type # "power"
    <3>1. j - 1 \in DOMAIN toDaemon' /\ i < j - 1 /\ toDaemon'[j - 1] = toDaemon[j]
      BY <1>2, <2>1
    <3> QED
      BY <1>3, <3>1 DEF IsLast
  <2> QED
    BY <2>1 DEF IsLast
<1>4. CASE c.type # "power"
  <2>1. UNCHANGED <<on, fate>>
    BY <1>4 DEF Execute, Skip
  <2> QED
    BY <1>1, <1>2, <1>3, <2>1 DEF FateInv
<1>5. CASE c.type = "power"
  <2>1. fate = "under way"
    BY <1>2, <1>5 DEF FateInv
  <2>2. CASE \A i \in 2..Len(toDaemon) : toDaemon[i].type # "power"
    <3>1. c.on = power.on
      <4>1. IsLast(1)
        BY <1>2, <2>2 DEF IsLast
      <4> QED
        BY <1>2, <1>5, <4>1 DEF FateInv
    <3>2. \/ fate' = "done" /\ on' = power.on
          \/ fate' \in {"refused", "skipped"}
      BY <1>5, <2>1, <2>2, <3>1 DEF Execute, Skip, Fate
    <3>3. \A i \in DOMAIN toDaemon' : toDaemon'[i].type # "power"
      BY <1>2, <2>2
    <3> QED
      BY <1>1, <3>2, <3>3 DEF FateInv
  <2>3. CASE ~\A i \in 2..Len(toDaemon) : toDaemon[i].type # "power"
    <3>1. fate' = fate
      BY <1>5, <2>3 DEF Execute, Skip, Fate
    <3> QED
      BY <1>1, <1>2, <1>3, <2>1, <3>1 DEF FateInv
  <2> QED
    BY <2>2, <2>3
<1> QED
  BY <1>4, <1>5

LEMMA PollFate ==
    ASSUME TypeOK, FateInv, Poll
    PROVE  FateInv'
<1> DEFINE m == [set |-> set, on |-> on, fate |-> fate]
<1>1. UNCHANGED <<kind, on, fate, power, toDaemon>> /\ wire' = Append(wire, m)
  BY DEF Poll, switched
<1>2. wire \in Seq(Reports) /\ m \in Reports
  BY DEF TypeOK, Reports
<1>3. \A i \in DOMAIN wire' :
        (i \in DOMAIN wire /\ wire'[i] = wire[i]) \/ (wire'[i].on = on /\ wire'[i].fate = fate)
  BY <1>1, <1>2, AppendFacts
<1> QED
  BY <1>1, <1>3 DEF FateInv, IsLast

\* A snapshot arrives: a toast that it shows has one of the causes allowed.
LEMMA SnapshotFate ==
    ASSUME TypeOK, FateInv, Snapshot
    PROVE  FateInv' /\ ToastIsTrue'
<1> DEFINE m == Head(wire)
<1>1. /\ ApplyPendingPower(m) /\ wire # <<>> /\ wire' = Tail(wire)
      /\ UNCHANGED <<kind, on, toDaemon>> /\ wire \in Seq(Reports)
  BY DEF Snapshot, TypeOK
<1>2. /\ 1 \in DOMAIN wire /\ m = wire[1]
      /\ \A i \in DOMAIN wire' : i + 1 \in DOMAIN wire /\ wire'[i] = wire[i + 1]
  BY <1>1, TailFacts
<1>3. ToastIsTrue'
  <2>1. CASE ~power.none /\ ~Confirmed(m.on) /\ Spent /\ power.on
    <3>1. toast' = Cause(m)
      BY <1>1, <2>1, Zenon DEF ApplyPendingPower
    <3>2. fate # "lost" /\ m.fate # "lost" /\ (m.fate = "done" => m.on = power.on)
      <4>1. ~power.none
        BY <2>1
      <4>2. 1 \in DOMAIN wire /\ m = wire[1]
        BY <1>2
      <4> QED
        BY <4>1, <4>2 DEF FateInv
    <3>3. m.fate # "done"
      BY <2>1, <3>2 DEF Confirmed
    <3> QED
      BY <3>1, <3>2, <3>3 DEF Cause, ToastIsTrue
  <2>2. CASE ~(~power.none /\ ~Confirmed(m.on) /\ Spent /\ power.on)
    <3>1. toast' = "none"
      BY <1>1, <2>2, Zenon DEF ApplyPendingPower
    <3> QED
      BY <3>1 DEF ToastIsTrue
  <2> QED
    BY <2>1, <2>2
<1>4. FateInv'
  <2>1. CASE power.none \/ Confirmed(m.on) \/ Spent
    <3>1. power'.none
      BY <1>1, <2>1 DEF ApplyPendingPower, NoPower
    <3> QED
      BY <3>1 DEF FateInv
  <2>2. CASE ~(power.none \/ Confirmed(m.on) \/ Spent)
    <3>1. power' = [power EXCEPT !.ticks = power.ticks + 1] /\ fate' = fate
      BY <1>1, <2>2 DEF ApplyPendingPower
    <3>2. power'.on = power.on /\ power'.none = power.none
      BY <3>1 DEF TypeOK, PendingPower
    <3> QED
      BY <1>1, <1>2, <3>1, <3>2 DEF FateInv, IsLast
  <2> QED
    BY <2>1, <2>2
<1> QED
  BY <1>3, <1>4

LEMMA NextFate == TypeOK /\ ToastInv /\ [Next]_vars => ToastInv'
<1> SUFFICES ASSUME TypeOK, ToastInv, [Next]_vars PROVE ToastInv'
  OBVIOUS
<1>0. FateInv /\ ToastIsTrue
  BY DEF ToastInv
<1>1. CASE Edit
  <2> PICK v \in Asked : TableEdit(v) \/ \E opt \in BOOLEAN : OverlaidEdit(v, opt)
    BY <1>1 DEF Edit
  <2>1. v \in Nat
    BY AskedIsNat
  <2> DEFINE c == [type |-> "set", value |-> v]
  <2>2. Submit(c) /\ UNCHANGED <<kind, on, power, wire, fate, toast>>
    BY DEF TableEdit, OverlaidEdit, switched
  <2>3. toDaemon \in Seq(Commands) /\ c \in Commands
    BY <2>1, SetIsCommand DEF TypeOK
  <2>4. /\ DOMAIN toDaemon \subseteq DOMAIN toDaemon'
        /\ \A i \in DOMAIN toDaemon : toDaemon'[i] = toDaemon[i]
        /\ \A i \in DOMAIN toDaemon' : i \in DOMAIN toDaemon \/ toDaemon'[i] = c
    BY <2>2, <2>3, AppendFacts DEF Submit
  <2>5. ASSUME ~power.none, NEW i \in DOMAIN toDaemon', toDaemon'[i].type = "power"
        PROVE  fate = "under way" /\ (IsLast(i)' => toDaemon'[i].on = power.on)
    <3>1. i \in DOMAIN toDaemon /\ toDaemon'[i] = toDaemon[i]
      BY <2>4, <2>5
    <3>2. IsLast(i)' => IsLast(i)
      BY <2>4 DEF IsLast
    <3> QED
      BY <1>0, <2>5, <3>1, <3>2 DEF FateInv
  <2>6. FateInv'
    BY <1>0, <2>2, <2>5 DEF FateInv
  <2> QED
    BY <1>0, <2>2, <2>6 DEF ToastInv, ToastIsTrue
<1>2. CASE Switch
  <2> PICK o \in BOOLEAN, how \in BOOLEAN : SwitchChannel(o, how) \/ SwitchBooster(o, how)
    BY <1>2 DEF Switch
  <2>1. toast' = toast
    BY DEF SwitchChannel, SwitchBooster, SwitchCommand
  <2>2. CASE SwitchChannel(o, how)
    BY <1>0, <2>1, <2>2, SwitchFate DEF ToastInv, ToastIsTrue
  <2>3. CASE SwitchBooster(o, how)
    <3>1. power.none /\ power' = power
      BY <1>0, <2>3 DEF FateInv, SwitchBooster
    <3> QED
      BY <1>0, <2>1, <3>1 DEF ToastInv, ToastIsTrue, FateInv
  <2> QED
    BY <2>2, <2>3
<1>3. CASE Execute \/ Skip
  <2>1. toast' = toast
    BY <1>3 DEF Execute, Skip
  <2> QED
    BY <1>0, <1>3, <2>1, ExecuteFate DEF ToastInv, ToastIsTrue
<1>4. CASE Elsewhere
  <2>1. UNCHANGED <<kind, power, wire, toDaemon, toast>>
    BY <1>4 DEF Elsewhere, switched
  <2>2. \/ UNCHANGED <<on, fate>>
        \/ fate' = IF fate = "done" THEN "undone" ELSE fate
    BY <1>4 DEF Elsewhere
  <2> QED
    BY <1>0, <2>1, <2>2 DEF ToastInv, ToastIsTrue, FateInv, IsLast
<1>5. CASE Poll
  <2>1. toast' = toast
    BY <1>5 DEF Poll
  <2> QED
    BY <1>0, <1>5, <2>1, PollFate DEF ToastInv, ToastIsTrue
<1>6. CASE Tick \/ Unlink \/ Relink \/ FirstRead \/ Reconnect \/ UNCHANGED vars
  <2>1. UNCHANGED <<kind, on, power, toDaemon, wire, fate, toast>>
    BY <1>6 DEF Tick, Unlink, Relink, FirstRead, Reconnect, vars, switched
  <2> QED
    BY <1>0, <2>1, FateKept DEF ToastInv, ToastIsTrue
<1>7. CASE Snapshot
  BY <1>0, <1>7, SnapshotFate DEF ToastInv
<1>8. CASE Cut
  <2>1. power'.none /\ toast' = toast
    BY <1>8 DEF Cut, ClearAllPendingSets, NoPower
  <2> QED
    BY <1>0, <2>1 DEF ToastInv, ToastIsTrue, FateInv
<1> QED
  BY <1>1, <1>2, <1>3, <1>4, <1>5, <1>6, <1>7, <1>8 DEF Next

\* No toast blames an interlock for a command that was lost with the connection,
\* or was carried out and left alone: for any number of commands, polls, users
\* and losses of a link.
THEOREM ToastsAreTrue == Spec => []ToastIsTrue
<1> DEFINE Inv == TypeOK /\ ToastInv
<1>1. Init => Inv
  BY InitTypes, InitOverlay
<1>2. Inv /\ [Next]_vars => Inv'
  BY NextTypes, NextFate
<1>3. Inv => ToastIsTrue
  BY DEF ToastInv
<1> QED
  BY <1>1, <1>2, <1>3, PTL DEF Spec

-----------------------------------------------------------------------------
(* What the page keeps. *)

LEMMA InitStream == Init => StreamInv
BY DEF Init, StreamInv, Mine, NotAsked

\* A step that changes neither value nor edit, and nothing under way about them.
LEMMA StreamKept ==
    ASSUME StreamInv, UNCHANGED <<edited, set>>, foreign' \in {foreign, TRUE},
           foreign \in BOOLEAN,
           DOMAIN toDaemon' = DOMAIN toDaemon,
           \A i \in DOMAIN toDaemon : toDaemon'[i] = toDaemon[i],
           DOMAIN wire' = DOMAIN wire,
           \A i \in DOMAIN wire : wire'[i].set = wire[i].set
    PROVE  StreamInv'
<1> SUFFICES ASSUME Mine' PROVE CommandsMine' /\ ReportsMine' /\ PageMine'
  BY DEF StreamInv
<1>1. Mine
  <2>1. foreign' # TRUE
    BY DEF Mine
  <2>2. ~foreign
    BY <2>1
  <2> QED
    BY <2>2 DEF Mine, edited
<1>2. CommandsMine /\ ReportsMine /\ PageMine
  BY <1>1 DEF StreamInv
<1>3. CommandsMine'
  BY <1>2 DEF CommandsMine, edited
<1>4. ReportsMine'
  BY <1>2 DEF ReportsMine, Arrived, edited
<1>5. PageMine'
  BY <1>2 DEF PageMine, Arrived, edited
<1> QED
  BY <1>3, <1>4, <1>5

\* The edit itself, on a page that is up to date.
LEMMA EditStream ==
    ASSUME TypeOK, NEW v \in Nat, NEW opt \in BOOLEAN, OverlaidEdit(v, opt), Mine'
    PROVE  CommandsMine' /\ ReportsMine' /\ PageMine'
<1> DEFINE c == [type |-> "set", value |-> v]
<1>1. /\ asked'.value = v /\ asked'.was = shown /\ asked'.seen = opt /\ ~entry'.none
  BY EditTypes
<1>2. UpToDate
  BY DEF OverlaidEdit, Mine
<1>3. toDaemon' = Append(toDaemon, c) /\ UNCHANGED <<wire, set>>
  BY DEF OverlaidEdit, Submit
<1>4. CommandsMine'
  <2>1. toDaemon \in Seq(Commands) /\ c \in Commands
    BY SetIsCommand DEF TypeOK
  <2>2. /\ DOMAIN toDaemon = 1..Len(toDaemon) /\ Len(toDaemon) \in Nat
        /\ DOMAIN toDaemon' = 1..Len(toDaemon) + 1
        /\ \A i \in DOMAIN toDaemon : toDaemon'[i] = toDaemon[i]
        /\ toDaemon'[Len(toDaemon) + 1] = c
    BY <1>3, <2>1, AppendFacts
  <2>3. ASSUME NEW i \in DOMAIN toDaemon', toDaemon'[i].type = "set"
        PROVE  toDaemon'[i].value = asked'.value
    <3>1. i \notin DOMAIN toDaemon
      BY <1>2, <2>2, <2>3 DEF UpToDate
    <3>2. i = Len(toDaemon) + 1
      BY <2>2, <3>1
    <3> QED
      BY <1>1, <2>2, <3>2
  <2> QED
    BY <2>3 DEF CommandsMine
<1>5. ReportsMine'
  BY <1>1, <1>2, <1>3 DEF ReportsMine, Arrived, UpToDate
<1>6. PageMine'
  BY <1>1 DEF PageMine, OverlaidEdit
<1> QED
  BY <1>4, <1>5, <1>6

\* The poll thread takes the edit over, or skips it.
LEMMA ExecuteStream ==
    ASSUME TypeOK, StreamInv, Execute \/ Skip, Mine'
    PROVE  CommandsMine' /\ ReportsMine' /\ PageMine'
<1> DEFINE c == Head(toDaemon)
<1>1. /\ UNCHANGED <<wire, edited>> /\ toDaemon # <<>> /\ toDaemon' = Tail(toDaemon)
      /\ foreign' = FALSE => foreign = FALSE
  BY DEF Execute, Skip, TypeOK
<1>2. Mine
  BY <1>1 DEF Mine, edited, TypeOK
<1>3. CommandsMine /\ ReportsMine /\ PageMine
  BY <1>2 DEF StreamInv
<1>4. /\ 1 \in DOMAIN toDaemon /\ c = toDaemon[1]
      /\ \A i \in DOMAIN toDaemon' : i + 1 \in DOMAIN toDaemon /\ toDaemon'[i] = toDaemon[i + 1]
  BY <1>1, TailFacts DEF TypeOK
<1>5. set' \in {set, asked.value}
  <2>1. CASE c.type = "set"
    <3>1. c.value = asked.value
      BY <1>3, <1>4, <2>1 DEF CommandsMine
    <3>2. \/ Clamped(c.value) = c.value /\ set' = Clamped(c.value)
          \/ set' = set
      BY <2>1 DEF Execute, Skip, Mine
    <3> QED
      BY <3>1, <3>2
  <2>2. CASE c.type # "set"
    BY <2>2 DEF Execute, Skip
  <2> QED
    BY <2>1, <2>2
<1>6. CommandsMine'
  BY <1>1, <1>3, <1>4 DEF CommandsMine, edited
<1>7. ReportsMine'
  BY <1>1, <1>3, <1>5 DEF ReportsMine, Arrived, edited
<1>8. PageMine'
  BY <1>1, <1>3, <1>5 DEF PageMine, Arrived, edited
<1> QED
  BY <1>6, <1>7, <1>8

\* A value is read for the first time: the edit was one of a value not read yet.
LEMMA FirstReadStream ==
    ASSUME TypeOK, StreamInv, FirstRead, Mine'
    PROVE  CommandsMine' /\ ReportsMine' /\ PageMine'
<1>1. UNCHANGED <<toDaemon, wire, edited, foreign>> /\ set = Null
  BY DEF FirstRead
<1>2. CommandsMine /\ ReportsMine /\ PageMine
  BY <1>1 DEF StreamInv, Mine, edited
<1>3. set # asked.value
  BY <1>1 DEF TypeOK, Edits, Null
<1>4. asked.was = Null /\ \A i \in DOMAIN wire : ~Arrived(i)
  BY <1>1, <1>2, <1>3 DEF ReportsMine
<1>5. CommandsMine'
  BY <1>1, <1>2 DEF CommandsMine, edited
<1>6. ReportsMine'
  BY <1>1, <1>4 DEF ReportsMine, Arrived, edited
<1>7. PageMine'
  BY <1>1, <1>2, <1>3 DEF PageMine, edited
<1> QED
  BY <1>5, <1>6, <1>7

LEMMA PollStream ==
    ASSUME TypeOK, StreamInv, Poll, Mine'
    PROVE  CommandsMine' /\ ReportsMine' /\ PageMine'
<1> DEFINE r == [set |-> set, on |-> on, fate |-> fate]
<1>1. UNCHANGED <<toDaemon, set, edited, foreign>> /\ wire' = Append(wire, r)
  BY DEF Poll
<1>2. CommandsMine /\ ReportsMine /\ PageMine
  BY <1>1 DEF StreamInv, Mine, edited
<1>3. wire \in Seq(Reports) /\ r \in Reports
  BY DEF TypeOK, Reports
<1>4. /\ DOMAIN wire = 1..Len(wire) /\ Len(wire) \in Nat
      /\ DOMAIN wire' = 1..Len(wire) + 1
      /\ \A i \in DOMAIN wire : wire'[i] = wire[i]
      /\ wire'[Len(wire) + 1] = r
  BY <1>1, <1>3, AppendFacts
<1>5. \A i \in DOMAIN wire' : \/ i \in DOMAIN wire /\ wire'[i] = wire[i]
                              \/ i = Len(wire) + 1 /\ wire'[i].set = set
  BY <1>4
<1>6. CommandsMine'
  BY <1>1, <1>2 DEF CommandsMine, edited
<1>7. ReportsMine'
  <2>1. \A i \in DOMAIN wire' :
          asked'.was = Null \/ wire'[i].set \in {asked'.was, asked'.value}
    BY <1>1, <1>2, <1>5 DEF ReportsMine, edited
  <2>2. ASSUME NEW i \in DOMAIN wire', wire'[i].set = asked'.value
        PROVE  /\ set' = asked'.value
               /\ \A j \in DOMAIN wire' : i < j => wire'[j].set = asked'.value
    <3>1. set = asked.value
      BY <1>1, <1>2, <1>5, <2>2 DEF ReportsMine, Arrived, edited
    <3>2. ASSUME NEW j \in DOMAIN wire', i < j PROVE wire'[j].set = asked.value
      BY <1>1, <1>2, <1>4, <1>5, <2>2, <3>1, <3>2 DEF ReportsMine, Arrived, edited
    <3> QED
      BY <1>1, <3>1, <3>2 DEF edited
  <2> QED
    BY <1>1, <1>2, <2>1, <2>2 DEF ReportsMine, Arrived, edited
<1>8. PageMine'
  BY <1>1, <1>2, <1>5 DEF PageMine, Arrived, edited
<1> QED
  BY <1>6, <1>7, <1>8

\* The page takes the oldest snapshot.
LEMMA SnapshotStream ==
    ASSUME TypeOK, OverlayInv, StreamInv, Snapshot, Mine'
    PROVE  CommandsMine' /\ ReportsMine' /\ PageMine'
<1> DEFINE s == Head(wire).set
<1>1. /\ wire # <<>> /\ wire' = Tail(wire) /\ ApplyPendingSets(s)
      /\ UNCHANGED <<set, toDaemon, busy>>
  BY DEF Snapshot
<1>2. /\ Head(wire) \in Reports /\ 1 \in DOMAIN wire /\ s = wire[1].set
      /\ DOMAIN wire' \subseteq Nat \ {0}
      /\ \A i \in DOMAIN wire' : i + 1 \in DOMAIN wire /\ wire'[i] = wire[i + 1]
  BY <1>1, TailFacts DEF TypeOK
<1>3. s \in Reported
  BY <1>2 DEF Reports
<1>4. /\ asked'.value = asked.value /\ asked'.was = asked.was
      /\ asked'.none = asked.none /\ asked'.seen
  BY <1>1, <1>3, SnapshotTypes
<1>5. ~Expired /\ ~foreign
  BY <1>1 DEF ApplyPendingSets, Mine, TypeOK
<1>6. Mine
  BY <1>1, <1>4, <1>5 DEF Mine
<1>7. CommandsMine /\ ReportsMine /\ PageMine
  BY <1>6 DEF StreamInv
<1>8. CommandsMine'
  BY <1>1, <1>4, <1>7 DEF CommandsMine
<1>9. ReportsMine'
  BY <1>1, <1>2, <1>4, <1>7 DEF ReportsMine, Arrived
<1>10. PageMine'
  <2>1. CASE Overrides(s)
    <3>1. shown' = entry.value /\ entry' = entry /\ ~entry.none
      BY <1>1, <2>1 DEF ApplyPendingSets, Overrides
    <3>2. shown' = asked'.value
      BY <1>4, <3>1 DEF OverlayInv
    <3> QED
      BY <3>1, <3>2 DEF PageMine
  <2>2. CASE ~Overrides(s)
    <3>1. shown' = s
      BY <1>1, <2>2 DEF ApplyPendingSets
    <3>2. s = asked.value
      <4>1. CASE entry.none
        BY <1>2, <1>7, <4>1 DEF PageMine, Arrived
      <4>2. CASE ~entry.none
        <5>1. s = entry.value \/ (s # entry.orig /\ entry.orig # Null)
          BY <1>5, <2>2, <4>2 DEF Overrides, Converged, Superseded
        <5>2. entry.value = asked.value /\ entry.orig = asked.was
          BY <4>2 DEF OverlayInv
        <5>3. asked.was = Null \/ s \in {asked.was, asked.value}
          BY <1>2, <1>7 DEF ReportsMine
        <5> QED
          BY <5>1, <5>2, <5>3
      <4> QED
        BY <4>1, <4>2
    <3>3. set = asked.value /\ \A j \in DOMAIN wire : 1 < j => wire[j].set = asked.value
      BY <1>2, <1>7, <3>2 DEF ReportsMine, Arrived
    <3>4. \A i \in DOMAIN wire' : i + 1 \in DOMAIN wire /\ 1 < i + 1
      BY <1>2
    <3>5. \A i \in DOMAIN wire' : wire'[i].set = asked.value
      BY <1>2, <3>3, <3>4
    <3> QED
      BY <1>1, <1>4, <3>1, <3>2, <3>3, <3>5 DEF PageMine, Arrived
  <2> QED
    BY <2>1, <2>2
<1> QED
  BY <1>8, <1>9, <1>10

LEMMA NextStream == TypeOK /\ OverlayInv /\ StreamInv /\ [Next]_vars => StreamInv'
<1> SUFFICES ASSUME TypeOK, OverlayInv, StreamInv, [Next]_vars PROVE StreamInv'
  OBVIOUS
<1>0. foreign \in BOOLEAN
  BY DEF TypeOK
<1>1. CASE Edit
  <2> PICK v \in Asked : TableEdit(v) \/ \E opt \in BOOLEAN : OverlaidEdit(v, opt)
    BY <1>1 DEF Edit
  <2>1. CASE TableEdit(v)
    BY <2>1 DEF TableEdit, StreamInv, Mine
  <2>2. ASSUME NEW opt \in BOOLEAN, OverlaidEdit(v, opt) PROVE StreamInv'
    BY <2>2, AskedIsNat, EditStream DEF StreamInv
  <2> QED
    BY <2>1, <2>2
<1>2. CASE Switch
  <2> PICK o \in BOOLEAN, how \in BOOLEAN : SwitchChannel(o, how) \/ SwitchBooster(o, how)
    BY <1>2 DEF Switch
  <2> DEFINE c == [type |-> "power", on |-> o]
  <2>1. SwitchCommand(o)
    BY DEF SwitchChannel, SwitchBooster
  <2>2. UNCHANGED <<set, edited, foreign>> /\ toDaemon' = Append(toDaemon, c)
    BY <2>1 DEF SwitchCommand, Submit
  <2>3. DOMAIN wire' = DOMAIN wire /\ \A i \in DOMAIN wire : wire'[i].set = wire[i].set
    <3>1. \A i \in DOMAIN wire : wire[i] \in Reports
      BY DEF TypeOK
    <3>2. ASSUME NEW r \in Reports PROVE [r EXCEPT !.fate = "under way"].set = r.set
      BY DEF Reports
    <3>3. \/ wire' = [i \in DOMAIN wire |-> [wire[i] EXCEPT !.fate = "under way"]]
          \/ wire' = wire
      BY DEF SwitchChannel, SwitchBooster
    <3> QED
      BY <3>1, <3>2, <3>3
  <2>4. \A i \in DOMAIN toDaemon' :
          \/ i \in DOMAIN toDaemon /\ toDaemon'[i] = toDaemon[i]
          \/ toDaemon'[i] = c
    <3>1. toDaemon \in Seq(Commands) /\ c \in Commands
      BY PowerIsCommand DEF TypeOK
    <3> QED
      BY <2>2, <3>1, AppendFacts
  <2> SUFFICES ASSUME Mine' PROVE CommandsMine' /\ ReportsMine' /\ PageMine'
    BY DEF StreamInv
  <2>5. CommandsMine /\ ReportsMine /\ PageMine
    BY <2>2 DEF StreamInv, Mine, edited
  <2>6. CommandsMine'
    BY <2>2, <2>4, <2>5 DEF CommandsMine, edited
  <2>7. ReportsMine'
    BY <2>2, <2>3, <2>5 DEF ReportsMine, Arrived, edited
  <2>8. PageMine'
    BY <2>2, <2>3, <2>5 DEF PageMine, Arrived, edited
  <2> QED
    BY <2>6, <2>7, <2>8
<1>3. CASE Execute \/ Skip
  BY <1>3, ExecuteStream DEF StreamInv
<1>4. CASE Elsewhere
  <2>1. CASE foreign' = TRUE
    BY <2>1 DEF StreamInv, Mine
  <2>2. CASE UNCHANGED <<set, foreign>>
    BY <1>0, <1>4, <2>2, StreamKept DEF Elsewhere
  <2> QED
    BY <1>4, <2>1, <2>2 DEF Elsewhere
<1>5. CASE Poll
  BY <1>5, PollStream DEF StreamInv
<1>6. CASE Tick
  <2>1. entry'.none = entry.none
    BY <1>6 DEF Tick, TypeOK, Overlays
  <2>2. UNCHANGED <<asked, shown, set, wire, toDaemon, busy, foreign>>
    BY <1>6 DEF Tick
  <2> QED
    BY <2>1, <2>2 DEF StreamInv, Mine, CommandsMine, ReportsMine, PageMine, Arrived
<1>7. CASE Snapshot
  BY <1>7, SnapshotStream DEF StreamInv
<1>8. CASE Cut
  BY <1>8 DEF Cut, StreamInv, Mine
<1>9. CASE Reconnect
  BY <1>0, <1>9, StreamKept DEF Reconnect
<1>10. CASE UNCHANGED vars
  BY <1>0, <1>10, StreamKept DEF vars
<1>11. CASE Unlink \/ Relink
  BY <1>0, <1>11, StreamKept DEF Unlink, Relink
<1>12. CASE FirstRead
  BY <1>12, FirstReadStream DEF StreamInv
<1> QED
  BY <1>1, <1>2, <1>3, <1>4, <1>5, <1>6, <1>7, <1>8, <1>9, <1>10, <1>11, <1>12 DEF Next

\* The promise of monitor_pending.js for any number of edits, polls and snapshots
\* under way: an edit made while the page was up to date stays on it until the
\* value changes elsewhere, is clamped, the overlay expires or the connection
\* is cut; also when its command is skipped.
THEOREM EditsStay == Spec => []EditStays
<1> DEFINE Inv == TypeOK /\ OverlayInv /\ OthersShowAtOnce /\ StreamInv
<1>1. Init => Inv
  BY InitTypes, InitOverlay, InitStream
<1>2. Inv /\ [Next]_vars => Inv'
  BY NextTypes, NextOverlay, NextStream
<1>3. Inv => EditStays
  BY DEF StreamInv, Mine, PageMine, EditStays
<1> QED
  BY <1>1, <1>2, <1>3, PTL DEF Spec

-----------------------------------------------------------------------------
(***************************************************************************)
(* ChannelTable, for any channels, crates, texts, size of the window and   *)
(* number of actions.                                                      *)
(*                                                                         *)
(* A drawing of the list may be due (dataDirty), one of its rows           *)
(* (scrolled), and a typed text may wait for its timer.  TableInv says     *)
(* what the list, the rows and the buttons hold while theirs is not due.   *)
(* It rests on what the drawing itself leaves (RowsHold): the sort lists   *)
(* each channel once, and moving rows about loses none and repeats none.   *)
(***************************************************************************)

\* less orders the members of S one after the other.
LinearOrder(S, less) ==
    /\ \A x \in S : <<x, x>> \notin less
    /\ \A x, y, z \in S : <<x, y>> \in less /\ <<y, z>> \in less => <<x, z>> \in less
    /\ \A x, y \in S : x # y => <<x, y>> \in less \/ <<y, x>> \in less

\* s lists the members of S, each once.
Lists(s, S) ==
    /\ s \in Seq(S) /\ IsInjective(s) /\ ToSet(s) = S

LEMMA RankedLists ==
    ASSUME NEW S, IsFiniteSet(S), NEW less, LinearOrder(S, less)
    PROVE  Lists(Ranked(S, less), S)
<1> PICK n \in Nat : n = Cardinality(S)
  BY FS_CardinalityType
<1> DEFINE Below(x) == {y \in S : <<y, x>> \in less}
           rank(x) == Cardinality(Below(x))
<1>1. \A x \in S : IsFiniteSet(Below(x)) /\ rank(x) \in Nat
  <2> SUFFICES ASSUME NEW x \in S PROVE IsFiniteSet(Below(x)) /\ rank(x) \in Nat
    OBVIOUS
  <2>1. Below(x) \in SUBSET S
    OBVIOUS
  <2>2. IsFiniteSet(Below(x))
    BY <2>1, FS_Subset
  <2> QED BY <2>2, FS_CardinalityType
<1>2. \A x \in S : rank(x) < n
  <2> SUFFICES ASSUME NEW x \in S PROVE rank(x) < n
    OBVIOUS
  <2>1. Below(x) \in SUBSET S /\ x \notin Below(x)
    BY DEF LinearOrder
  <2>2. rank(x) <= n /\ (n = rank(x) => S = Below(x))
    BY <2>1, FS_Subset
  <2>3. n # rank(x)
    BY <2>1, <2>2
  <2> QED BY <1>1, <2>2, <2>3
<1>3. ASSUME NEW x \in S, NEW y \in S, <<x, y>> \in less PROVE rank(x) < rank(y)
  <2>1. Below(x) \in SUBSET Below(y)
    BY <1>3 DEF LinearOrder
  <2>2. x \in Below(y) /\ x \notin Below(x)
    BY <1>3 DEF LinearOrder
  <2>3. rank(x) <= rank(y) /\ (rank(y) = rank(x) => Below(y) = Below(x))
    BY <1>1, <2>1, FS_Subset
  <2>4. rank(y) # rank(x)
    BY <2>2, <2>3
  <2> QED BY <1>1, <2>3, <2>4
<1>4. ASSUME NEW x \in S, NEW y \in S, rank(x) = rank(y) PROVE x = y
  <2>1. ~(rank(x) < rank(y)) /\ ~(rank(y) < rank(x))
    BY <1>1, <1>4
  <2>2. <<x, y>> \notin less /\ <<y, x>> \notin less
    BY <1>3, <2>1
  <2> QED BY <2>2 DEF LinearOrder
<1> HIDE DEF Below
<1>5. ASSUME NEW i \in 1..n PROVE \E x \in S : rank(x) = i - 1
  <2> DEFINE f == [x \in S |-> rank(x) + 1]
  <2>1. f \in [S -> 1..n]
    BY <1>1, <1>2
  <2>2. \A x, y \in S : f[x] = f[y] => x = y
    BY <1>1, <1>4
  <2>3. f \in Injection(S, 1..n)
    BY <2>1, <2>2 DEF Injection, IsInjective
  <2>4. IsFiniteSet(1..n) /\ Cardinality(1..n) = n
    BY FS_Interval
  <2>5. f \in Surjection(S, 1..n)
    BY <2>3, <2>4, FS_Injection
  <2>6. PICK x \in S : f[x] = i
    BY <2>5 DEF Surjection
  <2>7. rank(x) + 1 = i /\ rank(x) \in Nat
    BY <1>1, <2>6
  <2> QED BY <2>7
<1>6. PICK s : s = Ranked(S, less)
  OBVIOUS
<1>7. s = [i \in 1..n |-> CHOOSE x \in S : rank(x) = i - 1]
  BY <1>6 DEF Ranked, Below
<1>8. \A i \in 1..n : s[i] \in S /\ rank(s[i]) = i - 1
  BY <1>5, <1>7
<1>9. s \in [1..n -> S]
  BY <1>7, <1>8
<1>10. s \in Seq(S) /\ Len(s) = n /\ DOMAIN s = 1..n
  BY <1>9, LenProperties
<1>11. IsInjective(s)
  <2>1. ASSUME NEW i \in 1..n, NEW j \in 1..n, s[i] = s[j] PROVE i = j
    <3>1. i - 1 = j - 1
      BY <1>8, <2>1
    <3> QED BY <3>1
  <2> QED BY <1>10, <2>1 DEF IsInjective
<1>12. ASSUME NEW x \in S PROVE x \in ToSet(s)
  <2>1. rank(x) + 1 \in 1..n /\ (rank(x) + 1) - 1 = rank(x)
    BY <1>1, <1>2
  <2>2. s[rank(x) + 1] \in S /\ rank(s[rank(x) + 1]) = rank(x)
    BY <1>8, <2>1
  <2>3. s[rank(x) + 1] = x
    BY <1>4, <2>2
  <2> QED BY <1>10, <2>1, <2>3 DEF ToSet
<1>13. ToSet(s) = S
  BY <1>8, <1>10, <1>12 DEF ToSet
<1> QED BY <1>6, <1>10, <1>11, <1>13 DEF Lists

\* renderTable's sort: every channel the filters let through, once.
LEMMA SortedLists ==
    ASSUME NEW channels \in SUBSET Channels, NEW states \in [Channels -> BOOLEAN],
           NEW by \in {"up", "down", "on"}
    PROVE  Lists(Sorted(channels, states, by), channels)
<1>1. Channels \subseteq Nat /\ IsFiniteSet(Channels)
  BY TableAssumption
<1>2. IsFiniteSet(channels)
  BY <1>1, FS_Subset
<1> DEFINE key(c) == IF by = "on" /\ states[c] THEN 1 ELSE 0
           less == Before(channels, states, by)
<1>3. \A c \in channels : c \in Nat /\ key(c) \in Nat
  BY <1>1
<1>4. \A a, b \in channels :
        <<a, b>> \in less <=>
           \/ key(a) < key(b)
           \/ key(a) = key(b) /\ (IF by = "down" THEN a > b ELSE a < b)
  BY DEF Before
<1> HIDE DEF key, less
<1>5. LinearOrder(channels, less)
  <2>1. \A x \in channels : <<x, x>> \notin less
    BY <1>3, <1>4
  <2>2. ASSUME NEW x \in channels, NEW y \in channels, NEW z \in channels,
               <<x, y>> \in less, <<y, z>> \in less
        PROVE  <<x, z>> \in less
    BY <1>3, <1>4, <2>2
  <2>3. ASSUME NEW x \in channels, NEW y \in channels, x # y
        PROVE  <<x, y>> \in less \/ <<y, x>> \in less
    BY <1>3, <1>4, <2>3
  <2> QED BY <2>1, <2>2, <2>3 DEF LinearOrder
<1> QED BY <1>2, <1>5, RankedLists DEF Sorted, less

\* A list without repetitions, less the members that are not in S.
LEMMA OnlyKeeps ==
    ASSUME NEW T, NEW s \in Seq(T), NEW S, IsInjective(s)
    PROVE  /\ Only(s, S) \in Seq(T) /\ IsInjective(Only(s, S))
           /\ ToSet(Only(s, S)) = ToSet(s) \intersect S
<1> PICK n \in Nat : n = Len(s)
  BY LenProperties
<1>1. s \in [1..n -> T] /\ DOMAIN s = 1..n
  BY LenProperties
<1> DEFINE places == {k \in DOMAIN s : s[k] \in S}
           less == {p \in places \X places : p[1] < p[2]}
           order == Ranked(places, less)
<1>2. places \in SUBSET (1..n) /\ IsFiniteSet(1..n)
  BY <1>1, FS_Interval
<1>3. IsFiniteSet(places)
  BY <1>2, FS_Subset
<1>4. LinearOrder(places, less)
  BY <1>2 DEF LinearOrder
<1>5. Lists(order, places)
  BY <1>3, <1>4, RankedLists
<1> PICK o \in Seq(places) : o = order
  BY <1>5 DEF Lists
<1> PICK m \in Nat : m = Len(o)
  BY LenProperties
<1>6. /\ DOMAIN o = 1..m /\ \A i \in 1..m : o[i] \in places
      /\ \A i, j \in 1..m : o[i] = o[j] => i = j
      /\ \A k \in places : \E i \in 1..m : o[i] = k
  <2>1. DOMAIN o = 1..m /\ \A i \in 1..m : o[i] \in places
    BY LenProperties, ElementOfSeq
  <2> QED BY <1>5, <2>1 DEF Lists, IsInjective, ToSet
<1> PICK r : r = Only(s, S)
  OBVIOUS
<1>7. r = [i \in 1..m |-> s[o[i]]]
  BY <1>6 DEF Only
<1>8. \A k \in places : k \in 1..n /\ s[k] \in T /\ s[k] \in S
  BY <1>1
<1>9. \A k \in 1..n : s[k] \in S => k \in places
  BY <1>1
<1> HIDE DEF places, order, less
<1>10. r \in [1..m -> T] /\ DOMAIN r = 1..m
  BY <1>6, <1>7, <1>8
<1>11. r \in Seq(T)
  BY <1>10
<1>12. IsInjective(r)
  <2>1. ASSUME NEW i \in 1..m, NEW j \in 1..m, r[i] = r[j] PROVE i = j
    <3>1. s[o[i]] = s[o[j]] /\ o[i] \in 1..n /\ o[j] \in 1..n
      BY <1>6, <1>7, <1>8, <2>1
    <3>2. o[i] = o[j]
      BY <1>1, <3>1 DEF IsInjective
    <3> QED BY <1>6, <3>2
  <2> QED BY <1>10, <2>1 DEF IsInjective
<1>13. ASSUME NEW x \in ToSet(r) PROVE x \in ToSet(s) \intersect S
  <2>1. PICK i \in 1..m : x = s[o[i]]
    BY <1>7, <1>10, <1>13 DEF ToSet
  <2>2. o[i] \in 1..n /\ s[o[i]] \in S
    BY <1>6, <1>8
  <2> QED BY <1>1, <2>1, <2>2 DEF ToSet
<1>14. ASSUME NEW x \in ToSet(s) \intersect S PROVE x \in ToSet(r)
  <2>1. PICK k \in 1..n : x = s[k]
    BY <1>1, <1>14 DEF ToSet
  <2>2. k \in places
    BY <1>9, <1>14, <2>1
  <2>3. PICK i \in 1..m : o[i] = k
    BY <1>6, <2>2
  <2>4. r[i] = x
    BY <1>7, <2>1, <2>3
  <2> QED BY <1>10, <2>4 DEF ToSet
<1> QED BY <1>11, <1>12, <1>13, <1>14

\* The window is a stretch of the list that reaches over what is in view.
LEMMA WindowCuts ==
    ASSUME NEW T, NEW data \in Seq(T), NEW top \in Nat, IsInjective(data)
    PROVE  /\ Window(data, top) \in Seq(T) /\ IsInjective(Window(data, top))
           /\ ToSet(Window(data, top)) \subseteq ToSet(data)
           /\ \A i \in DOMAIN data :
                 top < i /\ i <= top + View => data[i] \in ToSet(Window(data, top))
<1> View \in Nat /\ VS_BUFFER \in Nat
  BY TableAssumption
<1> PICK n \in Nat : n = Len(data)
  BY LenProperties
<1>1. DOMAIN data = 1..n /\ \A i \in 1..n : data[i] \in T
  BY LenProperties, ElementOfSeq
<1>2. PICK a \in Nat : a = FirstRow(data, top) /\ a <= n /\ a <= top
  BY DEF FirstRow, Least, Minus
<1>3. PICK b \in Nat : b = LastRow(data, top) /\ b <= n /\ (b = n \/ b >= top + View)
  BY DEF LastRow, Least
<1>4. PICK w : w = Window(data, top)
  OBVIOUS
<1>5. w = SubSeq(data, a + 1, b)
  BY <1>2, <1>3, <1>4 DEF Window
<1>6. \A i \in a+1..b : i \in 1..n /\ data[i] \in T
  BY <1>1, <1>2, <1>3
<1>7. PICK m \in Nat : m = IF a + 1 <= b THEN b - a ELSE 0
  <2>1. (IF a + 1 <= b THEN b - a ELSE 0) \in Nat
    <3>1. CASE a + 1 <= b
      BY <3>1
    <3>2. CASE ~(a + 1 <= b)
      BY <3>2
    <3> QED BY <3>1, <3>2
  <2> QED BY <2>1
<1>8. w \in Seq(T) /\ Len(w) = m /\ \A i \in 1..m : w[i] = data[a + i]
  <2>1. a + 1 \in Int /\ b \in Int
    OBVIOUS
  <2>2. /\ SubSeq(data, a + 1, b) \in Seq(T)
        /\ Len(SubSeq(data, a + 1, b)) = IF a + 1 <= b THEN b - (a + 1) + 1 ELSE 0
        /\ \A i \in 1..b - (a + 1) + 1 : SubSeq(data, a + 1, b)[i] = data[(a + 1) + i - 1]
    BY <1>6, <2>1, SubSeqProperties
  <2>3. Len(w) = m
    BY <1>5, <1>7, <2>2
  <2>4. ASSUME NEW i \in 1..m PROVE w[i] = data[a + i]
    <3>1. i \in 1..b - (a + 1) + 1 /\ (a + 1) + i - 1 = a + i
      BY <1>7
    <3> QED BY <1>5, <2>2, <3>1
  <2> QED BY <1>5, <2>2, <2>3, <2>4
<1>9. DOMAIN w = 1..m /\ \A i \in 1..m : a + i \in 1..n
  BY <1>2, <1>3, <1>7, <1>8, LenProperties
<1>10. IsInjective(w)
  <2>1. ASSUME NEW i \in 1..m, NEW j \in 1..m, w[i] = w[j] PROVE i = j
    <3>1. data[a + i] = data[a + j]
      BY <1>8, <2>1
    <3>2. a + i = a + j
      BY <1>1, <1>9, <3>1 DEF IsInjective
    <3> QED BY <3>2
  <2> QED BY <1>9, <2>1 DEF IsInjective
<1>11. ToSet(w) \subseteq ToSet(data)
  BY <1>1, <1>8, <1>9 DEF ToSet
<1>12. ASSUME NEW i \in 1..n, top < i, i <= top + View PROVE data[i] \in ToSet(w)
  <2>1. a < i /\ i <= b
    BY <1>2, <1>3, <1>12
  <2>2. i - a \in 1..m /\ a + (i - a) = i
    BY <1>7, <2>1
  <2>3. w[i - a] = data[i]
    BY <1>8, <2>2
  <2> QED BY <1>9, <2>2, <2>3 DEF ToSet
<1> QED BY <1>1, <1>4, <1>8, <1>10, <1>11, <1>12

\* Two lists without a common member, one after the other.
LEMMA ConcatKeeps ==
    ASSUME NEW T, NEW s \in Seq(T), NEW t \in Seq(T), IsInjective(s), IsInjective(t),
           ToSet(s) \intersect ToSet(t) = {}
    PROVE  /\ s \o t \in Seq(T) /\ IsInjective(s \o t)
           /\ ToSet(s \o t) = ToSet(s) \union ToSet(t)
<1> PICK a \in Nat : a = Len(s)
  BY LenProperties
<1> PICK b \in Nat : b = Len(t)
  BY LenProperties
<1>1. PICK u : u = s \o t
  OBVIOUS
<1>2. DOMAIN s = 1..a /\ DOMAIN t = 1..b
  BY LenProperties
<1>3. /\ u \in Seq(T) /\ Len(u) = a + b
      /\ \A i \in 1..a + b : u[i] = IF i <= a THEN s[i] ELSE t[i - a]
  BY <1>1, ConcatProperties
<1>4. DOMAIN u = 1..a+b
  BY <1>3, LenProperties
<1>5. \A i \in 1..a : i \in 1..a+b /\ u[i] = s[i]
  BY <1>3
<1>6. ASSUME NEW i \in 1..b PROVE a + i \in 1..a+b /\ u[a + i] = t[i]
  <2>1. a + i \in 1..a+b /\ ~(a + i <= a) /\ (a + i) - a = i
    OBVIOUS
  <2> QED BY <1>3, <2>1
<1>7. ASSUME NEW i \in 1..a+b PROVE i \in 1..a \/ \E j \in 1..b : i = a + j
  <2>1. CASE i <= a
    BY <2>1
  <2>2. CASE i > a
    <3>1. i - a \in 1..b /\ i = a + (i - a)
      BY <2>2
    <3> QED BY <3>1
  <2> QED BY <2>1, <2>2
<1>8. /\ \A i, j \in 1..a : s[i] = s[j] => i = j
      /\ \A i, j \in 1..b : t[i] = t[j] => i = j
      /\ \A i \in 1..a, j \in 1..b : s[i] # t[j]
  <2>1. /\ \A i \in 1..a : s[i] \in ToSet(s)
        /\ \A j \in 1..b : t[j] \in ToSet(t)
    BY <1>2 DEF ToSet
  <2>2. \A x \in ToSet(s) : x \notin ToSet(t)
    OBVIOUS
  <2> QED BY <1>2, <2>1, <2>2 DEF IsInjective
<1>9. \A i, j \in 1..a+b : u[i] = u[j] => i = j
  <2> SUFFICES ASSUME NEW i \in 1..a+b, NEW j \in 1..a+b, u[i] = u[j] PROVE i = j
    OBVIOUS
  <2>1. CASE i \in 1..a /\ j \in 1..a
    <3>1. s[i] = s[j]
      BY <1>5, <2>1
    <3> QED BY <1>8, <2>1, <3>1
  <2>2. ASSUME i \in 1..a, NEW k \in 1..b, j = a + k PROVE FALSE
    <3>1. s[i] = t[k]
      BY <1>5, <1>6, <2>2
    <3> QED BY <1>8, <2>2, <3>1
  <2>3. ASSUME j \in 1..a, NEW k \in 1..b, i = a + k PROVE FALSE
    <3>1. s[j] = t[k]
      BY <1>5, <1>6, <2>3
    <3> QED BY <1>8, <2>3, <3>1
  <2>4. ASSUME NEW k \in 1..b, NEW l \in 1..b, i = a + k, j = a + l PROVE i = j
    <3>1. t[k] = t[l]
      BY <1>6, <2>4
    <3>2. k = l
      BY <1>8, <3>1
    <3> QED BY <2>4, <3>2
  <2>5. /\ i \in 1..a \/ \E k \in 1..b : i = a + k
        /\ j \in 1..a \/ \E k \in 1..b : j = a + k
    BY <1>7
  <2> QED BY <2>1, <2>2, <2>3, <2>4, <2>5
<1>10. IsInjective(u)
  BY <1>4, <1>9 DEF IsInjective
<1>11. ASSUME NEW x \in ToSet(u) PROVE x \in ToSet(s) \union ToSet(t)
  <2>1. PICK i \in 1..a+b : x = u[i]
    BY <1>4, <1>11 DEF ToSet
  <2>2. CASE i \in 1..a
    <3>1. x = s[i]
      BY <1>5, <2>1, <2>2
    <3> QED BY <1>2, <2>2, <3>1 DEF ToSet
  <2>3. ASSUME NEW k \in 1..b, i = a + k PROVE x \in ToSet(t)
    <3>1. x = t[k]
      BY <1>6, <2>1, <2>3
    <3> QED BY <1>2, <3>1 DEF ToSet
  <2> QED BY <1>7, <2>2, <2>3
<1>12. ToSet(s) \subseteq ToSet(u) /\ ToSet(t) \subseteq ToSet(u)
  BY <1>2, <1>4, <1>5, <1>6 DEF ToSet
<1> QED BY <1>1, <1>3, <1>10, <1>11, <1>12

\* The rows in the document, those in kept among them.
Document(kept) ==
    /\ tbody \in Seq(Channels) /\ IsInjective(tbody)
    /\ kept \subseteq ToSet(tbody)

\* rows show the window, and the rows in kept are among them.
Shows(rows, window, kept) ==
    /\ rows \in Seq(Channels) /\ IsInjective(rows)
    /\ ToSet(window) \subseteq ToSet(rows)
    /\ kept \subseteq ToSet(rows)
    /\ kept = {} => rows = window

\* What renderVisibleRows leaves in the document: the window, and of the other
\* rows those with a cell being edited.
LEMMA RowsHold ==
    ASSUME NEW data \in Seq(Channels), IsInjective(data), NEW states, NEW top \in Nat,
           NEW pend, NEW kept, Document(kept)
    PROVE  Shows(Rows(data, states, top, pend, kept), Window(data, top), kept)
<1>0. /\ tbody \in Seq(Channels) /\ IsInjective(tbody)
      /\ kept \subseteq ToSet(tbody)
  BY DEF Document
<1>1. PICK w \in Seq(Channels) : w = Window(data, top) /\ IsInjective(w)
  BY WindowCuts
<1>2. CASE kept = {}
  BY <1>1, <1>2 DEF Rows, Shows
<1>3. CASE kept # {}
  <2>1. PICK old \in Seq(Channels) :
          /\ old = Only(tbody, ToSet(w) \union kept)
          /\ IsInjective(old) /\ ToSet(old) = ToSet(tbody) \intersect (ToSet(w) \union kept)
    BY <1>0, OnlyKeeps
  <2>2. PICK new \in Seq(Channels) :
          /\ new = Only(w, Channels \ ToSet(tbody))
          /\ IsInjective(new) /\ ToSet(new) = ToSet(w) \intersect (Channels \ ToSet(tbody))
    BY <1>1, OnlyKeeps
  <2>3. Rows(data, states, top, pend, kept) = old \o new
    BY <1>1, <1>3, <2>1, <2>2 DEF Rows
  <2>4. PICK rows \in Seq(Channels) :
          rows = old \o new /\ IsInjective(rows) /\ ToSet(rows) = ToSet(old) \union ToSet(new)
    <3>1. ToSet(old) \intersect ToSet(new) = {}
      BY <2>1, <2>2
    <3> QED BY <2>1, <2>2, <3>1, ConcatKeeps
  <2>5. ToSet(w) \subseteq Channels
    BY LenProperties, ElementOfSeq DEF ToSet
  <2>6. ToSet(w) \subseteq ToSet(rows) /\ kept \subseteq ToSet(rows)
    BY <1>0, <2>1, <2>2, <2>4, <2>5
  <2> QED BY <1>1, <1>3, <2>3, <2>4, <2>6 DEF Shows
<1> QED BY <1>2, <1>3

-----------------------------------------------------------------------------
(* The inductive invariant: what the list holds (ListInv) and what the rows  *)
(* drawn from it hold (RowsInv), each while no drawing of its kind is due.   *)

Buttons == {[text |-> "ON", asks |-> "off"], [text |-> "OFF", asks |-> "on"],
            [text |-> "...", asks |-> "no"]}

TableType ==
  /\ here \subseteq Channels
  /\ isOn \in [Channels -> BOOLEAN] /\ drawnOn \in [Channels -> BOOLEAN]
  /\ pending \in [Channels -> {"no", "on", "off"}]
  /\ button \in [Channels -> Buttons]
  /\ filterStatus \in {"all", "on", "off"} /\ sort \in {"up", "down", "on"}
  /\ searchText \subseteq Channels /\ typed \subseteq Channels
  /\ filteredData \in Seq(Channels) /\ tbody \in Seq(Channels)
  /\ scroll \in Nat

ListInv ==
  /\ IsInjective(filteredData)
  /\ ~dataDirty => ToSet(filteredData) = Filtered /\ drawnOn = isOn
  /\ ~timer => searchText = typed
  /\ chip \in {filterCrate, AllCrates}

RowsInv ==
  /\ IsInjective(tbody) /\ editing \subseteq ToSet(tbody)
  /\ ~scrolled =>
       /\ ToSet(Window(filteredData, scroll)) \subseteq ToSet(tbody)
       /\ editing = {} => tbody = Window(filteredData, scroll)
       /\ ~dataDirty => \A c \in ToSet(Window(filteredData, scroll)) :
                          button[c] = NewButton(c, isOn, pending)

TableInv == TableType /\ ListInv /\ RowsInv

LEMMA NewButtonTypes ==
    ASSUME NEW c \in Channels, NEW states \in [Channels -> BOOLEAN],
           NEW pend \in [Channels -> {"no", "on", "off"}]
    PROVE  /\ NewButton(c, states, pend) \in Buttons
           /\ \A b \in Buttons : Patched(b, c, states, pend) = NewButton(c, states, pend)
<1>1. NewButton(c, states, pend) \in Buttons
  BY DEF NewButton, Text, Toggle, Buttons
<1>2. ASSUME NEW b \in Buttons, b.text = NewButton(c, states, pend).text
      PROVE  b = NewButton(c, states, pend)
  BY <1>1, <1>2 DEF Buttons
<1>3. NewButton(c, states, pend).text = Text(c, states, pend)
  BY DEF NewButton
<1> QED BY <1>1, <1>2, <1>3 DEF Patched

\* A drawing of the rows leaves the window in the document, with true buttons.
LEMMA DrawRowsDraws ==
    ASSUME NEW data \in Seq(Channels), IsInjective(data),
           NEW states \in [Channels -> BOOLEAN], NEW top \in Nat,
           NEW pend \in [Channels -> {"no", "on", "off"}],
           NEW kept, Document(kept), button \in [Channels -> Buttons],
           DrawRows(data, states, top, pend, kept)
    PROVE  /\ Document(kept)'
           /\ button' \in [Channels -> Buttons] /\ scroll' \in Nat
           /\ ~scrolled' =>
                /\ scroll' = top
                /\ ToSet(Window(data, top)) \subseteq ToSet(tbody')
                /\ kept = {} => tbody' = Window(data, top)
                /\ \A c \in ToSet(Window(data, top)) : button'[c] = NewButton(c, states, pend)
<1> PICK w \in Seq(Channels) : w = Window(data, top)
  BY WindowCuts
<1>1. ToSet(w) \subseteq Channels
  BY LenProperties, ElementOfSeq DEF ToSet
<1>2. tbody' = Rows(data, states, top, pend, kept)
  BY DEF DrawRows
<1>3. button' = [c \in Channels |->
            IF c \notin ToSet(w) THEN button[c]
            ELSE IF c \in ToSet(tbody) THEN Patched(button[c], c, states, pend)
                 ELSE NewButton(c, states, pend)]
  BY DEF DrawRows
<1>4. \A c \in Channels : /\ button[c] \in Buttons /\ NewButton(c, states, pend) \in Buttons
                          /\ Patched(button[c], c, states, pend) = NewButton(c, states, pend)
  BY NewButtonTypes
<1>5. /\ button' \in [Channels -> Buttons]
      /\ \A c \in ToSet(w) : button'[c] = NewButton(c, states, pend)
  BY <1>1, <1>3, <1>4
<1>6. scroll' \in Nat /\ (~scrolled' => scroll' = top)
  <2> PICK n \in Nat : n = Len(data)
    BY LenProperties
  <2>1. Minus(n, View) \in Nat
    BY TableAssumption DEF Minus
  <2>2. PICK seen \in Nat : seen = Least(top, Minus(n, View))
    BY <2>1 DEF Least
  <2>3. scroll' = seen /\ scrolled' = (seen # top)
    BY <2>2 DEF DrawRows
  <2> QED BY <2>3
<1>7. Shows(tbody', w, kept)
  BY <1>2, RowsHold
<1> QED BY <1>5, <1>6, <1>7 DEF Shows, Document

\* A drawing of the table lists what the filters let through, and draws it.
LEMMA RenderTableDraws ==
    ASSUME TableType, RowsInv, NEW top \in Nat, RenderTable(top),
           here' \subseteq Channels, isOn' \in [Channels -> BOOLEAN],
           pending' \in [Channels -> {"no", "on", "off"}],
           sort' \in {"up", "down", "on"}, editing' \subseteq ToSet(tbody)
    PROVE  /\ filteredData' \in Seq(Channels) /\ tbody' \in Seq(Channels) /\ scroll' \in Nat
           /\ drawnOn' = isOn' /\ ~dataDirty' /\ button' \in [Channels -> Buttons]
           /\ IsInjective(filteredData') /\ ToSet(filteredData') = Filtered'
           /\ RowsInv'
<1>1. Filtered' = here' \intersect OfStatus(filterStatus', isOn')
                        \intersect OfCrate(filterCrate') \intersect searchText'
  BY DEF Filtered
<1>2. filteredData' = Sorted(Filtered', isOn', sort') /\ drawnOn' = isOn' /\ ~dataDirty'
  BY <1>1 DEF RenderTable
<1>3. Filtered' \in SUBSET Channels
  BY <1>1
<1>4. Lists(filteredData', Filtered')
  BY <1>2, <1>3, SortedLists
<1> PICK data \in Seq(Channels) : data = filteredData'
  <2>1. filteredData' \in Seq(Filtered')
    BY <1>4 DEF Lists
  <2> QED BY <1>3, <2>1
<1>5. IsInjective(data) /\ ToSet(data) = Filtered'
  BY <1>4 DEF Lists
<1>6. DrawRows(data, isOn', top, pending', editing')
  BY DEF RenderTable
<1> PICK kept : kept = editing'
  OBVIOUS
<1>7. Document(kept) /\ button \in [Channels -> Buttons]
  BY DEF TableType, RowsInv, Document
<1>8. /\ Document(kept)'
      /\ button' \in [Channels -> Buttons] /\ scroll' \in Nat
      /\ ~scrolled' =>
           /\ scroll' = top
           /\ ToSet(Window(data, top)) \subseteq ToSet(tbody')
           /\ editing' = {} => tbody' = Window(data, top)
           /\ \A c \in ToSet(Window(data, top)) : button'[c] = NewButton(c, isOn', pending')
  BY <1>5, <1>6, <1>7, DrawRowsDraws
<1>9. RowsInv'
  BY <1>8 DEF RowsInv, Document
<1> QED BY <1>2, <1>5, <1>8, <1>9 DEF Document

-----------------------------------------------------------------------------
(* The actions. *)

LEMMA InitTable == TableInit => TableInv
<1> SUFFICES ASSUME TableInit PROVE TableInv
  OBVIOUS
<1>1. <<>> \in Seq(Channels) /\ ToSet(<<>>) = {} /\ IsInjective(<<>>)
  BY DEF ToSet, IsInjective
<1>2. isOn \in [Channels -> BOOLEAN] /\ pending \in [Channels -> {"no", "on", "off"}]
  BY DEF TableInit
<1>3. button \in [Channels -> Buttons]
  BY <1>2, NewButtonTypes DEF TableInit
<1>4. TableType
  BY <1>1, <1>2, <1>3 DEF TableInit, TableType
<1>5. ListInv
  BY <1>1 DEF TableInit, ListInv
<1>6. Window(filteredData, scroll) = <<>>
  <2>1. SubSeq(<<>>, 1, 0) = <<>>
    OBVIOUS
  <2>2. FirstRow(<<>>, 0) = 0 /\ LastRow(<<>>, 0) = 0
    BY TableAssumption DEF FirstRow, LastRow, Least, Minus
  <2> QED BY <2>1, <2>2 DEF TableInit, Window
<1>7. RowsInv
  BY <1>1, <1>6 DEF TableInit, RowsInv
<1> QED BY <1>4, <1>5, <1>7 DEF TableInv

\* The steps that draw the table, from what they leave to the filters and edits.
LEMMA RenderTableStep ==
    ASSUME TableInv, NEW top \in Nat, RenderTable(top),
           here' \subseteq Channels, isOn' \in [Channels -> BOOLEAN],
           pending' \in [Channels -> {"no", "on", "off"}],
           filterStatus' \in {"all", "on", "off"}, sort' \in {"up", "down", "on"},
           searchText' \subseteq Channels, typed' \subseteq Channels,
           ~timer' => searchText' = typed', chip' \in {filterCrate', AllCrates},
           editing' \subseteq ToSet(tbody)
    PROVE  TableInv'
<1>1. TableType /\ RowsInv
  BY DEF TableInv
<1>2. /\ filteredData' \in Seq(Channels) /\ tbody' \in Seq(Channels) /\ scroll' \in Nat
      /\ drawnOn' = isOn' /\ ~dataDirty' /\ button' \in [Channels -> Buttons]
      /\ IsInjective(filteredData') /\ ToSet(filteredData') = Filtered'
      /\ RowsInv'
  BY <1>1, RenderTableDraws
<1>3. TableType'
  BY <1>2 DEF TableType
<1>4. ListInv'
  BY <1>2 DEF ListInv
<1> QED BY <1>2, <1>3, <1>4 DEF TableInv

\* What an action may use of the invariant.
LEMMA TableFacts ==
    ASSUME TableInv
    PROVE  /\ here \subseteq Channels /\ isOn \in [Channels -> BOOLEAN]
           /\ pending \in [Channels -> {"no", "on", "off"}]
           /\ filterStatus \in {"all", "on", "off"} /\ sort \in {"up", "down", "on"}
           /\ searchText \subseteq Channels /\ typed \subseteq Channels
           /\ ~timer => searchText = typed
           /\ chip \in {filterCrate, AllCrates}
           /\ editing \subseteq ToSet(tbody)
           /\ scroll \in Nat
BY DEF TableInv, TableType, ListInv, RowsInv

LEMMA FrameTable == TableInv /\ Frame => TableInv'
<1> SUFFICES ASSUME TableInv, Frame PROVE TableInv'
  OBVIOUS
<1>1. UNCHANGED <<here, isOn, pending, filterVars, editing>> /\ RenderTable(scroll)
  BY DEF Frame
<1> QED BY <1>1, TableFacts, RenderTableStep DEF filterVars

LEMMA RefreshTable == TableInv /\ Refresh => TableInv'
<1> SUFFICES ASSUME TableInv, Refresh PROVE TableInv'
  OBVIOUS
<1>1. /\ chip' = AllCrates /\ RenderTable(scroll)
      /\ UNCHANGED <<here, isOn, pending, filterStatus, filterCrate, sort, typed, timer, searchText,
                     editing>>
  BY DEF Refresh
<1> QED BY <1>1, TableFacts, RenderTableStep

LEMMA SearchTable == TableInv /\ Search => TableInv'
<1> SUFFICES ASSUME TableInv, Search PROVE TableInv'
  OBVIOUS
<1>1. /\ searchText' = typed /\ RenderTable(0)
      /\ UNCHANGED <<here, isOn, pending, filterStatus, filterCrate, sort, chip, typed, editing>>
  BY DEF Search
<1> QED BY <1>1, TableFacts, RenderTableStep

LEMMA SelectStatusTable == TableInv /\ SelectStatus => TableInv'
<1> SUFFICES ASSUME TableInv, SelectStatus PROVE TableInv'
  OBVIOUS
<1>1. /\ filterStatus' \in {"all", "on", "off"} /\ RenderTable(0)
      /\ UNCHANGED <<here, isOn, pending, filterCrate, sort, chip, typed, timer, searchText, editing>>
  BY DEF SelectStatus
<1> QED BY <1>1, TableFacts, RenderTableStep

LEMMA SelectCrateTable == TableInv /\ SelectCrateChip => TableInv'
<1> SUFFICES ASSUME TableInv, SelectCrateChip PROVE TableInv'
  OBVIOUS
<1>1. /\ chip' = filterCrate' /\ RenderTable(0)
      /\ UNCHANGED <<here, isOn, pending, filterStatus, sort, typed, timer, searchText, editing>>
  BY DEF SelectCrateChip
<1> QED BY <1>1, TableFacts, RenderTableStep

LEMMA SortByTable == TableInv /\ SortBy => TableInv'
<1> SUFFICES ASSUME TableInv, SortBy PROVE TableInv'
  OBVIOUS
<1>1. /\ sort' \in {"up", "down", "on"} /\ RenderTable(0)
      /\ UNCHANGED <<here, isOn, pending, filterStatus, filterCrate, chip, typed, timer, searchText,
                     editing>>
  BY DEF SortBy
<1> QED BY <1>1, TableFacts, RenderTableStep

LEMMA AskPowerTable ==
    ASSUME TableInv, NEW channels, NEW state \in {"no", "on", "off"}, AskPower(channels, state)
    PROVE  TableInv'
<1>1. /\ pending' = [c \in Channels |-> IF c \in channels THEN state ELSE pending[c]]
      /\ UNCHANGED <<here, isOn, filterVars, editing>> /\ RenderTable(scroll)
  BY DEF AskPower
<1>2. pending' \in [Channels -> {"no", "on", "off"}]
  BY <1>1, TableFacts
<1> QED BY <1>1, <1>2, TableFacts, RenderTableStep DEF filterVars

LEMMA PressTable ==
    ASSUME TableInv, NEW c \in Channels, Press(c) PROVE TableInv'
<1>1. button[c].asks \in {"no", "on", "off"}
  BY DEF TableInv, TableType, Buttons
<1> QED BY <1>1, AskPowerTable DEF Press

LEMMA BulkSetVTable == TableInv /\ BulkSetV => TableInv'
<1> SUFFICES ASSUME TableInv, BulkSetV PROVE TableInv'
  OBVIOUS
<1>1. UNCHANGED <<here, isOn, pending, filterVars, editing>> /\ RenderTable(scroll)
  BY DEF BulkSetV
<1> QED BY <1>1, TableFacts, RenderTableStep DEF filterVars

LEMMA EndEditTable ==
    ASSUME TableInv, NEW c, EndEdit(c) PROVE TableInv'
<1>1. /\ editing' = editing \ {c} /\ RenderTable(scroll)
      /\ UNCHANGED <<here, isOn, pending, filterVars>>
  BY DEF EndEdit
<1> QED BY <1>1, TableFacts, RenderTableStep DEF filterVars

LEMMA ScrollFrameTable == TableInv /\ ScrollFrame => TableInv'
<1> SUFFICES ASSUME TableInv, ScrollFrame PROVE TableInv'
  OBVIOUS
<1>1. /\ DrawRows(filteredData, drawnOn, scroll, pending, editing)
      /\ UNCHANGED <<here, isOn, pending, filterStatus, filterCrate, sort, chip, typed, timer,
                     searchText, dataDirty, filteredData, drawnOn, editing>>
  BY DEF ScrollFrame, filterVars
<1>2. /\ filteredData \in Seq(Channels) /\ IsInjective(filteredData)
      /\ drawnOn \in [Channels -> BOOLEAN] /\ scroll \in Nat
      /\ pending \in [Channels -> {"no", "on", "off"}]
      /\ Document(editing) /\ button \in [Channels -> Buttons]
  BY DEF TableInv, TableType, ListInv, RowsInv, Document
<1>3. PICK kept : kept = editing
  OBVIOUS
<1>4. /\ Document(kept)'
      /\ button' \in [Channels -> Buttons] /\ scroll' \in Nat
      /\ ~scrolled' =>
           /\ scroll' = scroll
           /\ ToSet(Window(filteredData, scroll)) \subseteq ToSet(tbody')
           /\ kept = {} => tbody' = Window(filteredData, scroll)
           /\ \A c \in ToSet(Window(filteredData, scroll)) :
                button'[c] = NewButton(c, drawnOn, pending)
  BY <1>1, <1>2, <1>3, DrawRowsDraws
<1>5. Filtered' = Filtered
  BY <1>1 DEF Filtered
<1>6. TableType'
  BY <1>1, <1>4 DEF TableInv, TableType, Document
<1>7. ListInv'
  BY <1>1, <1>5 DEF TableInv, ListInv
<1>8. RowsInv'
  <2>1. ~dataDirty => drawnOn = isOn
    BY DEF TableInv, ListInv
  <2> QED BY <1>1, <1>3, <1>4, <2>1 DEF RowsInv, Document
<1> QED BY <1>6, <1>7, <1>8 DEF TableInv

LEMMA ScrollTable == TableInv /\ Scroll => TableInv'
<1> SUFFICES ASSUME TableInv, Scroll PROVE TableInv'
  OBVIOUS
<1>1. scrolled' /\ UNCHANGED <<here, isOn, pending, filterStatus, filterCrate, sort, chip, typed,
          timer, searchText, dataDirty, filteredData, drawnOn, tbody, button, editing>>
  BY DEF Scroll, filterVars
<1>2. scroll' \in Nat
  <2>1. Minus(Len(filteredData), View) \in Nat
    BY TableAssumption, LenProperties DEF TableInv, TableType, Minus
  <2> QED BY <2>1 DEF Scroll
<1>3. Filtered' = Filtered
  BY <1>1 DEF Filtered
<1>4. TableType'
  BY <1>1, <1>2 DEF TableInv, TableType
<1>5. ListInv' /\ RowsInv'
  BY <1>1, <1>3 DEF TableInv, ListInv, RowsInv
<1> QED BY <1>4, <1>5 DEF TableInv

LEMMA ChannelsUpdatedTable == TableInv /\ ChannelsUpdated => TableInv'
<1> SUFFICES ASSUME TableInv, ChannelsUpdated PROVE TableInv'
  OBVIOUS
<1>1. /\ dataDirty' /\ chip' = Chips(here')
      /\ UNCHANGED <<filterStatus, filterCrate, sort, typed, timer, searchText, filteredData,
                     drawnOn, scroll, scrolled, tbody, button, editing>>
  BY DEF ChannelsUpdated
<1>2. isOn' \in [Channels -> BOOLEAN]
  BY DEF ChannelsUpdated, TableInv, TableType
<1>3. here' \subseteq Channels /\ pending' \in [Channels -> {"no", "on", "off"}]
  BY DEF ChannelsUpdated, TableInv, TableType
<1>4. TableType'
  BY <1>1, <1>2, <1>3 DEF TableInv, TableType
<1>5. ListInv'
  <2>1. chip' \in {chip, AllCrates}
    BY <1>1 DEF Chips
  <2> QED BY <1>1, <2>1 DEF TableInv, ListInv
<1>6. RowsInv'
  BY <1>1 DEF TableInv, RowsInv
<1> QED BY <1>4, <1>5, <1>6 DEF TableInv

LEMMA TypeTable == TableInv /\ Type => TableInv'
<1> SUFFICES ASSUME TableInv, Type PROVE TableInv'
  OBVIOUS
<1>1. /\ timer' /\ typed' \in Searches
      /\ UNCHANGED <<here, isOn, pending, filterStatus, filterCrate, sort, chip, searchText,
                     dataDirty, filteredData, drawnOn, scroll, scrolled, tbody, button, editing>>
  BY DEF Type, drawnVars
<1>2. Filtered' = Filtered
  BY <1>1 DEF Filtered
<1>3. TableType'
  BY <1>1, TableAssumption DEF TableInv, TableType
<1>4. ListInv' /\ RowsInv'
  BY <1>1, <1>2 DEF TableInv, ListInv, RowsInv
<1> QED BY <1>3, <1>4 DEF TableInv

LEMMA EnterEditTable ==
    ASSUME TableInv, NEW c, EnterEdit(c) PROVE TableInv'
<1>1. /\ editing' = editing \union {c} /\ c \in ToSet(tbody)
      /\ UNCHANGED <<here, isOn, pending, filterStatus, filterCrate, sort, chip, typed, timer,
                     searchText, dataDirty, filteredData, drawnOn, scroll, scrolled, tbody, button>>
  BY DEF EnterEdit, filterVars, drawnVars
<1>2. Filtered' = Filtered
  BY <1>1 DEF Filtered
<1>3. TableType' /\ ListInv'
  BY <1>1, <1>2 DEF TableInv, TableType, ListInv
<1>4. RowsInv'
  BY <1>1 DEF TableInv, RowsInv
<1> QED BY <1>3, <1>4 DEF TableInv

LEMMA TableStep == TableInv /\ [TableNext]_tableVars => TableInv'
<1> SUFFICES ASSUME TableInv, [TableNext]_tableVars PROVE TableInv'
  OBVIOUS
<1>1. CASE Frame
  BY <1>1, FrameTable
<1>2. CASE ScrollFrame
  BY <1>2, ScrollFrameTable
<1>3. CASE Scroll
  BY <1>3, ScrollTable
<1>4. CASE ChannelsUpdated
  BY <1>4, ChannelsUpdatedTable
<1>5. CASE Refresh
  BY <1>5, RefreshTable
<1>6. CASE Type
  BY <1>6, TypeTable
<1>7. CASE Search
  BY <1>7, SearchTable
<1>8. CASE SelectStatus
  BY <1>8, SelectStatusTable
<1>9. CASE SelectCrateChip
  BY <1>9, SelectCrateTable
<1>10. CASE SortBy
  BY <1>10, SortByTable
<1>11. CASE BulkSetV
  BY <1>11, BulkSetVTable
<1>12. ASSUME NEW state \in {"on", "off"}, BulkPower(state) PROVE TableInv'
  BY <1>12, AskPowerTable DEF BulkPower
<1>13. ASSUME NEW c \in Channels, Press(c) PROVE TableInv'
  BY <1>13, PressTable
<1>14. ASSUME NEW c \in Channels, EnterEdit(c) PROVE TableInv'
  BY <1>14, EnterEditTable
<1>15. ASSUME NEW c \in Channels, EndEdit(c) PROVE TableInv'
  BY <1>15, EndEditTable
<1>16. CASE UNCHANGED tableVars
  <2>1. UNCHANGED <<here, isOn, pending, filterStatus, filterCrate, sort, chip, typed, timer,
                    searchText, dataDirty, filteredData, drawnOn, scroll, scrolled, tbody, button,
                    editing>>
    BY <1>16 DEF tableVars, filterVars, drawnVars
  <2>2. Filtered' = Filtered
    BY <2>1 DEF Filtered
  <2> QED BY <2>1, <2>2 DEF TableInv, TableType, ListInv, RowsInv
<1> QED BY <1>1, <1>2, <1>3, <1>4, <1>5, <1>6, <1>7, <1>8, <1>9, <1>10, <1>11, <1>12, <1>13,
           <1>14, <1>15, <1>16 DEF TableNext

\* What the list and its rows hold between two drawings, for any channels,
\* crates, texts, window and number of actions.
THEOREM TableInvariant == TableSpec => []TableInv
BY InitTable, TableStep, PTL DEF TableSpec

LEMMA ListIsTrue == TableInv => BulkIsWhatIsListed
BY DEF TableInv, ListInv, BulkIsWhatIsListed

LEMMA ButtonsAreTrue == TableInv => ButtonIsTrue
<1> SUFFICES ASSUME TableInv PROVE ButtonIsTrue
  OBVIOUS
<1>1. \A c \in ToSet(tbody) : c \in Channels
  BY LenProperties, ElementOfSeq DEF TableInv, TableType, ToSet
<1>2. \A c \in Channels : button[c] \in Buttons
  BY DEF TableInv, TableType
<1>3. ~dataDirty /\ ~scrolled =>
        \A c \in ToSet(Window(filteredData, scroll)) : button[c] = NewButton(c, isOn, pending)
  BY DEF TableInv, RowsInv
<1> QED BY <1>1, <1>2, <1>3 DEF ButtonIsTrue, Buttons

LEMMA WindowIsThere == TableInv => WindowIsDrawn
<1> SUFFICES ASSUME TableInv PROVE WindowIsDrawn
  OBVIOUS
<1>1. \A i \in DOMAIN filteredData :
        scroll < i /\ i <= scroll + View =>
          filteredData[i] \in ToSet(Window(filteredData, scroll))
  BY WindowCuts DEF TableInv, TableType, ListInv
<1>2. RowsInv
  BY DEF TableInv
<1> QED BY <1>1, <1>2 DEF RowsInv, WindowIsDrawn

\* The bulk buttons (bulkSetPower, bulkSetVoltage) act on what the table lists, and that is
\* what the typed text and the lit chip select, whenever nothing waits.
THEOREM BulkActsOnTheList == TableSpec => []BulkIsWhatIsListed
BY ListIsTrue, TableInvariant, PTL

\* A power button in the document never asks for what it says, and says the
\* state of its channel as soon as its row has been drawn (patchRow).
THEOREM ButtonsSayTheState == TableSpec => []ButtonIsTrue
BY ButtonsAreTrue, TableInvariant, PTL

\* renderVisibleRows keeps what is in view and what is being edited in the
\* document, each row once, whatever the order of drawings, scrolls and edits.
THEOREM WindowStaysDrawn == TableSpec => []WindowIsDrawn
BY WindowIsThere, TableInvariant, PTL
=============================================================================
