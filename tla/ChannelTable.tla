---------------------------- MODULE ChannelTable ----------------------------
(***************************************************************************)
(* The channel table of a page (monitor_table.js): filters, search, crate  *)
(* chips and sorting, the rows that are in the document while the user     *)
(* scrolls, the cells being edited, and the buttons that act on what the   *)
(* table shows.                                                            *)
(*                                                                         *)
(* The table's tab is open and the user has the expert level.  A channel   *)
(* is on or off, and has a crate; a text to search for is the set of the   *)
(* channels it matches.  Heights are counted in rows.                      *)
(***************************************************************************)
EXTENDS Naturals, Sequences, FiniteSets, SequencesExt

CONSTANTS
  Channels,     \* numbered in the daemon's order
  CrateOf,      \* the crate of each channel
  AllCrates,    \* filterCrate = null
  Searches,     \* what the texts match, the empty text among them
  View, VS_BUFFER,
  MaxActions    \* bound: data and the user's actions, together

ASSUME TableAssumption ==
  /\ Channels \subseteq Nat /\ IsFiniteSet(Channels)
  /\ CrateOf \in [Channels -> Nat \ {AllCrates}]
  /\ Searches \subseteq SUBSET Channels /\ Channels \in Searches
  /\ View \in Nat /\ VS_BUFFER \in Nat /\ MaxActions \in Nat

VARIABLES
  here,        \* allChannels: which there are,
  isOn,          \* and which are on
  pending,     \* _pendingPower: the state that was asked for, or "no"
  filterStatus, filterCrate, sort,
  chip,        \* the crate chip that is lit
  typed, timer, searchText,
  dataDirty,
  filteredData, \* what renderTable left for the scroll handler,
  drawnOn,      \* with the state its channels had
  scroll, scrolled,  \* the first row in view, and a drawing for it is awaited
  tbody,       \* the rows in the document
  button,      \* their power buttons: the text, and what a click asks for
  editing,     \* the rows with a cell being edited
  actions

filterVars == <<filterStatus, filterCrate, sort, chip, typed, timer, searchText>>
drawnVars == <<dataDirty, filteredData, drawnOn, scroll, scrolled, tbody, button>>
tableVars == <<here, isOn, pending, filterVars, drawnVars, editing, actions>>

Crates == {CrateOf[c] : c \in here}
Minus(m, n) == IF m > n THEN m - n ELSE 0
Least(m, n) == IF m < n THEN m ELSE n

TableEvent == actions < MaxActions /\ actions' = actions + 1

-----------------------------------------------------------------------------
(* Filters *)

OfStatus(status, states) ==
  CASE status = "all" -> Channels
    [] status = "on"  -> {c \in Channels : states[c]}
    [] status = "off" -> {c \in Channels : ~states[c]}

OfCrate(crate) == {c \in Channels : crate = AllCrates \/ CrateOf[c] = crate}

\* Mutant: the bulk buttons do not look at the crate.
FilteredInAnyCrate == here \intersect OfStatus(filterStatus, isOn) \intersect searchText
\* getFilteredChannels: what the bulk buttons act on
Filtered == here \intersect OfStatus(filterStatus, isOn) \intersect OfCrate(filterCrate)
                 \intersect searchText

\* The members of S in the order of the pairs in less (SetToSortSeq, with a
\* relation for an operator).
Ranked(S, less) ==
  [i \in 1..Cardinality(S) |->
     CHOOSE x \in S : Cardinality({y \in S : <<y, x>> \in less}) = i - 1]

\* The order of the columns' sort functions.  Array.sort is stable.
Before(channels, states, by) ==
  LET key(c) == IF by = "on" /\ states[c] THEN 1 ELSE 0
      before(a, b) == \/ key(a) < key(b)
                      \/ key(a) = key(b) /\ (IF by = "down" THEN a > b ELSE a < b)
  IN  {p \in channels \X channels : before(p[1], p[2])}

\* The sort of renderTable
Sorted(channels, states, by) == Ranked(channels, Before(channels, states, by))

-----------------------------------------------------------------------------
(* Rows *)

FirstRow(data, top) == Least(Len(data), Minus(top, VS_BUFFER))
LastRow(data, top) == Least(Len(data), top + View + VS_BUFFER)
Window(data, top) == SubSeq(data, FirstRow(data, top) + 1, LastRow(data, top))

Text(c, states, pend) ==
  IF pend[c] # "no" THEN "..." ELSE IF states[c] THEN "ON" ELSE "OFF"
\* makeToggle
Toggle(c, states, pend) ==
  IF pend[c] # "no" THEN "no" ELSE IF states[c] THEN "off" ELSE "on"

NewButton(c, states, pend) == [text |-> Text(c, states, pend), asks |-> Toggle(c, states, pend)]
\* Mutant: the handler is not bound again.
PatchedTextOnly(b, c, states, pend) == [b EXCEPT !.text = Text(c, states, pend)]
\* The handler is bound again when the text changes.
Patched(b, c, states, pend) ==
  IF b.text = Text(c, states, pend) THEN b ELSE NewButton(c, states, pend)

\* Mutant: rows are drawn without regard to edits.
RowsInWindow(data, states, top, pend, edited) == Window(data, top)
\* The rows of s that are in S, in their order.
Only(s, S) ==
  LET places == {k \in DOMAIN s : s[k] \in S}
      order == Ranked(places, {p \in places \X places : p[1] < p[2]})
  IN  [i \in DOMAIN order |-> s[order[i]]]

\* renderVisibleRows, of rows data drawn from states, with top as the first row
\* in view.  While a cell is edited no row changes its place: new ones go to
\* the end, and the edited row stays even when it is out of the window.
Rows(data, states, top, pend, edited) ==
  LET window == Window(data, top) IN
  IF edited = {} THEN window
  ELSE Only(tbody, ToSet(window) \union edited) \o Only(window, Channels \ ToSet(tbody))

\* Afterwards the browser moves a view that is past the end, and says so.
DrawRows(data, states, top, pend, edited) ==
  LET seen == Least(top, Minus(Len(data), View))
  IN  /\ tbody' = Rows(data, states, top, pend, edited)
      /\ button' = [c \in Channels |->
            IF c \notin ToSet(Window(data, top)) THEN button[c]
            ELSE IF c \in ToSet(tbody) THEN Patched(button[c], c, states, pend)
                 ELSE NewButton(c, states, pend)]
      /\ scroll' = seen
      /\ scrolled' = (seen # top)

\* renderTable, from the next values of what it reads
RenderTable(top) ==
  /\ filteredData' = Sorted(here' \intersect OfStatus(filterStatus', isOn')
                                 \intersect OfCrate(filterCrate') \intersect searchText',
                           isOn', sort')
  /\ drawnOn' = isOn' /\ dataDirty' = FALSE
  /\ DrawRows(filteredData', isOn', top, pending', editing')

TableInit ==
  /\ here = Channels /\ isOn = [c \in Channels |-> FALSE]
  /\ pending = [c \in Channels |-> "no"]
  /\ filterStatus = "all" /\ filterCrate = AllCrates /\ sort = "up" /\ chip = AllCrates
  /\ typed = Channels /\ timer = FALSE /\ searchText = Channels
  /\ dataDirty = TRUE /\ filteredData = <<>> /\ drawnOn = isOn
  /\ scroll = 0 /\ scrolled = FALSE /\ tbody = <<>>
  /\ button = [c \in Channels |-> NewButton(c, isOn, pending)]
  /\ editing = {} /\ actions = 0

\* The render loop, and the animation frame of the scroll handler
Frame ==
  /\ dataDirty
  /\ UNCHANGED <<here, isOn, pending, filterVars, editing, actions>>
  /\ RenderTable(scroll)

ScrollFrame ==
  /\ scrolled
  /\ DrawRows(filteredData, drawnOn, scroll, pending, editing)
  /\ UNCHANGED <<here, isOn, pending, filterVars, dataDirty, filteredData, drawnOn, editing, actions>>

Scroll ==
  /\ TableEvent
  /\ scroll' \in 0..Minus(Len(filteredData), View) /\ scroll' # scroll
  /\ scrolled' = TRUE
  /\ UNCHANGED <<here, isOn, pending, filterVars, dataDirty, filteredData, drawnOn, tbody, button,
                 editing>>

-----------------------------------------------------------------------------
(* Data: a channel switches, answers to requests settle, a crate is missing. *)

\* populateCrateChips lights the chip of all crates, whatever the filter is.
Chips(there) == IF {CrateOf[c] : c \in there} = Crates THEN chip ELSE AllCrates

ChannelsUpdated ==
  /\ TableEvent
  /\ \E c \in Channels : isOn' \in {isOn, [isOn EXCEPT ![c] = ~@]}
  /\ here' \in {Channels} \union {{c \in Channels : CrateOf[c] = r} : r \in Crates}
  /\ pending' \in {pending, [c \in Channels |-> "no"]}
  /\ chip' = Chips(here')
  /\ dataDirty' = TRUE
  /\ UNCHANGED <<filterStatus, filterCrate, sort, typed, timer, searchText, filteredData, drawnOn,
                 scroll, scrolled, tbody, button, editing>>

-----------------------------------------------------------------------------
(* The user *)

\* The Refresh button hands out the channels there are once more.
Refresh ==
  /\ TableEvent /\ chip' = AllCrates
  /\ UNCHANGED <<here, isOn, pending, filterStatus, filterCrate, sort, typed, timer, searchText,
                 editing>>
  /\ RenderTable(scroll)

Type ==
  /\ TableEvent
  /\ typed' \in Searches /\ timer' = TRUE
  /\ UNCHANGED <<here, isOn, pending, filterStatus, filterCrate, sort, chip, searchText, drawnVars,
                 editing>>

Search ==
  /\ timer /\ timer' = FALSE
  /\ searchText' = typed
  /\ UNCHANGED <<here, isOn, pending, filterStatus, filterCrate, sort, chip, typed, editing, actions>>
  /\ RenderTable(0)

SelectStatus ==
  /\ TableEvent
  /\ filterStatus' \in {"all", "on", "off"}
  /\ UNCHANGED <<here, isOn, pending, filterCrate, sort, chip, typed, timer, searchText, editing>>
  /\ RenderTable(0)

SelectCrateChip ==
  /\ TableEvent
  /\ filterCrate' \in Crates \union {AllCrates} /\ chip' = filterCrate'
  /\ UNCHANGED <<here, isOn, pending, filterStatus, sort, typed, timer, searchText, editing>>
  /\ RenderTable(0)

SortBy ==
  /\ TableEvent
  /\ sort' \in {"up", "down", "on"}
  /\ UNCHANGED <<here, isOn, pending, filterStatus, filterCrate, chip, typed, timer, searchText,
                 editing>>
  /\ RenderTable(0)

AskPower(channels, state) ==
  /\ pending' = [c \in Channels |-> IF c \in channels THEN state ELSE pending[c]]
  /\ UNCHANGED <<here, isOn, filterVars, editing>>
  /\ RenderTable(scroll)

\* togglePower; a row that waits for an answer has no button
Press(c) ==
  /\ TableEvent
  /\ c \in ToSet(tbody) /\ button[c].text # "..."
  /\ AskPower({c}, button[c].asks)

\* The bulk buttons.  Set V leaves the state alone.
BulkPower(state) == TableEvent /\ Filtered # {} /\ AskPower(Filtered, state)

BulkSetV ==
  /\ TableEvent /\ Filtered # {}
  /\ UNCHANGED <<here, isOn, pending, filterVars, editing>>
  /\ RenderTable(scroll)

EnterEdit(c) ==
  /\ TableEvent
  /\ c \in ToSet(tbody) \ editing /\ c \in here
  /\ editing' = editing \union {c}
  /\ UNCHANGED <<here, isOn, pending, filterVars, drawnVars>>

\* commitEdit or cancelEdit: of the cell that the row still has
EndEdit(c) ==
  /\ c \in editing /\ c \in ToSet(tbody)
  /\ editing' = editing \ {c}
  /\ UNCHANGED <<here, isOn, pending, filterVars, actions>>
  /\ RenderTable(scroll)

TableNext ==
  \/ Frame \/ ScrollFrame \/ Scroll \/ ChannelsUpdated
  \/ Refresh \/ Type \/ Search \/ SelectStatus \/ SelectCrateChip \/ SortBy
  \/ BulkSetV \/ \E state \in {"on", "off"} : BulkPower(state)
  \/ \E c \in Channels : Press(c) \/ EnterEdit(c) \/ EndEdit(c)

TableSpec == TableInit /\ [][TableNext]_tableVars

-----------------------------------------------------------------------------
\* When no drawing is due and no typed text waits for its timer, the bulk
\* buttons act on exactly the rows the table lists, which are those the typed
\* text and the lit chip select (the chip of all crates may be lit wrongly:
\* new chips do not look at the filter).
BulkIsWhatIsListed ==
  ~dataDirty /\ ~timer =>
    /\ Filtered = ToSet(filteredData)
    /\ searchText = typed
    /\ chip \in {filterCrate, AllCrates}

\* A row's power button asks for the opposite of what it says; and when no
\* drawing is due it says the state of its channel, or that a request is under
\* way, except on an edited row that has left the window.
ButtonIsTrue ==
  \A c \in ToSet(tbody) :
    /\ button[c] \in {[text |-> "ON", asks |-> "off"], [text |-> "OFF", asks |-> "on"],
                      [text |-> "...", asks |-> "no"]}
    /\ ~dataDirty /\ c \in ToSet(Window(filteredData, scroll)) /\ ~scrolled =>
         button[c] = NewButton(c, isOn, pending)

\* When no drawing is due, every row in view is in the document, once, and
\* without edits nothing but the window, in its order.  A cell being edited
\* stays in the document whatever is filtered, scrolled, sorted or received.
WindowIsDrawn ==
  /\ ~dataDirty /\ ~scrolled =>
       /\ \A i \in DOMAIN filteredData :
            scroll < i /\ i <= scroll + View => filteredData[i] \in ToSet(tbody)
       /\ editing = {} => tbody = Window(filteredData, scroll)
  /\ IsInjective(tbody)
  /\ editing \subseteq ToSet(tbody)
=============================================================================
