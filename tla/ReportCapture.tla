---------------------------- MODULE ReportCapture ----------------------------
(***************************************************************************)
(* The screenshots of a report (report.js): on a request of the daemon the *)
(* page opens its own tabs one after the other, waits, takes a picture of  *)
(* each, goes back to the tab it came from, and posts the pictures.        *)
(*                                                                         *)
(* Each request is a coroutine.  It runs from one await to the next in one *)
(* step; between its steps the page goes on: frames, data, clicks, a       *)
(* reconnection, and other requests (the daemon asks again when its        *)
(* watchdog has given up).  The awaits may take any time, as a browser     *)
(* slows the timers of a page in the background; on a page in view they    *)
(* take longer than a frame.  The electronic log book is configured;       *)
(* without it a request changes nothing.                                   *)
(***************************************************************************)
EXTENDS PageDisplay

CONSTANTS
  ReportTabs,   \* REPORT_TABS
  MaxCaptures   \* bound: requests, numbered from 1

\* The report begins with the table of the channels, which is not a map, and
\* shows each tab once.
ASSUME CaptureAssumption ==
  /\ ReportTabs \in Seq(Tabs) /\ ReportTabs # <<>> /\ ReportTabs[1] \notin Maps
  /\ \A k, m \in DOMAIN ReportTabs : ReportTabs[k] = ReportTabs[m] => k = m
  /\ MaxCaptures \in Nat

VARIABLES
  captures,      \* the coroutine of each request
  attachments,   \* reportAttachments, which all of them share
  reporting,     \* autoIsReporting
  \* history
  chosen         \* the tab the user opened last

captureVars == <<captures, attachments, reporting, chosen>>
vars == <<displayVars, captureVars>>

Idle == [phase |-> "idle", at |-> 0, prev |-> "table", blank |-> FALSE,
         posted |-> <<>>, alone |-> TRUE]

CaptureInit ==
  /\ DisplayInit
  /\ captures = [c \in 1..MaxCaptures |-> Idle]
  /\ attachments = <<>> /\ reporting = FALSE /\ chosen = "table"

Capturing == {c \in 1..MaxCaptures : captures[c].phase \in {"settle", "image"}}
Running == Capturing \union {c \in 1..MaxCaptures : captures[c].phase = "upload"}

\* A click, or a second request, comes in the middle of captures cs.
Disturbed(cs) ==
  [c \in 1..MaxCaptures |-> [captures[c] EXCEPT !.alone = @ /\ c \notin cs]]

\* _activateTab draws like a click does, but does not flag the data, and resizes
\* the canvas of the map after it was drawn.
ActivateTab(s, t) ==
  InitHVMonGeo(ResizeGeoCanvas(Opened(s, t, {}), t), t)

Blank(s, r) == r \in Maps /\ s.canvas[r] # "drawn"

\* captureTabScreenshot up to its first await, for picture k: the page shows
\* tab t as screen s.  After the last picture the report is made of whatever
\* attachments there are then.
Proceed(cs, c, k, s, t, pictures) ==
  /\ attachments' = pictures
  /\ IF k > Len(ReportTabs)
     THEN /\ captures' = [cs EXCEPT ![c].phase = "upload", ![c].posted = pictures]
          /\ tab' = t /\ Shows(s)
     ELSE LET r == ReportTabs[k] IN
          /\ captures' = [cs EXCEPT ![c].phase = IF r = t THEN "image" ELSE "settle",
                                    ![c].at = k, ![c].prev = t,
                                    ![c].blank = (r = t /\ Blank(s, r))]
          /\ tab' = r
          /\ Shows(IF r = t THEN s ELSE ActivateTab(s, r))
  /\ excused' = (excused \/ tab' = "faultlog" \/ t = "faultlog")

\* Mutant: the pictures of the last report are kept.
OldPictures == attachments
NoPictures == <<>>

\* handleCaptureRequest and generateReport
Start(c) ==
  /\ Event
  /\ c \in 1..MaxCaptures /\ captures[c].phase = "idle"
  /\ \A d \in 1..(c - 1) : captures[d].phase # "idle"
  /\ reporting' = TRUE
  /\ Proceed(IF Capturing = {} /\ visible THEN captures
             ELSE Disturbed(Capturing \union {c}),
             c, 1, Screen, tab, NoPictures)
  /\ UNCHANGED <<sized, popups, visible, logged, initial, touched, unseen, chosen>>

FramePassed(c) == visible /\ captures[c].alone => \A w \in Maps : ~ResizeDue(w)

\* The 400 ms are over, in which a visible page runs its frames.  The canvases
\* of a tab that is not in view are skipped.
Shoot(c) ==
  LET r == ReportTabs[captures[c].at] IN
  /\ captures[c].phase = "settle"
  /\ FramePassed(c)
  /\ captures' = [captures EXCEPT ![c].phase = "image",
                     ![c].blank = r \in Maps /\ (tab # r \/ Blank(Screen, r))]
  /\ UNCHANGED <<displayVars, attachments, reporting, chosen>>

\* Mutant: the page stays on the tab of the picture.
GoBackNever(c) == FALSE
\* The finally of captureTabScreenshot opens the tab that was in view before.
GoBack(c) == captures[c].prev # ReportTabs[captures[c].at]

AddAttachment(c, t) ==
  Append(attachments, [of |-> c, tab |-> t, blank |-> captures[c].blank])

\* The image is ready, or failed; back, and on to the next picture.
Picture(c) ==
  LET p == captures[c].prev
      r == ReportTabs[captures[c].at]
      s == IF GoBack(c) THEN ActivateTab(Screen, p) ELSE Screen
      t == IF GoBack(c) THEN p ELSE tab
  IN  /\ captures[c].phase = "image" /\ FramePassed(c)
      /\ \E pictures \in {attachments, AddAttachment(c, r)} :
           Proceed(captures, c, captures[c].at + 1, s, t, pictures)
      /\ UNCHANGED <<sized, popups, visible, logged, initial, events, touched, unseen, reporting,
                     chosen>>

\* The answer of /api/elog/post, or an error.
Posted(c) ==
  /\ captures[c].phase = "upload"
  /\ captures' = [captures EXCEPT ![c] = [Idle EXCEPT !.phase = "done",
                                                        !.alone = captures[c].alone]]
  /\ reporting' = FALSE
  /\ UNCHANGED <<displayVars, attachments, chosen>>

\* handleAutoCaptureDone, of this page's report or another's
CaptureDone ==
  /\ reporting /\ Event /\ reporting' = FALSE
  /\ UNCHANGED <<tab, screenVars, sized, popups, visible, touched, logVars, captures, attachments,
                 chosen>>

UserClick(t) ==
  /\ Click(t)
  /\ chosen' = t
  /\ captures' = Disturbed(Capturing)
  /\ UNCHANGED <<attachments, reporting>>

\* The page is covered or uncovered, in the middle of a report or not.
HidePage ==
  /\ Cover
  /\ captures' = Disturbed(Capturing)
  /\ UNCHANGED <<attachments, reporting, chosen>>

CaptureNext ==
  \/ \E c \in 1..MaxCaptures : Start(c) \/ Shoot(c) \/ Picture(c) \/ Posted(c)
  \/ CaptureDone
  \/ \E t \in Tabs : UserClick(t)
  \/ HidePage
  \/ DisplayStep /\ UNCHANGED captureVars

CaptureSpec == CaptureInit /\ [][CaptureNext]_vars

-----------------------------------------------------------------------------
\* A request that no click and no other request disturbed, of a page that was
\* visible all the time, posts its own pictures, in the order of the tabs, each
\* at most once, each with its canvases: but if the page shows a map, its picture
\* is taken right after the one before, when coming back has just emptied it.
ReportIsWhole ==
  \A c \in 1..MaxCaptures :
    captures[c].phase = "upload" /\ captures[c].alone =>
      LET post == captures[c].posted IN
      /\ \A i \in DOMAIN post :
           /\ post[i].of = c
           /\ post[i].blank => post[i].tab = captures[c].prev /\ post[i].tab # ReportTabs[1]
      /\ \A i, j \in DOMAIN post : i < j =>
           \E k, m \in DOMAIN ReportTabs :
             k < m /\ post[i].tab = ReportTabs[k] /\ post[j].tab = ReportTabs[m]

\* When no pictures are being taken the user finds the tab he opened, and a map
\* that is drawn or will be at once, unless requests overlapped, he clicked in
\* between or had covered the page (an emptied map then waits for data); and the
\* badge of the report is never left on when none is running.
CaptureLeavesNoTrace ==
  /\ Capturing = {} /\ (\A c \in 1..MaxCaptures : captures[c].alone) =>
       /\ tab = chosen
       /\ tab \in Maps => canvas[tab] = "drawn" \/ ShouldRender \/ ResizeDue(tab)
  /\ reporting => Running # {}
=============================================================================
