----------------------------- MODULE FaultFeed -----------------------------
(***************************************************************************)
(* The way of a fault log entry from the poll threads to the browsers:     *)
(* FileFaultLogger::log writes it to the day's file and then, outside the  *)
(* file mutex, pushes it to the ring buffer of its level in SnapshotStore; *)
(* the web server thread sends a connecting client both rings in full      *)
(* (onOpen) and afterwards broadcasts what is newer than the last version  *)
(* it has sent (broadcastIfChanged); the page replaces its list by the     *)
(* first message of a connection and adds the later ones to it.            *)
(*                                                                         *)
(* The page keeps its lists newest first; they are kept oldest first here. *)
(***************************************************************************)
EXTENDS Naturals, Sequences

CONSTANTS
    Writers,      \* the threads that log: the HV and the booster poller
    Clients,
    Capacity,     \* entries per ring (max_fault_log_, FAULT_LOG_MAX)
    SendBuffer,   \* messages a client may have unread (MAX_SEND_BUFFER)
    MaxEntries,   \* bound: entries logged
    MaxOpens      \* bound: connections made

ASSUME FeedAssumption ==
    /\ Capacity \in Nat \ {0} /\ SendBuffer \in Nat
    /\ MaxEntries \in Nat /\ MaxOpens \in Nat

FeedLevels == {"FAULT", "WARN"}

VARIABLES
    written,    \* entries in the log file; an entry's time is its place there
    inFlight,   \* inFlight[w]: entries w has written but not pushed (0 or 1)
    ring,       \* ring[l]: fl_faults_ and fl_warns_, items with their _seq
    ver,        \* ver[l]: fl_fault_ver_, fl_warn_ver_
    last,       \* last[l]: last_flf_ver_, last_flw_ver_
    conn,       \* conn[c]: "closed", "open", or "closing" (server closed it)
    inbox,      \* inbox[c]: messages sent and not yet handled by the page
    view,       \* view[c][l]: the page's list
    initial,    \* initial[c][l]: the page still expects the full buffer
    opens,
    passedOver  \* history: passedOver[c]: another page joined between a push and
                \* its broadcast during c's connection

feedVars ==
    <<written, inFlight, ring, ver, last, conn, inbox, view, initial, opens, passedOver>>

Newest(s) == IF Len(s) > Capacity THEN SubSeq(s, Len(s) - Capacity + 1, Len(s)) ELSE s

FeedInit ==
    /\ written = 0
    /\ inFlight = [w \in Writers |-> <<>>]
    /\ ring = [l \in FeedLevels |-> <<>>] /\ ver = [l \in FeedLevels |-> 0]
    /\ last = [l \in FeedLevels |-> 0]
    /\ conn = [c \in Clients |-> "closed"] /\ inbox = [c \in Clients |-> <<>>]
    /\ view = [c \in Clients |-> [l \in FeedLevels |-> <<>>]]
    /\ initial = [c \in Clients |-> [l \in FeedLevels |-> TRUE]]
    /\ opens = 0 /\ passedOver = [c \in Clients |-> FALSE]

-----------------------------------------------------------------------------
\* The first half of log(): timestamp and file, under the logger's mutex.
WriteToFile(w, l) ==
    /\ inFlight[w] = <<>> /\ written < MaxEntries
    /\ written' = written + 1
    /\ inFlight' = [inFlight EXCEPT ![w] = <<[level |-> l, time |-> written + 1]>>]
    /\ UNCHANGED <<ring, ver, last, conn, inbox, view, initial, opens, passedOver>>

\* The second half: pushFaultLogEntry, under the store's mutex.
Push(w) ==
    /\ inFlight[w] # <<>>
    /\ LET e == Head(inFlight[w])
       IN  /\ ver' = [ver EXCEPT ![e.level] = @ + 1]
           /\ ring' = [ring EXCEPT ![e.level] =
                  Newest(Append(@, [seq |-> ver[e.level] + 1, time |-> e.time]))]
    /\ inFlight' = [inFlight EXCEPT ![w] = <<>>]
    /\ UNCHANGED <<written, last, conn, inbox, view, initial, opens, passedOver>>

-----------------------------------------------------------------------------
Message(l, items) == [level |-> l, items |-> items]

\* dumpSince_: the walk from the newest entry back stops at the first one that
\* is not newer than v.
NewerThan(items, v) ==
    LET stop == CHOOSE k \in 0..Len(items) :
                    /\ k > 0 => items[k].seq <= v
                    /\ \A i \in k+1..Len(items) : items[i].seq > v
    IN  SubSeq(items, stop + 1, Len(items))

\* Mutant: off by one.
SinceNext(l, v) == NewerThan(ring[l], v + 1)

\* getFaultLogFaultsSince, getFaultLogWarnsSince
Since(l, v) == NewerThan(ring[l], v)

\* onOpen: the rings go to c, the versions stand for everybody.  The page cleared its lists when it started to connect.
Open(c) ==
    /\ conn[c] = "closed" /\ opens < MaxOpens
    /\ opens' = opens + 1
    /\ conn' = [conn EXCEPT ![c] = "open"]
    /\ view' = [view EXCEPT ![c] = [l \in FeedLevels |-> <<>>]]
    /\ initial' = [initial EXCEPT ![c] = [l \in FeedLevels |-> TRUE]]
    /\ inbox' = [inbox EXCEPT ![c] =
           <<Message("FAULT", ring["FAULT"]), Message("WARN", ring["WARN"])>>]
    /\ last' = [l \in FeedLevels |-> IF ver[l] > last[l] THEN ver[l] ELSE last[l]]
    /\ passedOver' = [d \in Clients |-> d # c /\ (passedOver[d] \/ ver # last)]
    /\ UNCHANGED <<written, inFlight, ring, ver>>

\* Mutant: warnings are sent only when there is no new fault.
UpdatesOfOneLevel ==
    IF ver["FAULT"] # last["FAULT"] THEN <<Message("FAULT", Since("FAULT", last["FAULT"]))>>
    ELSE IF ver["WARN"] # last["WARN"] THEN <<Message("WARN", Since("WARN", last["WARN"]))>>
    ELSE <<>>

\* The messages of one broadcastIfChanged, in the order they are sent.
Updates ==
    LET Update(l) == IF ver[l] # last[l] THEN <<Message(l, Since(l, last[l]))>> ELSE <<>>
    IN  Update("FAULT") \o Update("WARN")

\* The fault log part of broadcastIfChanged and broadcastRaw: a client that
\* does not keep up is closed instead of being sent more.
Broadcast ==
    /\ \E c \in Clients : conn[c] # "closed"
    /\ Updates # <<>>
    /\ LET slow == {c \in Clients : conn[c] = "open" /\ Len(inbox[c]) > SendBuffer}
       IN  /\ conn' = [c \in Clients |-> IF c \in slow THEN "closing" ELSE conn[c]]
           /\ inbox' = [c \in Clients |-> IF conn'[c] = "open" THEN inbox[c] \o Updates
                                                               ELSE inbox[c]]
    /\ last' = ver
    /\ UNCHANGED <<written, inFlight, ring, ver, view, initial, opens, passedOver>>

\* onClose: the client left, the network failed, or the server's close is done.
Close(c) ==
    /\ conn[c] # "closed"
    /\ conn' = [conn EXCEPT ![c] = "closed"]
    /\ inbox' = [inbox EXCEPT ![c] = <<>>]
    /\ UNCHANGED <<written, inFlight, ring, ver, last, view, initial, opens, passedOver>>

-----------------------------------------------------------------------------
\* receiveFaultBuffer
Receive(c) ==
    /\ inbox[c] # <<>>
    /\ LET m == Head(inbox[c])
       IN  /\ view' = [view EXCEPT ![c][m.level] =
                  IF initial[c][m.level] THEN Newest(m.items) ELSE Newest(@ \o m.items)]
           /\ initial' = [initial EXCEPT ![c][m.level] = FALSE]
    /\ inbox' = [inbox EXCEPT ![c] = Tail(@)]
    /\ UNCHANGED <<written, inFlight, ring, ver, last, conn, opens, passedOver>>

FeedNext ==
    \/ \E w \in Writers : Push(w) \/ \E l \in FeedLevels : WriteToFile(w, l)
    \/ Broadcast
    \/ \E c \in Clients : Open(c) \/ Close(c) \/ Receive(c)

\* The poll threads finish a log() call, the broadcast timer keeps firing, and
\* an open page keeps handling messages.  Nothing makes a client connect or
\* leave, or an entry appear.
Fairness ==
    /\ \A w \in Writers : WF_feedVars(Push(w))
    /\ WF_feedVars(Broadcast)
    /\ \A c \in Clients : WF_feedVars(Receive(c))

FeedSpec == FeedInit /\ [][FeedNext]_feedVars /\ Fairness

-----------------------------------------------------------------------------
Items == [seq : Nat, time : Nat]

\* No list outgrows the capacity the daemon announced.
FeedTypeOK ==
    /\ written \in 0..MaxEntries /\ opens \in 0..MaxOpens
    /\ inFlight \in [Writers -> Seq([level : FeedLevels, time : Nat])]
    /\ ring \in [FeedLevels -> Seq(Items)]
    /\ ver \in [FeedLevels -> Nat] /\ last \in [FeedLevels -> Nat]
    /\ conn \in [Clients -> {"closed", "open", "closing"}]
    /\ inbox \in [Clients -> Seq([level : FeedLevels, items : Seq(Items)])]
    /\ view \in [Clients -> [FeedLevels -> Seq(Items)]]
    /\ initial \in [Clients -> [FeedLevels -> BOOLEAN]] /\ passedOver \in [Clients -> BOOLEAN]
    /\ \A l \in FeedLevels : Len(ring[l]) <= Capacity
    /\ \A c \in Clients, l \in FeedLevels : Len(view[c][l]) <= Capacity

\* What was sent to c on level l, in parts: 0 is what the page keeps, k what the
\* k-th message it has still to handle brings.
Part(c, l, k) ==
    IF k = 0 THEN IF initial[c][l] THEN <<>> ELSE view[c][l]
    ELSE IF inbox[c][k].level = l THEN inbox[c][k].items ELSE <<>>

\* No page shows an entry twice or out of the order it was pushed in, whatever
\* joins, leaves or falls behind meanwhile.
InOrder(c, l) ==
    \A j, k \in 0..Len(inbox[c]) :
        \A i \in DOMAIN Part(c, l, j), m \in DOMAIN Part(c, l, k) :
            j < k \/ (j = k /\ i < m) => Part(c, l, j)[i].seq < Part(c, l, k)[m].seq

\* What a connected page has or is about to get ends at the version the server
\* has broadcast, and lacks none of the entries that fit into its list.
Complete(c, l) ==
    /\ \A k \in 0..Len(inbox[c]) : \A i \in DOMAIN Part(c, l, k) :
           Part(c, l, k)[i].seq <= last[l]
    /\ \A n \in 1..last[l] : n + Capacity > last[l] =>
           \E k \in 0..Len(inbox[c]) : \E i \in DOMAIN Part(c, l, k) :
               Part(c, l, k)[i].seq = n

\* README: "Multiple clients can connect simultaneously. All receive the same
\* live data."  Every page has each entry at most once and in order, and has
\* them without a gap (a flood of one level never costs it entries of the
\* other) unless another page joined between a push and its broadcast: onOpen
\* then moves the versions for all, but sends the entries to the new page only.
AllReceiveAll ==
    \A c \in Clients, l \in FeedLevels : conn[c] = "open" =>
        InOrder(c, l) /\ (~passedOver[c] => Complete(c, l))

\* A page that stays connected ends up with the newest entry of each level,
\* unless it was passed over.
CatchesUp ==
    \A c \in Clients, l \in FeedLevels :
        <>[](conn[c] = "open" /\ ~passedOver[c]) =>
            <>[](ver[l] > 0 => view[c][l] # <<>> /\ view[c][l][Len(view[c][l])].seq = ver[l])
=============================================================================
