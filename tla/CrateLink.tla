----------------------------- MODULE CrateLink -----------------------------
(***************************************************************************)
(* The connection of the HV poll thread to its crates: initCrates, and the *)
(* first half of doPoll (count down, reconnect, heartbeat, read) or, in    *)
(* the cycles between two full ones, doFastPoll.  Each call of the CAEN    *)
(* library is a step of its own, because the link can break between two of *)
(* them.                                                                   *)
(*                                                                         *)
(* A crate stands for one board and one readable channel parameter of it:  *)
(* a number, VMon, which both polls read, or a word, such as Status.  The  *)
(* others are discovered, read and remembered in the same way,             *)
(* independently of this one.                                              *)
(*                                                                         *)
(* Of the mapping, the calls that decide what is read later are steps: the *)
(* map, the list of parameters and a parameter's type.  Names and limits   *)
(* are left out; a mode that could not be asked counts as readable, which  *)
(* it is.  The error paths that free pointers GetCrateMap may not have set *)
(* are taken to do no harm.                                                *)
(***************************************************************************)
EXTENDS Integers

CONSTANTS
    Crates,
    NChan,          \* channels of a crate; they are numbered from 0
    Supported,      \* Supported[c]: the channels that have the parameter
    Words,          \* the crates whose parameter is a word
    MaxBackoff,     \* CrateReconnectState::MAX_BACKOFF
    AllPollEveryN   \* all_poll_every_n_: a full poll every so many cycles

Channels == 0..NChan-1

ASSUME LinkAssumption ==
    /\ NChan \in Nat \ {0}
    /\ Supported \in [Crates -> SUBSET Channels]
    /\ Words \in SUBSET Crates
    /\ MaxBackoff \in Nat \ {0} /\ AllPollEveryN \in Nat \ {0}

VARIABLES
    reachable,  \* the network between daemon and crate works
    session,    \* what the handle refers to: "none" (-1), "live" or "dead"
    opened,     \* library sessions opened and not closed
    mapped,     \* the crate's boards have been found
    info,       \* ch_param_info_: the type discovered, "none" if not listed
    fallback,   \* ch_param_fallback_list_: whether it was built, what to read
    rs,         \* crate_reconnect_
    cycle,      \* cycle, modulo AllPollEveryN; -1 during initCrates
    todo,       \* crates this cycle has still to visit
    stage,      \* the call the visited crate is at
    probe,      \* next channel to probe
    good,       \* channels that have answered the probes
    fresh,      \* history: channels read in this cycle
    steady,     \* history: the session has been live since the visit began
    waited,     \* history: full polls since the loss or the last attempt
    cut         \* history: the link broke while the board was being
                \* discovered or a fallback list was not complete

linkVars == <<reachable, session, opened, mapped, info, fallback, rs, cycle,
              todo, stage, probe, good, fresh, steady, waited, cut>>
netVars == <<reachable, session, opened, cut>>
readVars == <<fallback, probe, good, fresh>>
mapVars == <<mapped, info>>

NoList == [built |-> FALSE, list |-> Channels]

LinkState(connected, backoff, remaining) ==
    [connected |-> connected, backoff |-> backoff, remaining |-> remaining]

Init ==
    /\ reachable \in [Crates -> BOOLEAN]
    /\ session = [c \in Crates |-> "none"] /\ opened = [c \in Crates |-> 0]
    /\ mapped = [c \in Crates |-> FALSE]
    /\ info = [c \in Crates |-> "none"] /\ fallback = [c \in Crates |-> NoList]
    /\ rs = [c \in Crates |-> LinkState(FALSE, 1, 1)]
    /\ cycle = -1 /\ todo = Crates
    /\ stage = [c \in Crates |-> "init"]
    /\ probe = [c \in Crates |-> 0] /\ good = [c \in Crates |-> {}]
    /\ fresh = [c \in Crates |-> {}] /\ steady = [c \in Crates |-> FALSE]
    /\ waited = [c \in Crates |-> 0] /\ cut = [c \in Crates |-> FALSE]

FullCycle == cycle = 0

\* The thread is at crate c and about to make the call s.
At(c, s) == c \in todo /\ stage[c] = s

\* The crates are visited one after the other.
Visit(c) == c \in todo /\ \A d \in todo : d # c => stage[d] \in {"init", "start"}

Leave(c) ==
    /\ stage' = [stage EXCEPT ![c] = "start"]
    /\ todo' = todo \ {c}

Goto(c, s) ==
    /\ stage' = [stage EXCEPT ![c] = s]
    /\ UNCHANGED todo

-----------------------------------------------------------------------------
(* The network.  A session that was cut stays dead when the network is     *)
(* back.                                                                   *)

\* What the call under way fails to learn is not asked again.
OneChance(c) ==
    \/ stage[c] \in {"discover", "type"}
    \/ stage[c] \in {"read", "probe"} /\ ~fallback[c].built

LinkBreaks(c) ==
    /\ reachable[c]
    /\ reachable' = [reachable EXCEPT ![c] = FALSE]
    /\ session' = [session EXCEPT ![c] = IF @ = "live" THEN "dead" ELSE @]
    /\ steady' = [steady EXCEPT ![c] = FALSE]
    /\ cut' = [cut EXCEPT ![c] = @ \/ OneChance(c)]
    /\ UNCHANGED <<opened, mapVars, cycle, todo, stage, rs, waited, readVars>>

LinkHeals(c) ==
    /\ ~reachable[c]
    /\ reachable' = [reachable EXCEPT ![c] = TRUE]
    /\ UNCHANGED <<session, opened, cut, mapVars, cycle, todo, stage, rs, steady, waited, readVars>>

\* Mutant: the old session is not closed.
ReopenOnly(c) ==
    /\ session' = [session EXCEPT ![c] = IF reachable[c] THEN "live" ELSE "none"]
    /\ opened' = [opened EXCEPT ![c] = IF reachable[c] THEN @ + 1 ELSE @]
    /\ steady' = [steady EXCEPT ![c] = reachable[c]]
    /\ UNCHANGED <<reachable, cut>>

\* CAENHV_DeinitSystem, when there is a handle, and CAENHV_InitSystem.
Reopen(c) ==
    LET left == IF session[c] = "none" THEN opened[c] ELSE opened[c] - 1
    IN  /\ session' = [session EXCEPT ![c] = IF reachable[c] THEN "live" ELSE "none"]
        /\ opened' = [opened EXCEPT ![c] = IF reachable[c] THEN left + 1 ELSE left]
        /\ steady' = [steady EXCEPT ![c] = reachable[c]]
        /\ UNCHANGED <<reachable, cut>>

-----------------------------------------------------------------------------
(* initCrates *)

Initialize(c) ==
    /\ At(c, "init") /\ Visit(c)
    /\ Reopen(c)
    /\ IF reachable[c]
       THEN Goto(c, "map") /\ rs' = [rs EXCEPT ![c] = LinkState(TRUE, 1, 0)]
       ELSE Leave(c) /\ rs' = [rs EXCEPT ![c] = LinkState(FALSE, 1, 1)]
    /\ UNCHANGED <<mapVars, cycle, waited, readVars>>

\* GetCrateMap.  A failure is shown on the console and otherwise ignored.
ReadCrateMap(c) ==
    /\ At(c, "map")
    /\ mapped' = [mapped EXCEPT ![c] = session[c] = "live"]
    /\ IF session[c] = "live" THEN Goto(c, "discover") ELSE Leave(c)
    /\ UNCHANGED <<info, cycle, rs, steady, waited, netVars, readVars>>

Kind(c) == IF c \in Words THEN "word" ELSE "number"

\* GetChParamInfo.  When it fails the list of parameters stays empty, the crate
\* counts as mapped, and the first ReadAllParams has nothing to read.  A
\* parameter is taken for a number until its type is known.
DiscoverChParams(c) ==
    /\ At(c, "discover")
    /\ info' = [info EXCEPT ![c] = IF session[c] = "live" THEN "number" ELSE @]
    /\ IF session[c] = "live" THEN Goto(c, "type") ELSE Leave(c)
    /\ UNCHANGED <<mapped, cycle, rs, steady, waited, netVars, readVars>>

\* GetChParamProp "Type".  Its result is not looked at.
DiscoverType(c) ==
    /\ At(c, "type")
    /\ info' = [info EXCEPT ![c] = IF session[c] = "live" THEN Kind(c) ELSE @]
    /\ Goto(c, "read")
    /\ UNCHANGED <<mapped, cycle, rs, steady, waited, netVars, readVars>>

-----------------------------------------------------------------------------
(* doPoll *)

StartCycle ==
    /\ todo = {}
    /\ cycle' = (cycle + 1) % AllPollEveryN
    /\ todo' = Crates
    /\ fresh' = [c \in Crates |-> {}]
    /\ steady' = [c \in Crates |-> session[c] = "live"]
    /\ UNCHANGED <<mapVars, stage, rs, waited, netVars, fallback, probe, good>>

\* Mutant: it counts down to zero.
WaitToZero(c) ==
    /\ At(c, "start") /\ Visit(c) /\ FullCycle
    /\ ~rs[c].connected /\ rs[c].remaining > 0
    /\ rs' = [rs EXCEPT ![c].remaining = @ - 1]
    /\ waited' = [waited EXCEPT ![c] = @ + 1]
    /\ Leave(c)
    /\ UNCHANGED <<mapVars, cycle, steady, netVars, readVars>>

Wait(c) ==
    /\ At(c, "start") /\ Visit(c) /\ FullCycle
    /\ ~rs[c].connected /\ rs[c].remaining > 1
    /\ rs' = [rs EXCEPT ![c].remaining = @ - 1]
    /\ waited' = [waited EXCEPT ![c] = @ + 1]
    /\ Leave(c)
    /\ UNCHANGED <<mapVars, cycle, steady, netVars, readVars>>

Doubled(n) == IF 2 * n < MaxBackoff THEN 2 * n ELSE MaxBackoff

Reconnect(c) ==
    /\ At(c, "start") /\ Visit(c) /\ FullCycle
    /\ ~rs[c].connected /\ rs[c].remaining <= 1
    /\ Reopen(c)
    /\ IF reachable[c]
       THEN Goto(c, "heartbeat") /\ rs' = [rs EXCEPT ![c] = LinkState(TRUE, 1, 0)]
       ELSE /\ Leave(c)
            /\ LET wait == Doubled(rs[c].backoff)
               IN  rs' = [rs EXCEPT ![c] = LinkState(FALSE, wait, wait)]
    /\ waited' = [waited EXCEPT ![c] = 0]
    /\ UNCHANGED <<mapVars, cycle, readVars>>

\* Mutant: a failure is shown but the crate stays connected.
HeartBeatOnlyWarns(c) ==
    /\ \/ At(c, "start") /\ Visit(c) /\ FullCycle /\ rs[c].connected
       \/ At(c, "heartbeat")
    /\ IF session[c] = "live" /\ mapped[c] THEN Goto(c, "read") ELSE Leave(c)
    /\ UNCHANGED <<mapVars, cycle, rs, waited, steady, netVars, readVars>>

HeartBeat(c) ==
    /\ \/ At(c, "start") /\ Visit(c) /\ FullCycle /\ rs[c].connected
       \/ At(c, "heartbeat")
    /\ IF session[c] = "live"
       THEN /\ IF mapped[c] THEN Goto(c, "read") ELSE Leave(c)
            /\ UNCHANGED <<rs, waited>>
       ELSE /\ Leave(c)
            /\ rs' = [rs EXCEPT ![c] = LinkState(FALSE, 1, 1)]
            /\ waited' = [waited EXCEPT ![c] = 0]
    /\ UNCHANGED <<mapVars, cycle, steady, netVars, readVars>>

\* The channels asked for in one bulk call, and whether the call succeeds.
ReadList(c) == fallback[c].list

BulkSucceeds(c) == session[c] = "live" /\ ReadList(c) \subseteq Supported[c]

\* A value stored under another type than the parameter's is not found by
\* GetFloat or GetUInt.
Stored(c, channels) == IF info[c] = Kind(c) THEN channels ELSE {}

\* The bulk read of CAEN_Board::ReadAllParams, of a parameter that is listed.
ReadAllParams(c) ==
    /\ At(c, "read")
    /\ \/ info[c] = "none" /\ Leave(c) /\ UNCHANGED readVars
       \/ /\ info[c] # "none" /\ BulkSucceeds(c) /\ Leave(c)
          /\ fresh' = [fresh EXCEPT ![c] = Stored(c, ReadList(c))]
          /\ UNCHANGED <<fallback, probe, good>>
       \/ /\ info[c] # "none" /\ ~BulkSucceeds(c) /\ fallback[c].built
          /\ Leave(c) /\ UNCHANGED readVars
       \/ /\ info[c] # "none" /\ ~BulkSucceeds(c) /\ ~fallback[c].built
          /\ Goto(c, "probe")
          /\ probe' = [probe EXCEPT ![c] = 0] /\ good' = [good EXCEPT ![c] = {}]
          /\ UNCHANGED <<fallback, fresh>>
    /\ UNCHANGED <<mapVars, cycle, rs, steady, waited, netVars>>

Answers(c, k) == session[c] = "live" /\ k \in Supported[c]

\* Mutant: the list is stored before the last channel's answer is added.
ProbeAllButLast(c) ==
    /\ At(c, "probe")
    /\ LET k == probe[c]
           new == IF Answers(c, k) THEN {k} ELSE {}
       IN  /\ good' = [good EXCEPT ![c] = @ \cup new]
           /\ fresh' = [fresh EXCEPT ![c] = @ \cup Stored(c, new)]
           /\ IF k + 1 < NChan
              THEN /\ Goto(c, "probe") /\ UNCHANGED fallback
                   /\ probe' = [probe EXCEPT ![c] = k + 1]
              ELSE /\ Leave(c) /\ UNCHANGED probe
                   /\ fallback' = [fallback EXCEPT ![c] = [built |-> TRUE, list |-> good[c]]]
    /\ UNCHANGED <<mapVars, cycle, rs, steady, waited, netVars>>

\* Its first failure: the channels are asked one by one, once and for all.
Probe(c) ==
    /\ At(c, "probe")
    /\ LET k == probe[c]
           new == IF Answers(c, k) THEN {k} ELSE {}
       IN  /\ good' = [good EXCEPT ![c] = @ \cup new]
           /\ fresh' = [fresh EXCEPT ![c] = @ \cup Stored(c, new)]
           /\ IF k + 1 < NChan
              THEN /\ Goto(c, "probe") /\ UNCHANGED fallback
                   /\ probe' = [probe EXCEPT ![c] = k + 1]
              ELSE /\ Leave(c) /\ UNCHANGED probe
                   /\ fallback' = [fallback EXCEPT ![c] = [built |-> TRUE, list |-> good'[c]]]
    /\ UNCHANGED <<mapVars, cycle, rs, steady, waited, netVars>>

\* doFastPoll: a crate that is not connected is left alone.  VMon is read by
\* its name, whatever was discovered.
ReadVMonOnly(c) ==
    /\ At(c, "start") /\ Visit(c) /\ cycle > 0
    /\ fresh' = [fresh EXCEPT ![c] =
           IF rs[c].connected /\ mapped[c] /\ c \notin Words /\ BulkSucceeds(c)
           THEN ReadList(c) ELSE @]
    /\ Leave(c)
    /\ UNCHANGED <<mapVars, cycle, rs, steady, waited, netVars, fallback, probe, good>>

PollThread ==
    \/ StartCycle
    \/ \E c \in Crates :
          \/ Initialize(c) \/ ReadCrateMap(c) \/ DiscoverChParams(c) \/ DiscoverType(c)
          \/ Wait(c) \/ Reconnect(c) \/ HeartBeat(c)
          \/ ReadAllParams(c) \/ Probe(c) \/ ReadVMonOnly(c)

Next == PollThread \/ \E c \in Crates : LinkBreaks(c) \/ LinkHeals(c)

\* The thread runs until the daemon is stopped, and every library call returns.
Spec == Init /\ [][Next]_linkVars /\ WF_linkVars(PollThread)

-----------------------------------------------------------------------------
Stages == {"init", "map", "discover", "type", "start", "heartbeat", "read", "probe"}
Kinds == {"number", "word"}

ReconnectStates == [connected : BOOLEAN, backoff : 1..MaxBackoff, remaining : 0..MaxBackoff]

\* Every variable holds a value of its C++ type; the back-off stays in range.
TypeOK ==
    /\ reachable \in [Crates -> BOOLEAN]
    /\ session \in [Crates -> {"none", "live", "dead"}]
    /\ opened \in [Crates -> Nat]
    /\ mapped \in [Crates -> BOOLEAN] /\ info \in [Crates -> Kinds \cup {"none"}]
    /\ fallback \in [Crates -> [built : BOOLEAN, list : SUBSET Channels]]
    /\ rs \in [Crates -> ReconnectStates]
    /\ cycle \in -1..AllPollEveryN - 1
    /\ todo \in SUBSET Crates
    /\ stage \in [Crates -> Stages]
    /\ probe \in [Crates -> Channels] /\ good \in [Crates -> SUBSET Channels]
    /\ fresh \in [Crates -> SUBSET Channels]
    /\ steady \in [Crates -> BOOLEAN]
    /\ waited \in [Crates -> Nat] /\ cut \in [Crates -> BOOLEAN]

\* doPoll announces "retry in N poll cycles" and "try immediately on next
\* cycle": the next attempt comes in exactly the announced number of full
\* polls, however long the outage lasts, and a connected crate starts its next
\* outage from the shortest back-off.
RetryOnTime ==
    \A c \in Crates :
        IF rs[c].connected
        THEN rs[c].backoff = 1 /\ rs[c].remaining = 0 /\ waited[c] = 0
        ELSE rs[c].remaining >= 1 /\ waited[c] + rs[c].remaining = rs[c].backoff

\* Through any sequence of losses and attempts a crate has at most one library
\* session, none is leaked (the handle still names it), and the thread never
\* reads with a closed handle.
OneSession ==
    \A c \in Crates :
        /\ opened[c] = IF session[c] = "none" THEN 0 ELSE 1
        /\ rs[c].connected => session[c] # "none"

\* c has been visited in this cycle over a session that lived throughout, has
\* its boards, and its parameter was due.  (A crate that answers only after the
\* start never gets them: Reconnect does not call ReadCrateMap.)
Visited(c) ==
    /\ todo = {} /\ cycle >= 0
    /\ FullCycle \/ c \notin Words
    /\ rs[c].connected /\ mapped[c] /\ steady[c]

\* caen_channel.cpp: boards and maps are kept "so that if reconnect succeeds,
\* we resume polling without re-mapping": a visit to a crate refreshes every
\* channel that has the parameter, with or without a fallback list, however
\* often the link breaks between any two calls, as long as it never breaks
\* while its boards are discovered or its fallback list is about to be built.
\* (What is missed then is missed for the life of the process: the parameter
\* is not listed or has the wrong type, or the list is empty or partial.)
ReadsUnlessCut == \A c \in Crates : Visited(c) /\ ~cut[c] => fresh[c] = Supported[c]

\* A crate that stays reachable is connected again and stays so, over a session
\* that works, wherever in a cycle the link broke and however often before.
Recovers ==
    \A c \in Crates :
        <>[]reachable[c] => <>[](rs[c].connected /\ session[c] = "live")
=============================================================================
