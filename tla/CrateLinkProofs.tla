-------------------------- MODULE CrateLinkProofs --------------------------
(***************************************************************************)
(* Theorems about CrateLink, for any number of crates and channels, any    *)
(* back-off limit and any ratio of fast to full polls.                     *)
(*                                                                         *)
(* The retry countdown and the sessions need no more than the type         *)
(* invariant and the fact that nothing is waited for before initCrates has *)
(* visited a crate (LinkInv).  That every cycle reads every channel rests  *)
(* on what the fallback list holds, which is only right when links never   *)
(* break during a cycle (ReadInv).                                         *)
(***************************************************************************)
EXTENDS CrateLink, TLAPS

BootInv == \A c \in Crates : stage[c] = "init" => waited[c] = 0

LinkInv == TypeOK /\ RetryOnTime /\ OneSession /\ BootInv

-----------------------------------------------------------------------------
\* A doubled back-off stays within the limit.
LEMMA DoubledType == ASSUME NEW n \in 1..MaxBackoff PROVE Doubled(n) \in 1..MaxBackoff
BY LinkAssumption DEF Doubled

\* The states the reconnect record is set to.
LEMMA LinkStateType ==
    /\ LinkState(TRUE, 1, 0) \in ReconnectStates
    /\ LinkState(FALSE, 1, 1) \in ReconnectStates
    /\ \A n \in 1..MaxBackoff : LinkState(FALSE, n, n) \in ReconnectStates
BY LinkAssumption DEF LinkState, ReconnectStates

LEMMA InitLink == Init => LinkInv
<1> SUFFICES ASSUME Init PROVE LinkInv
  OBVIOUS
<1> USE LinkAssumption
<1>1. TypeOK
  <2>1. LinkState(FALSE, 1, 1) \in ReconnectStates
    BY LinkStateType
  <2>2. NoList \in [built : BOOLEAN, list : SUBSET Channels]
    BY DEF NoList
  <2>3. /\ rs \in [Crates -> ReconnectStates]
        /\ fallback \in [Crates -> [built : BOOLEAN, list : SUBSET Channels]]
    BY <2>1, <2>2 DEF Init
  <2>4. /\ opened \in [Crates -> Nat] /\ waited \in [Crates -> Nat]
        /\ probe \in [Crates -> Channels]
    BY DEF Init, Channels
  <2>5. cycle \in -1..AllPollEveryN - 1
    BY DEF Init
  <2> QED
    BY <2>3, <2>4, <2>5 DEF Stages, Kinds, Init, TypeOK
<1>2. RetryOnTime /\ OneSession /\ BootInv
  BY DEF Init, LinkState, RetryOnTime, OneSession, BootInv
<1> QED
  BY <1>1, <1>2 DEF LinkInv

LEMMA StepLink == LinkInv /\ [Next]_linkVars => LinkInv'
<1> SUFFICES ASSUME LinkInv, [Next]_linkVars PROVE LinkInv'
  OBVIOUS
<1> USE LinkAssumption DEF LinkInv
<1>0. CASE UNCHANGED linkVars
  BY <1>0 DEF Stages, Kinds, linkVars, netVars, readVars, mapVars, TypeOK, RetryOnTime, OneSession, BootInv
<1>1. CASE StartCycle
  <2>1. TypeOK'
    <3>1. cycle' \in -1..AllPollEveryN - 1
      BY <1>1 DEF Stages, Kinds, mapVars, StartCycle, TypeOK
    <3> QED
      BY <1>1, <3>1 DEF Stages, Kinds, mapVars, StartCycle, netVars, TypeOK
  <2>2. (RetryOnTime /\ OneSession /\ BootInv)'
    BY <1>1 DEF mapVars, StartCycle, netVars, RetryOnTime, OneSession, BootInv
  <2> QED
    BY <2>1, <2>2
<1>2. ASSUME NEW c \in Crates, Initialize(c) PROVE LinkInv'
  <2> DEFINE next == IF reachable[c] THEN LinkState(TRUE, 1, 0) ELSE LinkState(FALSE, 1, 1)
  <2>1. rs' = [rs EXCEPT ![c] = next] /\ waited[c] = 0 /\ waited' = waited
    BY <1>2 DEF mapVars, Initialize, At, BootInv
  <2>2. /\ next \in ReconnectStates /\ next.connected = reachable[c]
        /\ IF reachable[c] THEN next.backoff = 1 /\ next.remaining = 0
                           ELSE next.backoff = 1 /\ next.remaining = 1
    BY LinkStateType DEF Stages, Kinds, LinkState, TypeOK
  <2> HIDE DEF next
  <2>3. /\ session' \in [Crates -> {"none", "live", "dead"}]
        /\ steady' \in [Crates -> BOOLEAN] /\ reachable' \in [Crates -> BOOLEAN]
    BY <1>2 DEF Stages, Kinds, mapVars, Initialize, Reopen, TypeOK
  <2>4. /\ opened' = [opened EXCEPT ![c] = IF reachable[c] THEN 1 ELSE 0]
        /\ session' = [session EXCEPT ![c] = IF reachable[c] THEN "live" ELSE "none"]
    <3> DEFINE left == IF session[c] = "none" THEN opened[c] ELSE opened[c] - 1
    <3>1. left = 0
      BY DEF OneSession
    <3>2. opened' = [opened EXCEPT ![c] = IF reachable[c] THEN left + 1 ELSE left]
      BY <1>2 DEF mapVars, Initialize, Reopen
    <3> HIDE DEF left
    <3>3. opened' = [opened EXCEPT ![c] = IF reachable[c] THEN 1 ELSE 0]
      BY <3>1, <3>2
    <3>4. session' = [session EXCEPT ![c] = IF reachable[c] THEN "live" ELSE "none"]
      BY <1>2 DEF mapVars, Initialize, Reopen
    <3> QED
      BY <3>3, <3>4
  <2>5. /\ stage' \in [Crates -> Stages]
        /\ todo' \in SUBSET Crates
    BY <1>2 DEF Stages, Kinds, mapVars, Initialize, Goto, Leave, TypeOK
  <2>6. TypeOK'
    <3>1. rs' \in [Crates -> ReconnectStates] /\ waited' \in [Crates -> Nat]
      BY <2>1, <2>2, <1>2 DEF Stages, Kinds, mapVars, Initialize, TypeOK
    <3>2. opened' \in [Crates -> Nat]
      BY <2>4, <1>2 DEF Stages, Kinds, mapVars, Initialize, netVars, TypeOK
    <3>3. cut' \in [Crates -> BOOLEAN]
      BY <1>2 DEF Stages, Kinds, mapVars, Initialize, Reopen, TypeOK
    <3> QED
      BY <3>1, <3>2, <3>3, <2>3, <2>5, <1>2 DEF Stages, Kinds, Initialize, netVars, readVars, mapVars, TypeOK
  <2>7. RetryOnTime'
    BY <2>1, <2>2, <1>2 DEF Stages, Kinds, mapVars, Initialize, TypeOK, RetryOnTime
  <2>8. OneSession'
    BY <2>1, <2>2, <2>4, <1>2 DEF Stages, Kinds, mapVars, Initialize, netVars, TypeOK, OneSession
  <2>9. BootInv'
    BY <1>2, <2>1 DEF Stages, Kinds, mapVars, Initialize, Goto, Leave, TypeOK, BootInv
  <2> QED
    BY <2>6, <2>7, <2>8, <2>9
<1>3. ASSUME NEW c \in Crates, ReadCrateMap(c) PROVE LinkInv'
  <2>1. TypeOK'
    BY <1>3 DEF Stages, Kinds, ReadCrateMap, At, Goto, Leave, netVars, readVars, mapVars, TypeOK
  <2>2. RetryOnTime'
    BY <1>3 DEF Stages, Kinds, ReadCrateMap, At, Goto, Leave, netVars, readVars, mapVars, TypeOK, RetryOnTime
  <2>3. OneSession'
    BY <1>3 DEF Stages, Kinds, ReadCrateMap, At, Goto, Leave, netVars, readVars, mapVars, TypeOK, OneSession
  <2>4. BootInv'
    BY <1>3 DEF Stages, Kinds, ReadCrateMap, At, Goto, Leave, netVars, readVars, mapVars, TypeOK, BootInv
  <2> QED
    BY <2>1, <2>2, <2>3, <2>4
<1>4. ASSUME NEW c \in Crates, Wait(c) PROVE LinkInv'
  <2> DEFINE next == [rs[c] EXCEPT !.remaining = @ - 1]
  <2>1. /\ rs' = [rs EXCEPT ![c] = next] /\ waited' = [waited EXCEPT ![c] = @ + 1]
        /\ rs[c] \in ReconnectStates /\ ~rs[c].connected /\ rs[c].remaining > 1
    BY <1>4 DEF Stages, Kinds, mapVars, Wait, TypeOK
  <2>2. /\ next \in ReconnectStates /\ next.connected = rs[c].connected
        /\ next.backoff = rs[c].backoff /\ next.remaining = rs[c].remaining - 1
        /\ next.remaining >= 1
    BY <2>1 DEF ReconnectStates
  <2> HIDE DEF next
  <2>3. TypeOK'
    <3>1. rs' \in [Crates -> ReconnectStates] /\ waited' \in [Crates -> Nat]
      BY <2>1, <2>2 DEF Stages, Kinds, TypeOK
    <3> QED
      BY <3>1, <1>4 DEF Stages, Kinds, Wait, Leave, netVars, readVars, mapVars, TypeOK
  <2>4. RetryOnTime'
    <3>1. waited[c] \in Nat /\ rs[c].backoff \in Nat /\ rs[c].remaining \in Nat
      BY <2>1 DEF Stages, Kinds, TypeOK, ReconnectStates
    <3>2. /\ rs'[c] = next /\ waited'[c] = waited[c] + 1
          /\ waited[c] + rs[c].remaining = rs[c].backoff
      BY <2>1 DEF Stages, Kinds, TypeOK, RetryOnTime
    <3>3. waited'[c] + rs'[c].remaining = rs'[c].backoff
      BY <2>2, <3>1, <3>2
    <3>4. ASSUME NEW d \in Crates, d # c PROVE rs'[d] = rs[d] /\ waited'[d] = waited[d]
      BY <2>1, <3>4 DEF Stages, Kinds, TypeOK
    <3> QED
      BY <2>1, <2>2, <3>2, <3>3, <3>4 DEF RetryOnTime
  <2>5. OneSession'
    BY <2>1, <2>2, <1>4 DEF Stages, Kinds, mapVars, Wait, netVars, TypeOK, OneSession
  <2>6. BootInv'
    BY <1>4 DEF Stages, Kinds, mapVars, Wait, Leave, At, TypeOK, BootInv
  <2> QED
    BY <2>3, <2>4, <2>5, <2>6
<1>5. ASSUME NEW c \in Crates, Reconnect(c) PROVE LinkInv'
  <2> DEFINE wait == Doubled(rs[c].backoff)
             next == IF reachable[c] THEN LinkState(TRUE, 1, 0) ELSE LinkState(FALSE, wait, wait)
  <2>1. rs' = [rs EXCEPT ![c] = next] /\ waited' = [waited EXCEPT ![c] = 0]
    BY <1>5 DEF mapVars, Reconnect
  <2>2. /\ next \in ReconnectStates /\ next.connected = reachable[c]
        /\ IF reachable[c] THEN next.backoff = 1 /\ next.remaining = 0
                           ELSE next.backoff = next.remaining /\ next.remaining \in 1..MaxBackoff
    <3>1. wait \in 1..MaxBackoff
      BY DoubledType DEF Stages, Kinds, TypeOK, ReconnectStates
    <3> HIDE DEF wait
    <3> QED
      BY <3>1, LinkStateType DEF Stages, Kinds, LinkState, TypeOK
  <2> HIDE DEF next
  <2>3. /\ session' \in [Crates -> {"none", "live", "dead"}]
        /\ steady' \in [Crates -> BOOLEAN] /\ reachable' \in [Crates -> BOOLEAN]
    BY <1>5 DEF Stages, Kinds, mapVars, Reconnect, Reopen, TypeOK
  <2>4. /\ opened' = [opened EXCEPT ![c] = IF reachable[c] THEN 1 ELSE 0]
        /\ session' = [session EXCEPT ![c] = IF reachable[c] THEN "live" ELSE "none"]
    <3> DEFINE left == IF session[c] = "none" THEN opened[c] ELSE opened[c] - 1
    <3>1. left = 0
      BY DEF OneSession
    <3>2. opened' = [opened EXCEPT ![c] = IF reachable[c] THEN left + 1 ELSE left]
      BY <1>5 DEF mapVars, Reconnect, Reopen
    <3> HIDE DEF left
    <3>3. opened' = [opened EXCEPT ![c] = IF reachable[c] THEN 1 ELSE 0]
      BY <3>1, <3>2
    <3>4. session' = [session EXCEPT ![c] = IF reachable[c] THEN "live" ELSE "none"]
      BY <1>5 DEF mapVars, Reconnect, Reopen
    <3> QED
      BY <3>3, <3>4
  <2>5. /\ stage' \in [Crates -> Stages]
        /\ todo' \in SUBSET Crates
    BY <1>5 DEF Stages, Kinds, mapVars, Reconnect, Goto, Leave, TypeOK
  <2>6. TypeOK'
    <3>1. rs' \in [Crates -> ReconnectStates] /\ waited' \in [Crates -> Nat]
      BY <2>1, <2>2, <1>5 DEF Stages, Kinds, mapVars, Reconnect, TypeOK
    <3>2. opened' \in [Crates -> Nat]
      BY <2>4, <1>5 DEF Stages, Kinds, mapVars, Reconnect, netVars, TypeOK
    <3>3. cut' \in [Crates -> BOOLEAN]
      BY <1>5 DEF Stages, Kinds, mapVars, Reconnect, Reopen, TypeOK
    <3> QED
      BY <3>1, <3>2, <3>3, <2>3, <2>5, <1>5 DEF Stages, Kinds, Reconnect, netVars, readVars, mapVars, TypeOK
  <2>7. RetryOnTime'
    BY <2>1, <2>2, <1>5 DEF Stages, Kinds, mapVars, Reconnect, TypeOK, RetryOnTime
  <2>8. OneSession'
    BY <2>1, <2>2, <2>4, <1>5 DEF Stages, Kinds, mapVars, Reconnect, netVars, TypeOK, OneSession
  <2>9. BootInv'
    BY <1>5, <2>1 DEF Stages, Kinds, mapVars, Reconnect, Goto, Leave, TypeOK, BootInv
  <2> QED
    BY <2>6, <2>7, <2>8, <2>9
<1>6. ASSUME NEW c \in Crates, HeartBeat(c) PROVE LinkInv'
  <2>1. /\ stage' \in [Crates -> Stages]
        /\ todo' \in SUBSET Crates
    BY <1>6 DEF Stages, Kinds, mapVars, HeartBeat, Goto, Leave, TypeOK
  <2>2. CASE session[c] = "live"
    <3>1. UNCHANGED <<rs, waited>>
      BY <1>6, <2>2 DEF mapVars, HeartBeat
    <3>2. stage' = [stage EXCEPT ![c] = "read"] \/ stage' = [stage EXCEPT ![c] = "start"]
      BY <1>6, <2>2 DEF mapVars, HeartBeat, Goto, Leave
    <3>3. \A x \in Crates : stage'[x] = "init" => stage[x] = "init"
      BY <3>2 DEF Stages, Kinds, TypeOK
    <3>4. BootInv'
      BY <3>1, <3>3 DEF BootInv
    <3> QED
      BY <1>6, <2>1, <3>1, <3>4 DEF Stages, Kinds, HeartBeat, netVars, readVars, mapVars, TypeOK, RetryOnTime, OneSession
  <2>3. CASE session[c] # "live"
    <3> DEFINE next == LinkState(FALSE, 1, 1)
    <3>1. rs' = [rs EXCEPT ![c] = next] /\ waited' = [waited EXCEPT ![c] = 0]
      BY <1>6, <2>3 DEF mapVars, HeartBeat
    <3>2. /\ next \in ReconnectStates /\ ~next.connected
          /\ next.backoff = 1 /\ next.remaining = 1
      BY LinkStateType DEF LinkState
    <3> HIDE DEF next
    <3>3. TypeOK'
      <4>1. rs' \in [Crates -> ReconnectStates] /\ waited' \in [Crates -> Nat]
        BY <3>1, <3>2 DEF Stages, Kinds, TypeOK
      <4> QED
        BY <1>6, <2>1, <4>1 DEF Stages, Kinds, HeartBeat, netVars, readVars, mapVars, TypeOK
    <3>4. RetryOnTime'
      BY <3>1, <3>2 DEF Stages, Kinds, TypeOK, RetryOnTime
    <3>5. OneSession'
      BY <1>6, <3>1, <3>2 DEF Stages, Kinds, mapVars, HeartBeat, netVars, TypeOK, OneSession
    <3>6. BootInv'
      BY <1>6, <2>3, <3>1 DEF Stages, Kinds, mapVars, HeartBeat, Leave, TypeOK, BootInv
    <3> QED
      BY <3>3, <3>4, <3>5, <3>6
  <2> QED
    BY <2>2, <2>3
<1>7. ASSUME NEW c \in Crates, ReadAllParams(c) PROVE LinkInv'
  <2>1. TypeOK'
    <3>1. /\ stage' \in [Crates -> Stages]
          /\ todo' \in SUBSET Crates
      BY <1>7 DEF Stages, Kinds, Stored, readVars, mapVars, ReadAllParams, Goto, Leave, TypeOK
    <3>2. ReadList(c) \in SUBSET Channels
      BY DEF Stages, Kinds, ReadList, TypeOK
    <3>3. /\ fresh' \in [Crates -> SUBSET Channels] /\ good' \in [Crates -> SUBSET Channels]
          /\ probe' \in [Crates -> Channels]
      <4>1. fresh' \in [Crates -> SUBSET Channels]
        BY <1>7, <3>2 DEF Stages, Kinds, Stored, readVars, mapVars, ReadAllParams, TypeOK
      <4>2. 0 \in Channels
        BY DEF Channels
      <4>3. /\ good' = good \/ good' = [good EXCEPT ![c] = {}]
            /\ probe' = probe \/ probe' = [probe EXCEPT ![c] = 0]
        BY <1>7 DEF readVars, ReadAllParams
      <4>4. good' \in [Crates -> SUBSET Channels]
        BY <4>3 DEF TypeOK
      <4>5. probe' \in [Crates -> Channels]
        BY <4>2, <4>3 DEF TypeOK
      <4> QED
        BY <4>1, <4>4, <4>5
    <3> QED
      BY <1>7, <3>1, <3>3 DEF Stages, Kinds, Stored, readVars, mapVars, ReadAllParams, netVars, TypeOK
  <2>2. RetryOnTime'
    BY <1>7 DEF Stages, Kinds, Stored, ReadAllParams, ReadList, At, Goto, Leave, netVars, readVars, mapVars, TypeOK, RetryOnTime
  <2>3. OneSession'
    BY <1>7 DEF Stages, Kinds, Stored, ReadAllParams, ReadList, At, Goto, Leave, netVars, readVars, mapVars, TypeOK, OneSession
  <2>4. BootInv'
    BY <1>7 DEF Stages, Kinds, Stored, ReadAllParams, ReadList, At, Goto, Leave, netVars, readVars, mapVars, TypeOK, BootInv
  <2> QED
    BY <2>1, <2>2, <2>3, <2>4
<1>8. ASSUME NEW c \in Crates, Probe(c) PROVE LinkInv'
  <2>1. TypeOK'
    <3>1. /\ stage' \in [Crates -> Stages]
          /\ todo' \in SUBSET Crates
      BY <1>8 DEF Stages, Kinds, Answers, Stored, mapVars, Probe, Goto, Leave, TypeOK
    <3>2. fresh' \in [Crates -> SUBSET Channels] /\ good' \in [Crates -> SUBSET Channels]
      BY <1>8 DEF Stages, Kinds, Answers, Stored, mapVars, Probe, TypeOK
    <3>3. fallback' \in [Crates -> [built : BOOLEAN, list : SUBSET Channels]]
      <4>1. [built |-> TRUE, list |-> good'[c]] \in [built : BOOLEAN, list : SUBSET Channels]
        BY <3>2
      <4>2. \/ fallback' = fallback
            \/ fallback' = [fallback EXCEPT ![c] = [built |-> TRUE, list |-> good'[c]]]
        BY <1>8 DEF Answers, Stored, mapVars, Probe
      <4> QED
        BY <4>1, <4>2 DEF Stages, Kinds, TypeOK
    <3>4. probe' \in [Crates -> Channels]
      <4>1. \/ probe' = probe
            \/ /\ probe[c] + 1 < NChan
               /\ probe' = [probe EXCEPT ![c] = @ + 1]
        BY <1>8 DEF Answers, Stored, mapVars, Probe, Goto, Leave
      <4>2. probe \in [Crates -> Channels] /\ probe[c] \in Channels
        BY DEF Stages, Kinds, TypeOK
      <4>3. probe[c] + 1 < NChan => probe[c] + 1 \in Channels
        BY <4>2 DEF Channels
      <4> QED
        BY <4>1, <4>2, <4>3
    <3> QED
      BY <1>8, <3>1, <3>2, <3>3, <3>4 DEF Stages, Kinds, Answers, Stored, mapVars, Probe, netVars, TypeOK
  <2>2. RetryOnTime'
    BY <1>8 DEF Stages, Kinds, Answers, Stored, Probe, At, Goto, Leave, netVars, readVars, mapVars, TypeOK, RetryOnTime
  <2>3. OneSession'
    BY <1>8 DEF Stages, Kinds, Answers, Stored, Probe, At, Goto, Leave, netVars, readVars, mapVars, TypeOK, OneSession
  <2>4. BootInv'
    BY <1>8 DEF Stages, Kinds, Answers, Stored, Probe, At, Goto, Leave, netVars, readVars, mapVars, TypeOK, BootInv
  <2> QED
    BY <2>1, <2>2, <2>3, <2>4
<1>9. ASSUME NEW c \in Crates, ReadVMonOnly(c) PROVE LinkInv'
  <2>1. TypeOK'
    BY <1>9 DEF Stages, Kinds, ReadVMonOnly, ReadList, At, Visit, Leave, netVars, readVars, mapVars, TypeOK
  <2>2. RetryOnTime'
    BY <1>9 DEF Stages, Kinds, ReadVMonOnly, ReadList, At, Visit, Leave, netVars, readVars, mapVars, TypeOK, RetryOnTime
  <2>3. OneSession'
    BY <1>9 DEF Stages, Kinds, ReadVMonOnly, ReadList, At, Visit, Leave, netVars, readVars, mapVars, TypeOK, OneSession
  <2>4. BootInv'
    BY <1>9 DEF Stages, Kinds, ReadVMonOnly, ReadList, At, Visit, Leave, netVars, readVars, mapVars, TypeOK, BootInv
  <2> QED
    BY <2>1, <2>2, <2>3, <2>4
<1>10. ASSUME NEW c \in Crates, LinkBreaks(c) PROVE LinkInv'
  <2>1. TypeOK'
    BY <1>10 DEF Stages, Kinds, LinkBreaks, netVars, readVars, mapVars, TypeOK
  <2>2. RetryOnTime'
    BY <1>10 DEF Stages, Kinds, LinkBreaks, netVars, readVars, mapVars, TypeOK, RetryOnTime
  <2>3. OneSession'
    BY <1>10 DEF Stages, Kinds, LinkBreaks, netVars, readVars, mapVars, TypeOK, OneSession
  <2>4. BootInv'
    BY <1>10 DEF Stages, Kinds, LinkBreaks, netVars, readVars, mapVars, TypeOK, BootInv
  <2> QED
    BY <2>1, <2>2, <2>3, <2>4
<1>11. ASSUME NEW c \in Crates, LinkHeals(c) PROVE LinkInv'
  <2>1. TypeOK'
    BY <1>11 DEF Stages, Kinds, LinkHeals, netVars, readVars, mapVars, TypeOK
  <2>2. RetryOnTime'
    BY <1>11 DEF Stages, Kinds, LinkHeals, netVars, readVars, mapVars, TypeOK, RetryOnTime
  <2>3. OneSession'
    BY <1>11 DEF Stages, Kinds, LinkHeals, netVars, readVars, mapVars, TypeOK, OneSession
  <2>4. BootInv'
    BY <1>11 DEF Stages, Kinds, LinkHeals, netVars, readVars, mapVars, TypeOK, BootInv
  <2> QED
    BY <2>1, <2>2, <2>3, <2>4
<1>12. ASSUME NEW c \in Crates, DiscoverChParams(c) PROVE LinkInv'
  <2>1. TypeOK'
    BY <1>12 DEF Stages, Kinds, DiscoverChParams, At, Goto, Leave, netVars, readVars, mapVars, TypeOK
  <2>2. RetryOnTime'
    BY <1>12 DEF Stages, Kinds, DiscoverChParams, At, Goto, Leave, netVars, readVars, mapVars, TypeOK, RetryOnTime
  <2>3. OneSession'
    BY <1>12 DEF Stages, Kinds, DiscoverChParams, At, Goto, Leave, netVars, readVars, mapVars, TypeOK, OneSession
  <2>4. BootInv'
    BY <1>12 DEF Stages, Kinds, DiscoverChParams, At, Goto, Leave, netVars, readVars, mapVars, TypeOK, BootInv
  <2> QED
    BY <2>1, <2>2, <2>3, <2>4
<1>13. ASSUME NEW c \in Crates, DiscoverType(c) PROVE LinkInv'
  <2>1. TypeOK'
    BY <1>13 DEF Stages, Kinds, DiscoverType, Kind, At, Goto, Leave, netVars, readVars, mapVars, TypeOK
  <2>2. RetryOnTime'
    BY <1>13 DEF Stages, Kinds, DiscoverType, Kind, At, Goto, Leave, netVars, readVars, mapVars, TypeOK, RetryOnTime
  <2>3. OneSession'
    BY <1>13 DEF Stages, Kinds, DiscoverType, Kind, At, Goto, Leave, netVars, readVars, mapVars, TypeOK, OneSession
  <2>4. BootInv'
    BY <1>13 DEF Stages, Kinds, DiscoverType, Kind, At, Goto, Leave, netVars, readVars, mapVars, TypeOK, BootInv
  <2> QED
    BY <2>1, <2>2, <2>3, <2>4
<1> QED
  BY <1>0, <1>1, <1>2, <1>3, <1>4, <1>5, <1>6, <1>7, <1>8, <1>9, <1>10, <1>11, <1>12, <1>13
  DEF Next, PollThread

\* Every variable of a crate's link holds a value of its type in every
\* reachable state; in particular the back-off never exceeds its limit.
THEOREM LinkTypeCorrect == Spec => []TypeOK
<1>1. LinkInv => TypeOK
  BY DEF LinkInv
<1> QED
  BY InitLink, StepLink, <1>1, PTL DEF Spec

\* The next attempt to reconnect comes after exactly the announced number of
\* full polls, whatever the limit and however the network behaves.
THEOREM RetryCorrect == Spec => []RetryOnTime
<1>1. LinkInv => RetryOnTime
  BY DEF LinkInv
<1> QED
  BY InitLink, StepLink, <1>1, PTL DEF Spec

\* No sequence of losses and attempts leaks a library session or uses a closed
\* handle.
THEOREM SessionCorrect == Spec => []OneSession
<1>1. LinkInv => OneSession
  BY DEF LinkInv
<1> QED
  BY InitLink, StepLink, <1>1, PTL DEF Spec

-----------------------------------------------------------------------------
\* What the poll thread knows about a crate it is not visiting, and about one
\* it is mapping or reading from, as long as nothing cut it off from what it is
\* told only once.
CrateReads(c) ==
    /\ c \notin todo => stage[c] = "start"
    /\ stage[c] = "init" => ~mapped[c] /\ info[c] = "none"
    /\ stage[c] \in {"discover", "type", "read", "probe"} => mapped[c]
    /\ steady[c] => session[c] = "live"
    /\ c \in todo /\ stage[c] # "probe" => fresh[c] = {}
    /\ ~cut[c] =>
          /\ OneChance(c) => session[c] = "live"
          /\ stage[c] = "type" => info[c] = "number"
          /\ mapped[c] /\ stage[c] \notin {"discover", "type"} => info[c] = Kind(c)
          /\ fallback[c].list = IF fallback[c].built THEN Supported[c] ELSE Channels
          /\ stage[c] \in {"start", "heartbeat"} /\ mapped[c] => fallback[c].list = Supported[c]
          /\ stage[c] = "probe" =>
                /\ ~fallback[c].built
                /\ good[c] = {k \in Supported[c] : k < probe[c]} /\ fresh[c] = good[c]
          /\ c \notin todo /\ cycle >= 0 /\ rs[c].connected /\ mapped[c] /\ steady[c]
             /\ (FullCycle \/ c \notin Words)
                => fresh[c] = Supported[c]

ReadInv == \A c \in Crates : CrateReads(c)

LEMMA InitRead == Init => ReadInv
<1> SUFFICES ASSUME Init, NEW c \in Crates PROVE CrateReads(c)
  BY DEF ReadInv
<1>1. fallback[c].built = FALSE /\ fallback[c].list = Channels
  BY DEF Init, NoList
<1>2. /\ stage[c] = "init" /\ c \in todo /\ ~mapped[c] /\ info[c] = "none"
      /\ ~steady[c] /\ fresh[c] = {}
  BY DEF Init
<1> QED
  BY <1>1, <1>2 DEF CrateReads, OneChance, Kind, FullCycle

LEMMA StepRead == TypeOK /\ ReadInv /\ [Next]_linkVars => ReadInv'
<1> SUFFICES ASSUME TypeOK, ReadInv, [Next]_linkVars, NEW d \in Crates PROVE CrateReads(d)'
  BY DEF ReadInv
<1> USE LinkAssumption
<1>a. CrateReads(d)
  BY DEF ReadInv
<1>b. Supported[d] \subseteq Channels
  OBVIOUS
<1>0. CASE UNCHANGED linkVars
  BY <1>a, <1>0 DEF linkVars, netVars, readVars, mapVars, CrateReads, OneChance, Kind, FullCycle
<1>1. CASE StartCycle
  BY <1>a, <1>1 DEF Stages, Kinds, mapVars, StartCycle, netVars, CrateReads, OneChance, Kind, FullCycle, TypeOK
<1>2. ASSUME NEW c \in Crates, Initialize(c) PROVE CrateReads(d)'
  <2>1. CASE d = c
    BY <1>a, <1>b, <1>2, <2>1 DEF Stages, Kinds, Initialize, Reopen, At, Goto, Leave, readVars, mapVars, CrateReads, OneChance, Kind, FullCycle, TypeOK
  <2>2. CASE d # c
    BY <1>a, <1>2, <2>2 DEF Stages, Kinds, Initialize, Reopen, At, Goto, Leave, readVars, mapVars, CrateReads, OneChance, Kind, FullCycle, TypeOK
  <2> QED
    BY <2>1, <2>2
<1>3. ASSUME NEW c \in Crates, ReadCrateMap(c) PROVE CrateReads(d)'
  <2>1. CASE d = c
    <3>1. /\ c \in todo /\ stage[c] = "map"
          /\ UNCHANGED <<info, session, cut, steady, fresh, fallback, cycle, rs>>
          /\ steady[c] => session[c] = "live"
          /\ fresh[c] = {}
          /\ ~cut[c] => fallback[c].list = IF fallback[c].built THEN Supported[c] ELSE Channels
      BY <1>a, <1>3, <2>1 DEF ReadCrateMap, At, netVars, readVars, CrateReads
    <3>2. CASE session[c] = "live"
      <4>1. mapped'[c] /\ stage'[c] = "discover" /\ todo' = todo
        BY <1>3, <3>2 DEF ReadCrateMap, Goto, TypeOK
      <4> QED
        BY <2>1, <3>1, <3>2, <4>1 DEF CrateReads, OneChance
    <3>3. CASE session[c] # "live"
      <4>1. ~mapped'[c] /\ stage'[c] = "start" /\ c \notin todo'
        BY <1>3, <3>3 DEF ReadCrateMap, Leave, TypeOK
      <4> QED
        BY <2>1, <3>1, <3>3, <4>1 DEF CrateReads, OneChance
    <3> QED
      BY <3>2, <3>3
  <2>2. CASE d # c
    BY <1>a, <1>3, <2>2 DEF Stages, Kinds, ReadCrateMap, At, Goto, Leave, netVars, readVars, mapVars, CrateReads, OneChance, Kind, FullCycle, TypeOK
  <2> QED
    BY <2>1, <2>2
<1>4. ASSUME NEW c \in Crates, Wait(c) PROVE CrateReads(d)'
  <2>1. CASE d = c
    BY <1>a, <1>b, <1>4, <2>1 DEF Stages, Kinds, Wait, At, Leave, netVars, readVars, mapVars, CrateReads, OneChance, Kind, FullCycle, TypeOK
  <2>2. CASE d # c
    BY <1>a, <1>4, <2>2 DEF Stages, Kinds, Wait, At, Leave, netVars, readVars, mapVars, CrateReads, OneChance, Kind, FullCycle, TypeOK
  <2> QED
    BY <2>1, <2>2
<1>5. ASSUME NEW c \in Crates, Reconnect(c) PROVE CrateReads(d)'
  <2>1. CASE d = c
    BY <1>a, <1>b, <1>5, <2>1 DEF Stages, Kinds, Reconnect, Reopen, At, Goto, Leave, readVars, mapVars, CrateReads, OneChance, Kind, FullCycle, TypeOK
  <2>2. CASE d # c
    BY <1>a, <1>5, <2>2 DEF Stages, Kinds, Reconnect, Reopen, At, Goto, Leave, readVars, mapVars, CrateReads, OneChance, Kind, FullCycle, TypeOK
  <2> QED
    BY <2>1, <2>2
<1>6. ASSUME NEW c \in Crates, HeartBeat(c) PROVE CrateReads(d)'
  <2>1. CASE d = c
    BY <1>a, <1>b, <1>6, <2>1 DEF Stages, Kinds, HeartBeat, At, Goto, Leave, netVars, readVars, mapVars, LinkState, CrateReads, OneChance, Kind, FullCycle, TypeOK
  <2>2. CASE d # c
    BY <1>a, <1>6, <2>2 DEF Stages, Kinds, HeartBeat, At, Goto, Leave, netVars, readVars, mapVars, LinkState, CrateReads, OneChance, Kind, FullCycle, TypeOK
  <2> QED
    BY <2>1, <2>2
<1>7. ASSUME NEW c \in Crates, ReadAllParams(c) PROVE CrateReads(d)'
  <2>1. CASE d = c
    <3>0. CASE cut[c]
      BY <1>a, <1>7, <2>1, <3>0 DEF Stages, Kinds, Stored, readVars, mapVars, ReadAllParams, At, Goto, Leave, netVars, CrateReads, OneChance, Kind, FullCycle, TypeOK
    <3> SUFFICES ASSUME ~cut[c] PROVE CrateReads(d)'
      BY <3>0
    <3>1. /\ stage[c] = "read" /\ fresh[c] = {} /\ c \in todo
          /\ mapped[c] /\ info[c] = Kind(c) /\ info[c] # "none"
          /\ ~fallback[c].built => session[c] = "live"
          /\ fallback[c].list = IF fallback[c].built THEN Supported[c] ELSE Channels
          /\ UNCHANGED <<session, mapped, info, steady, rs, cycle, cut>>
          /\ steady[c] => session[c] = "live"
      BY <1>a, <1>7, <2>1 DEF ReadAllParams, At, netVars, mapVars, CrateReads, OneChance, Kind
    <3>2. CASE BulkSucceeds(c)
      <4>1. fallback[c].list = Supported[c]
        BY <1>b, <2>1, <3>1, <3>2 DEF BulkSucceeds, ReadList
      <4>2. /\ stage'[c] = "start" /\ fresh'[c] = Supported[c] /\ c \notin todo'
            /\ fallback' = fallback
        BY <1>7, <3>1, <3>2, <4>1 DEF ReadAllParams, Stored, ReadList, Leave, TypeOK
      <4> QED
        BY <2>1, <3>1, <4>1, <4>2 DEF CrateReads, OneChance, Kind, FullCycle
    <3>3. CASE ~BulkSucceeds(c) /\ fallback[c].built
      <4>1. session[c] # "live" /\ fallback[c].list = Supported[c]
        BY <3>1, <3>3 DEF BulkSucceeds, ReadList
      <4>2. stage'[c] = "start" /\ c \notin todo' /\ UNCHANGED <<fallback, fresh>>
        BY <1>7, <3>1, <3>3 DEF ReadAllParams, readVars, Leave, TypeOK
      <4> QED
        BY <2>1, <3>1, <3>3, <4>1, <4>2 DEF CrateReads, OneChance, Kind, FullCycle
    <3>4. CASE ~BulkSucceeds(c) /\ ~fallback[c].built
      <4>1. ~fallback[c].built /\ session[c] = "live"
        BY <3>1, <3>4
      <4>2. /\ stage'[c] = "probe" /\ todo' = todo /\ fallback' = fallback
            /\ probe'[c] = 0 /\ good'[c] = {} /\ fresh'[c] = {}
        <5>1. /\ Goto(c, "probe") /\ UNCHANGED <<fallback, fresh>>
              /\ probe' = [probe EXCEPT ![c] = 0] /\ good' = [good EXCEPT ![c] = {}]
          BY <1>7, <3>1, <3>4 DEF ReadAllParams
        <5> QED
          BY <3>1, <5>1 DEF Goto, TypeOK
      <4>3. {k \in Supported[c] : k < 0} = {}
        BY <1>b, <2>1 DEF Channels
      <4> QED
        BY <2>1, <3>1, <4>1, <4>2, <4>3 DEF CrateReads, OneChance, Kind, FullCycle
    <3> QED
      BY <3>2, <3>3, <3>4
  <2>2. CASE d # c
    BY <1>a, <1>7, <2>2 DEF Stages, Kinds, Stored, readVars, mapVars, ReadAllParams, ReadList, BulkSucceeds, At, Goto, Leave, netVars, CrateReads, OneChance, Kind, FullCycle, TypeOK
  <2> QED
    BY <2>1, <2>2
<1>8. ASSUME NEW c \in Crates, Probe(c) PROVE CrateReads(d)'
  <2>1. CASE d = c
    <3> DEFINE k == probe[c]
    <3>0. CASE cut[c]
      BY <1>a, <1>8, <2>1, <3>0 DEF Stages, Kinds, Answers, Stored, mapVars, Probe, At, Goto, Leave, netVars, CrateReads, OneChance, Kind, FullCycle, TypeOK
    <3> SUFFICES ASSUME ~cut[c] PROVE CrateReads(d)'
      BY <3>0
    <3>1. /\ stage[c] = "probe" /\ session[c] = "live" /\ c \in todo
          /\ mapped[c] /\ info[c] = Kind(c)
          /\ ~fallback[c].built /\ fallback[c].list = Channels
          /\ good[c] = {j \in Supported[c] : j < k} /\ fresh[c] = good[c]
          /\ UNCHANGED <<session, mapped, info, steady, rs, cycle, cut>>
          /\ steady[c] => session[c] = "live"
      BY <1>a, <1>8, <2>1 DEF Answers, Stored, mapVars, Probe, At, netVars, CrateReads, OneChance, Kind, FullCycle
    <3>2. k \in Channels /\ Supported[c] \subseteq Channels
      BY <1>b, <2>1 DEF Stages, Kinds, TypeOK
    <3>3. good'[c] = {j \in Supported[c] : j < k + 1} /\ fresh'[c] = good'[c]
      <4>1. /\ good'[c] = IF k \in Supported[c] THEN good[c] \cup {k} ELSE good[c]
            /\ fresh'[c] = IF k \in Supported[c] THEN fresh[c] \cup {k} ELSE fresh[c]
        <5> DEFINE new == IF Answers(c, k) THEN {k} ELSE {}
        <5>1. /\ good' = [good EXCEPT ![c] = @ \cup new]
              /\ fresh' = [fresh EXCEPT ![c] = @ \cup Stored(c, new)]
          BY <1>8 DEF Probe
        <5>2. Stored(c, new) = new /\ new = IF k \in Supported[c] THEN {k} ELSE {}
          BY <3>1 DEF Stored, Answers
        <5> HIDE DEF new
        <5> QED
          BY <5>1, <5>2 DEF TypeOK
      <4>2. {j \in Supported[c] : j < k + 1} =
                {j \in Supported[c] : j < k} \cup (IF k \in Supported[c] THEN {k} ELSE {})
        BY <3>2 DEF Channels
      <4> QED
        BY <3>1, <4>1, <4>2
    <3>4. CASE k + 1 < NChan
      <4>1. /\ stage'[c] = "probe" /\ todo' = todo /\ fallback' = fallback
            /\ probe'[c] = k + 1
        BY <1>8, <3>4 DEF Stages, Kinds, Answers, Stored, mapVars, Probe, Goto, TypeOK
      <4> QED
        BY <2>1, <3>1, <3>3, <4>1 DEF CrateReads, OneChance, Kind, FullCycle
    <3>5. CASE ~(k + 1 < NChan)
      <4>1. good'[c] = Supported[c]
        BY <3>2, <3>3, <3>5 DEF Channels
      <4>2. /\ stage'[c] = "start"
            /\ fallback'[c] = [built |-> TRUE, list |-> good'[c]]
        BY <1>8, <3>5 DEF Stages, Kinds, Answers, Stored, mapVars, Probe, Leave, TypeOK
      <4>3. c \notin todo'
        BY <1>8, <3>5 DEF Answers, Stored, mapVars, Probe, Leave
      <4> QED
        BY <2>1, <3>1, <3>3, <4>1, <4>2, <4>3 DEF CrateReads, OneChance, Kind, FullCycle
    <3> QED
      BY <3>4, <3>5
  <2>2. CASE d # c
    BY <1>a, <1>8, <2>2 DEF Stages, Kinds, Answers, Stored, mapVars, Probe, At, Goto, Leave, netVars, CrateReads, OneChance, Kind, FullCycle, TypeOK
  <2> QED
    BY <2>1, <2>2
<1>9. ASSUME NEW c \in Crates, ReadVMonOnly(c) PROVE CrateReads(d)'
  <2>1. CASE d = c
    BY <1>a, <1>b, <1>9, <2>1 DEF Stages, Kinds, mapVars, ReadVMonOnly, BulkSucceeds, ReadList, At, Leave, netVars, CrateReads, OneChance, Kind, FullCycle, TypeOK
  <2>2. CASE d # c
    BY <1>a, <1>9, <2>2 DEF Stages, Kinds, mapVars, ReadVMonOnly, BulkSucceeds, ReadList, At, Leave, netVars, CrateReads, OneChance, Kind, FullCycle, TypeOK
  <2> QED
    BY <2>1, <2>2
<1>10. ASSUME NEW c \in Crates, LinkBreaks(c) PROVE CrateReads(d)'
  <2>1. CASE d = c
    BY <1>a, <1>b, <1>10, <2>1 DEF Stages, Kinds, LinkBreaks, readVars, mapVars, CrateReads, OneChance, Kind, FullCycle, TypeOK
  <2>2. CASE d # c
    BY <1>a, <1>10, <2>2 DEF Stages, Kinds, LinkBreaks, readVars, mapVars, CrateReads, OneChance, Kind, FullCycle, TypeOK
  <2> QED
    BY <2>1, <2>2
<1>11. ASSUME NEW c \in Crates, LinkHeals(c) PROVE CrateReads(d)'
  <2>1. CASE d = c
    BY <1>a, <1>b, <1>11, <2>1 DEF Stages, Kinds, LinkHeals, readVars, mapVars, CrateReads, OneChance, Kind, FullCycle, TypeOK
  <2>2. CASE d # c
    BY <1>a, <1>11, <2>2 DEF Stages, Kinds, LinkHeals, readVars, mapVars, CrateReads, OneChance, Kind, FullCycle, TypeOK
  <2> QED
    BY <2>1, <2>2
<1>12. ASSUME NEW c \in Crates, DiscoverChParams(c) PROVE CrateReads(d)'
  <2>1. CASE d = c
    BY <1>a, <1>b, <1>12, <2>1 DEF Stages, Kinds, DiscoverChParams, At, Goto, Leave, netVars, readVars, mapVars, CrateReads, OneChance, Kind, FullCycle, TypeOK
  <2>2. CASE d # c
    BY <1>a, <1>12, <2>2 DEF Stages, Kinds, DiscoverChParams, At, Goto, Leave, netVars, readVars, mapVars, CrateReads, OneChance, Kind, FullCycle, TypeOK
  <2> QED
    BY <2>1, <2>2
<1>13. ASSUME NEW c \in Crates, DiscoverType(c) PROVE CrateReads(d)'
  <2>1. CASE d = c
    BY <1>a, <1>b, <1>13, <2>1 DEF Stages, Kinds, DiscoverType, At, Goto, Leave, netVars, readVars, mapVars, CrateReads, OneChance, Kind, FullCycle, TypeOK
  <2>2. CASE d # c
    BY <1>a, <1>13, <2>2 DEF Stages, Kinds, DiscoverType, At, Goto, Leave, netVars, readVars, mapVars, CrateReads, OneChance, Kind, FullCycle, TypeOK
  <2> QED
    BY <2>1, <2>2
<1> QED
  BY <1>0, <1>1, <1>2, <1>3, <1>4, <1>5, <1>6, <1>7, <1>8, <1>9, <1>10, <1>11, <1>12, <1>13
  DEF Next, PollThread

\* Every cycle visited over a live session refreshes every channel that has
\* the parameter, unless the link broke while its fallback list was due.
THEOREM ReadsCorrect == Spec => []ReadsUnlessCut
<1>1. ReadInv => ReadsUnlessCut
  BY DEF ReadInv, CrateReads, ReadsUnlessCut, Visited
<1>2. LinkInv => TypeOK
  BY DEF LinkInv
<1>3. TypeOK /\ ReadInv /\ [Next]_linkVars => ReadInv'
  BY StepRead
<1> QED
  BY InitLink, StepLink, InitRead, <1>1, <1>2, <1>3, PTL DEF Spec
=============================================================================
