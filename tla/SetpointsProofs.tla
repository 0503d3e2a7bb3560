-------------------------- MODULE SetpointsProofs --------------------------
(***************************************************************************)
(* Theorems about Setpoints, for any crates, channels, limits, setpoints   *)
(* and any number of commands and lost connections.                        *)
(*                                                                         *)
(* The limit is enforced in one place only, so what is above it came from  *)
(* outside not only in the hardware but everywhere a setpoint can come     *)
(* from: the cache, the saved file, what crates report, and the overrides  *)
(* (WithinInv).                                                            *)
(***************************************************************************)
EXTENDS Setpoints, TLAPS

Allowed(ch, v) == v <= Limit[ch] \/ v \in outside[ch]

OverridesWithin == \A ch \in Channels : override[ch].ttl > 0 => override[ch].value <= Limit[ch]

WithinInv ==
    /\ \A ch \in Channels :
          /\ Allowed(ch, hw[ch]) /\ Allowed(ch, readback[ch])
          /\ Allowed(ch, cache[ch]) /\ Allowed(ch, file[ch])
    /\ OverridesWithin

LinkInv == \A c \in Crates : session[c] => connected[c]

SetpointInv == TypeOK /\ WithinInv /\ LinkInv

-----------------------------------------------------------------------------
\* A clamped value is a number within the limit, and clamping never raises one.
LEMMA ClampedWithin ==
    ASSUME NEW ch \in Channels, NEW v \in Nat
    PROVE  Clamped(ch, v) \in Nat /\ Clamped(ch, v) <= Limit[ch]
BY SetpointsAssumption DEF Clamped, MinOf

LEMMA InitSetpoint == Init => SetpointInv
<1> SUFFICES ASSUME Init PROVE SetpointInv
  OBVIOUS
<1> USE SetpointsAssumption
<1>1. NoOverride \in Overrides /\ NoOverride.ttl = 0
  BY DEF NoOverride, Overrides
<1>2. /\ hw \in [Channels -> Nat] /\ readback = hw
      /\ cache \in [Channels -> Read] /\ file \in [Channels -> Read]
      /\ outside \in [Channels -> SUBSET Nat]
  BY DEF Init, Read
<1>3. override \in [Channels -> Overrides] /\ \A ch \in Channels : override[ch].ttl = 0
  BY <1>1 DEF Init
<1>4. TypeOK
  BY <1>2, <1>3 DEF Init, TypeOK
<1>5. ASSUME NEW ch \in Channels
      PROVE  /\ hw[ch] \in outside[ch] /\ file[ch] = -1
             /\ cache[ch] = hw[ch] \/ cache[ch] = -1
             /\ -1 <= Limit[ch]
  BY DEF Init, Unset
<1>6. WithinInv
  BY <1>2, <1>3, <1>5 DEF WithinInv, Allowed, OverridesWithin
<1> QED
  BY <1>4, <1>6 DEF Init, LinkInv, SetpointInv

\* What a command may do to hardware and cache: set channels of working crates
\* to numbers within their limits or from outside.
WritesWithin ==
    /\ hw' \in [Channels -> Nat] /\ cache' \in [Channels -> Read]
    /\ outside' \in [Channels -> SUBSET Nat]
    /\ \A ch \in Channels :
          /\ Allowed(ch, hw[ch])' /\ Allowed(ch, cache[ch])'
          /\ outside[ch] \subseteq outside'[ch]
          /\ hw'[ch] # hw[ch] => session[CrateOf[ch]]

\* SetFloats does so when it is asked to write only such values.
LEMMA SetFloatsWithin ==
    ASSUME SetpointInv, NEW W \in SUBSET Channels, NEW writes \in [W -> Nat],
           outside' \in [Channels -> SUBSET Nat],
           \A ch \in Channels : outside[ch] \subseteq outside'[ch],
           \A ch \in W : writes[ch] <= Limit[ch] \/ writes[ch] \in outside'[ch],
           SetFloats(writes)
    PROVE  WritesWithin
<1> USE SetpointsAssumption
<1> DEFINE taken == Taken(writes)
<1>1. \A ch \in taken : ch \in W /\ session[CrateOf[ch]]
  BY DEF Taken
<1>2. /\ hw' = [ch \in Channels |-> IF ch \in taken THEN writes[ch] ELSE hw[ch]]
      /\ cache' = [ch \in Channels |-> IF ch \in taken THEN writes[ch] ELSE cache[ch]]
  BY DEF SetFloats
<1> HIDE DEF taken
<1>3. hw \in [Channels -> Nat] /\ cache \in [Channels -> Read]
  BY DEF SetpointInv, TypeOK
<1>4. \A ch \in taken : writes[ch] \in Nat
  BY <1>1
<1>5. hw' \in [Channels -> Nat] /\ cache' \in [Channels -> Read]
  BY <1>2, <1>3, <1>4 DEF Read
<1>6. ASSUME NEW ch \in Channels
      PROVE  /\ hw'[ch] <= Limit[ch] \/ hw'[ch] \in outside'[ch]
             /\ cache'[ch] <= Limit[ch] \/ cache'[ch] \in outside'[ch]
             /\ hw'[ch] # hw[ch] => session[CrateOf[ch]]
  <2>1. /\ hw[ch] <= Limit[ch] \/ hw[ch] \in outside'[ch]
        /\ cache[ch] <= Limit[ch] \/ cache[ch] \in outside'[ch]
    BY DEF SetpointInv, WithinInv, Allowed
  <2>2. CASE ch \in taken
    BY <1>1, <1>2, <2>2
  <2>3. CASE ch \notin taken
    BY <1>2, <2>1, <2>3
  <2> QED
    BY <2>2, <2>3
<1> QED
  BY <1>5, <1>6 DEF WritesWithin, Allowed

LEMMA SetVoltageWrites ==
    ASSUME SetpointInv, NEW ch \in Channels, NEW v \in Nat, SetVoltage(ch, v)
    PROVE  WritesWithin
<1> DEFINE writes == [x \in {ch} |-> Clamped(x, v)]
<1>1. writes \in [{ch} -> Nat] /\ \A x \in {ch} : writes[x] <= Limit[x]
  BY ClampedWithin
<1>2. SetFloats(writes) /\ outside' = outside /\ outside \in [Channels -> SUBSET Nat]
  BY DEF SetVoltage, SetpointInv, TypeOK
<1> HIDE DEF writes
<1> QED
  BY <1>1, <1>2, SetFloatsWithin

LEMMA SetAllVoltageWrites ==
    ASSUME SetpointInv, NEW v \in Nat, SetAllVoltage(v) PROVE WritesWithin
<1> DEFINE W == {x \in Channels : cache[x] # v}
           writes == [ch \in W |-> Clamped(ch, v)]
<1>1. writes \in [W -> Nat] /\ \A x \in W : writes[x] <= Limit[x]
  BY ClampedWithin
<1>2. /\ SetFloats(writes) /\ W \in SUBSET Channels
      /\ outside' = outside /\ outside \in [Channels -> SUBSET Nat]
  BY DEF SetAllVoltage, SetpointInv, TypeOK
<1> HIDE DEF W, writes
<1> QED
  BY <1>1, <1>2, SetFloatsWithin

\* A file is loaded without a look at the limit; so its values must be allowed.
LEMMA LoadSettingsWrites ==
    ASSUME SetpointInv, NEW f \in [Channels -> Read], LoadSettings(f),
           outside' \in [Channels -> SUBSET Nat],
           \A ch \in Channels :
              /\ outside[ch] \subseteq outside'[ch]
              /\ f[ch] # Unset => f[ch] <= Limit[ch] \/ f[ch] \in outside'[ch]
    PROVE  WritesWithin
<1> DEFINE W == Changes(f)
           writes == [ch \in W |-> f[ch]]
<1>1. W \in SUBSET Channels /\ \A x \in W : f[x] # Unset
  BY DEF Changes
<1>2. SetFloats(writes)
  BY DEF LoadSettings
<1>3. writes \in [W -> Nat] /\ \A x \in W : writes[x] <= Limit[x] \/ writes[x] \in outside'[x]
  <2> HIDE DEF W
  <2> QED
    BY <1>1 DEF Read, Unset
<1> HIDE DEF W, writes
<1> QED
  BY <1>1, <1>2, <1>3, SetFloatsWithin

LEMMA LoadSavedWrites == ASSUME SetpointInv, LoadSaved PROVE WritesWithin
<1>1. /\ file \in [Channels -> Read] /\ outside' = outside
      /\ outside \in [Channels -> SUBSET Nat] /\ LoadSettings(file)
      /\ \A ch \in Channels : file[ch] <= Limit[ch] \/ file[ch] \in outside[ch]
  BY DEF LoadSaved, SetpointInv, TypeOK, WithinInv, Allowed
<1> QED
  BY <1>1, LoadSettingsWrites

LEMMA LoadOtherWrites ==
    ASSUME SetpointInv, NEW f \in Files, LoadOther(f) PROVE WritesWithin
<1>1. f \in [Channels -> Read]
  BY SetpointsAssumption DEF Files, Read
<1>2. /\ outside' = [ch \in Channels |-> outside[ch] \cup ({f[ch]} \ {Unset})]
      /\ outside \in [Channels -> SUBSET Nat] /\ LoadSettings(f)
  BY DEF LoadOther, SetpointInv, TypeOK
<1>3. /\ outside' \in [Channels -> SUBSET Nat]
      /\ \A ch \in Channels :
            outside[ch] \subseteq outside'[ch] /\ (f[ch] # Unset => f[ch] \in outside'[ch])
  <2>1. \A ch \in Channels : {f[ch]} \ {Unset} \in SUBSET Nat
    BY <1>1 DEF Read, Unset
  <2> QED
    BY <1>2, <2>1
<1> QED
  BY <1>1, <1>2, <1>3, LoadSettingsWrites

\* What hardware and cache hold stays allowed when a command writes so.
LEMMA CommandStep ==
    ASSUME SetpointInv, WritesWithin, Command,
           file' \in [Channels -> Read], \A ch \in Channels : file'[ch] = file[ch] \/ Allowed(ch, file'[ch]),
           override' \in [Channels -> Overrides], OverridesWithin'
    PROVE  SetpointInv'
<1>1. TypeOK'
  BY DEF SetpointInv, TypeOK, WritesWithin, Command, Event, pollVars
<1>2. LinkInv'
  BY DEF SetpointInv, LinkInv, Command, pollVars
<1>3. ASSUME NEW ch \in Channels PROVE Allowed(ch, readback[ch])' /\ Allowed(ch, file[ch])'
  BY DEF SetpointInv, WithinInv, WritesWithin, Allowed, Command, pollVars
<1> QED
  BY <1>1, <1>2, <1>3 DEF SetpointInv, WithinInv, WritesWithin

\* A full poll copies only allowed setpoints into the cache.
LEMMA PollStep ==
    ASSUME SetpointInv, NEW back \in SUBSET {c \in Crates : ~connected[c]},
           NEW failed \in SUBSET (Crates \ unread), FullPoll(back, failed)
    PROVE  SetpointInv'
<1> USE SetpointsAssumption DEF SetpointInv
<1> DEFINE read == [ch \in Channels |->
                      IF connected'[CrateOf[ch]] /\ CrateOf[ch] \notin unread'
                      THEN readback[ch] ELSE cache[ch]]
<1>1. /\ read \in [Channels -> Read]
      /\ \A ch \in Channels : Allowed(ch, read[ch])
  BY DEF TypeOK, WithinInv, Read
<1>2. ApplyPendingOverrides(read) /\ unread' = unread \cup failed
  BY DEF FullPoll, ReadAllParams
<1> HIDE DEF read
<1>3. UNCHANGED <<hw, readback, outside, unknown, file>> /\ events' \in Nat
  BY DEF FullPoll, crateVars, Event, TypeOK
<1>4. ASSUME NEW ch \in Channels
      PROVE  /\ override'[ch] \in Overrides
             /\ override'[ch].ttl > 0 => override'[ch].value <= Limit[ch]
             /\ cache'[ch] \in Read /\ Allowed(ch, cache'[ch])
  <2>1. override[ch] \in Overrides
    BY DEF TypeOK
  <2>2. CASE Survives(ch, read)
    <3>1. /\ override'[ch] = [override[ch] EXCEPT !.ttl = @ - 1]
          /\ cache'[ch] = override[ch].value
      BY <1>2, <2>2 DEF ApplyPendingOverrides
    <3>2. override[ch].ttl > 1
      BY <2>2 DEF Survives
    <3>3. override[ch].value <= Limit[ch]
      BY <2>1, <3>2 DEF WithinInv, OverridesWithin, Overrides
    <3>4. /\ override'[ch].value = override[ch].value
          /\ override'[ch] \in Overrides
      BY <2>1, <3>1, <3>2 DEF Overrides
    <3> QED
      BY <2>1, <3>1, <3>3, <3>4 DEF Overrides, Read, Allowed
  <2>3. CASE ~Survives(ch, read)
    <3>1. override'[ch] = NoOverride /\ cache'[ch] = read[ch]
      BY <1>2, <2>3 DEF ApplyPendingOverrides
    <3> QED
      BY <1>1, <3>1 DEF NoOverride, Overrides
  <2> QED
    BY <2>2, <2>3
<1>5. override' \in [Channels -> Overrides] /\ cache' \in [Channels -> Read]
  BY <1>2, <1>4 DEF ApplyPendingOverrides
<1>6. /\ session' \in [Crates -> BOOLEAN] /\ connected' \in [Crates -> BOOLEAN]
      /\ \A c \in Crates : session'[c] => connected'[c]
  <2>1. \A c \in back : ~connected[c]
    OBVIOUS
  <2>2. /\ session \in [Crates -> BOOLEAN] /\ connected \in [Crates -> BOOLEAN]
        /\ session' = [c \in Crates |-> c \notin failed /\ (session[c] \/ c \in back)]
        /\ connected' = [c \in Crates |-> IF connected[c] THEN session[c] ELSE c \in back]
    BY DEF FullPoll, TypeOK
  <2>3. ASSUME NEW c \in Crates
        PROVE  /\ session'[c] = (c \notin failed /\ (session[c] \/ c \in back))
               /\ connected'[c] = (IF connected[c] THEN session[c] ELSE c \in back)
    BY <2>2
  <2>4. session' \in [Crates -> BOOLEAN] /\ connected' \in [Crates -> BOOLEAN]
    <3>1. ASSUME NEW c \in Crates
          PROVE  /\ (c \notin failed /\ (session[c] \/ c \in back)) \in BOOLEAN
                 /\ (IF connected[c] THEN session[c] ELSE c \in back) \in BOOLEAN
      <4>1. session[c] \in BOOLEAN
        BY <2>2
      <4>2. CASE connected[c]
        BY <4>1, <4>2
      <4>3. CASE ~connected[c]
        BY <4>1, <4>3
      <4> QED
        BY <4>2, <4>3
    <3> QED
      BY <2>2, <3>1
  <2>5. ASSUME NEW c \in Crates PROVE session'[c] => connected'[c]
    BY <2>1, <2>3 DEF LinkInv
  <2> QED
    BY <2>4, <2>5
<1>7. TypeOK'
  BY <1>2, <1>3, <1>5, <1>6 DEF TypeOK
<1>8. WithinInv'
  BY <1>3, <1>4 DEF WithinInv, Allowed, OverridesWithin
<1> QED
  BY <1>6, <1>7, <1>8 DEF LinkInv

\* A setpoint changed by hand is from outside by definition.
LEMMA ByHandStep ==
    ASSUME SetpointInv, NEW ch \in Channels, NEW v \in Values, SetByHand(ch, v)
    PROVE  SetpointInv'
<1> USE SetpointsAssumption DEF SetpointInv
<1>1. /\ hw' = [hw EXCEPT ![ch] = v] /\ outside' = [outside EXCEPT ![ch] = @ \cup {v}]
      /\ events' \in Nat
      /\ UNCHANGED <<readback, cache, unread, unknown, override, session, connected, file>>
  BY DEF SetByHand, Event, TypeOK
<1>2. v \in Nat /\ hw \in [Channels -> Nat] /\ outside \in [Channels -> SUBSET Nat]
  BY DEF TypeOK
<1>3. /\ hw' \in [Channels -> Nat] /\ outside' \in [Channels -> SUBSET Nat]
      /\ \A x \in Channels : outside[x] \subseteq outside'[x] /\ (hw'[x] = hw[x] \/ hw'[x] \in outside'[x])
  BY <1>1, <1>2
<1> QED
  BY <1>1, <1>3 DEF TypeOK, WithinInv, Allowed, OverridesWithin, LinkInv

LEMMA StepSetpoint == SetpointInv /\ [Next]_spVars => SetpointInv'
<1> SUFFICES ASSUME SetpointInv, [Next]_spVars PROVE SetpointInv'
  OBVIOUS
<1> USE SetpointsAssumption
<1>0. /\ file \in [Channels -> Read] /\ override \in [Channels -> Overrides]
      /\ OverridesWithin
  BY DEF SetpointInv, TypeOK, WithinInv
<1>1. CASE UNCHANGED spVars
  BY <1>1 DEF spVars, SetpointInv, TypeOK, WithinInv, Allowed, OverridesWithin, LinkInv
<1>2. ASSUME NEW v \in Values, NEW ch \in Channels, SetVoltage(ch, v) PROVE SetpointInv'
  <2>1. v \in Nat /\ Clamped(ch, v) \in Nat /\ Clamped(ch, v) <= Limit[ch]
    BY ClampedWithin
  <2>2. WritesWithin
    BY <1>2, <2>1, SetVoltageWrites
  <2> DEFINE new == [value |-> Clamped(ch, v), ttl |-> OverrideTTL]
  <2>3. new \in Overrides /\ new.value <= Limit[ch]
    BY <2>1 DEF Overrides
  <2>4. override' = [override EXCEPT ![ch] = new] /\ file' = file /\ Command
    BY <1>2 DEF SetVoltage
  <2> HIDE DEF new
  <2>5. override' \in [Channels -> Overrides] /\ OverridesWithin'
    BY <1>0, <2>3, <2>4 DEF OverridesWithin
  <2> QED
    BY <1>0, <2>2, <2>4, <2>5, CommandStep
<1>3. ASSUME NEW v \in Values, SetAllVoltage(v) PROVE SetpointInv'
  <2>1. WritesWithin
    BY <1>3, SetAllVoltageWrites
  <2>2. file' = file /\ override' = override /\ Command
    BY <1>3 DEF SetAllVoltage
  <2> QED
    BY <1>0, <2>1, <2>2, CommandStep DEF OverridesWithin
<1>4. CASE SaveSettings
  <2>1. /\ UNCHANGED <<hw, cache, override, outside>> /\ Command
        /\ file' = [ch \in Channels |-> IF CrateOf[ch] \in unknown THEN Unset ELSE cache[ch]]
    BY <1>4 DEF SaveSettings
  <2>2. WritesWithin
    BY <2>1 DEF WritesWithin, Allowed, SetpointInv, TypeOK, WithinInv
  <2>3. /\ file' \in [Channels -> Read]
        /\ \A ch \in Channels : Allowed(ch, file'[ch])
    BY <2>1 DEF SetpointInv, TypeOK, WithinInv, Allowed, Read, Unset
  <2> QED
    BY <1>0, <2>1, <2>2, <2>3, CommandStep DEF OverridesWithin
<1>5. CASE LoadSaved
  <2>1. WritesWithin
    BY <1>5, LoadSavedWrites
  <2>2. file' = file /\ override' = override /\ Command
    BY <1>5 DEF LoadSaved, LoadSettings
  <2> QED
    BY <1>0, <2>1, <2>2, CommandStep DEF OverridesWithin
<1>6. ASSUME NEW f \in Files, LoadOther(f) PROVE SetpointInv'
  <2>1. WritesWithin
    BY <1>6, LoadOtherWrites
  <2>2. file' = file /\ override' = override /\ Command
    BY <1>6 DEF LoadOther, LoadSettings
  <2> QED
    BY <1>0, <2>1, <2>2, CommandStep DEF OverridesWithin
<1>7. CASE Poll
  BY <1>7, PollStep DEF Poll
<1>8. ASSUME NEW ch \in Channels, Report(ch) PROVE SetpointInv'
  BY <1>8 DEF Report, SetpointInv, TypeOK, WithinInv, Allowed, OverridesWithin, LinkInv
<1>9. ASSUME NEW ch \in Channels, NEW v \in Values, SetByHand(ch, v) PROVE SetpointInv'
  BY <1>9, ByHandStep
<1>10. ASSUME NEW c \in Crates, Break(c) PROVE SetpointInv'
  BY <1>10 DEF Break, Event, crateVars, SetpointInv, TypeOK, WithinInv, Allowed, OverridesWithin, LinkInv
<1> QED
  BY <1>1, <1>2, <1>3, <1>4, <1>5, <1>6, <1>7, <1>8, <1>9, <1>10 DEF Next

\* Cache, file, overrides and hardware hold setpoints in every reachable state.
THEOREM SetpointTypeCorrect == Spec => []TypeOK
<1>1. SetpointInv => TypeOK
  BY DEF SetpointInv
<1> QED
  BY InitSetpoint, StepSetpoint, <1>1, PTL DEF Spec

\* Whatever is commanded, saved and loaded, whatever the crates refuse and
\* however late they report, a setpoint above the limit is one that was found,
\* set by hand or asked for in a file from elsewhere.
THEOREM LimitCorrect == Spec => []LimitHolds
<1>1. SetpointInv => LimitHolds
  BY SetpointsAssumption DEF SetpointInv, TypeOK, WithinInv, Allowed, LimitHolds
<1> QED
  BY InitSetpoint, StepSetpoint, <1>1, PTL DEF Spec

\* No command, the bulk ones included, changes a setpoint in a crate that is
\* reported as disconnected.
THEOREM ConnectedChangeCorrect == Spec => OnlyConnectedChange
<1>1. SetpointInv /\ [Next]_spVars =>
          [\A ch \in Channels : hw'[ch] # hw[ch] =>
              connected[CrateOf[ch]] \/ \E v \in Values : SetByHand(ch, v)]_spVars
  <2> SUFFICES ASSUME SetpointInv, Next, NEW ch \in Channels, hw'[ch] # hw[ch],
                      ~\E v \in Values : SetByHand(ch, v)
               PROVE  session[CrateOf[ch]]
    BY SetpointsAssumption DEF SetpointInv, LinkInv
  <2>1. WritesWithin => session[CrateOf[ch]]
    BY DEF WritesWithin
  <2>2. \A v \in Values : v \in Nat
    BY SetpointsAssumption
  <2>3. \A x \in Channels, v \in Values : SetByHand(x, v) => x = ch
    BY DEF SetByHand, SetpointInv, TypeOK
  <2>4. \/ \E v \in Values : SetAllVoltage(v) \/ \E x \in Channels : SetVoltage(x, v)
        \/ LoadSaved \/ \E f \in Files : LoadOther(f)
    BY <2>3 DEF Next, SaveSettings, Poll, FullPoll, Report, Break, crateVars
  <2> QED
    BY <2>1, <2>2, <2>4, SetVoltageWrites, SetAllVoltageWrites, LoadSavedWrites, LoadOtherWrites
<1> QED
  BY InitSetpoint, StepSetpoint, <1>1, PTL DEF Spec, OnlyConnectedChange
=============================================================================
