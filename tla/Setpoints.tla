----------------------------- MODULE Setpoints -----------------------------
(***************************************************************************)
(* The voltage setpoints (V0Set) as the HV poll thread handles them: the   *)
(* commands that write them, its cache of what the hardware reports, and   *)
(* the pending overrides that hide the time a crate takes to report a new  *)
(* setpoint.  Commands are drained between polls by the same thread, so    *)
(* each is one step, and so is a full poll.                                *)
(*                                                                         *)
(* set_current and set_svmax take the path of set_voltage without a limit. *)
(* Two setpoints are the same when they differ by less than 0.01 V: values *)
(* are small integers here.  As in CrateLink, a crate stands for one board *)
(* and calls fail when the link breaks; V0Set is a parameter of all        *)
(* channels, so a failed bulk read leaves an empty list of those to read.  *)
(***************************************************************************)
EXTENDS Integers, FiniteSets

CONSTANTS
    Crates, Channels,
    CrateOf,        \* the crate of each channel
    Values,         \* setpoints of commands, of files, and set by hand
    Limit,          \* software limit of each channel (CAEN_VoltageLimit)
    HardMax,        \* the crate refuses to set a channel above this
    OverrideTTL,    \* OVERRIDE_TTL, full polls an override may last
    MaxEvents       \* bound: commands, lost links, setpoints changed by hand

ASSUME SetpointsAssumption ==
    /\ CrateOf \in [Channels -> Crates]
    /\ Values \subseteq Nat
    /\ Limit \in [Channels -> Nat] /\ HardMax \in [Channels -> Nat]
    /\ OverrideTTL \in Nat \ {0}
    /\ MaxEvents \in Nat

VARIABLES
    hw,         \* setpoints in the crates
    readback,   \* setpoints the crates report, for a while the old ones
    cache,      \* params_["V0Set"], what snapshots and files are built from
    unread,     \* crates whose setpoints polls do not read: the list is empty,
                \* or V0Set was not discovered
    unknown,    \* crates where V0Set, or that it is writable, was not discovered
    override,   \* pending_overrides_; ttl 0: there is none
    session,    \* the crate's library session works
    connected,  \* crate_reconnect_[c].connected, as of the last full poll
    file,       \* settings file saved last
    outside,    \* history: setpoints found at the start, set by hand, or asked
                \* for by files the daemon has not written
    events

crateVars == <<hw, readback, outside>>
pollVars == <<readback, unread, unknown, session, connected>>
spVars == <<hw, readback, cache, unread, unknown, override, session, connected,
            file, outside, events>>

MinOf(a, b) == IF a < b THEN a ELSE b

NoOverride == [value |-> 0, ttl |-> 0]

\* NAN: the parameter has never been read.
Unset == -1

\* The boards have been found.  After that the link to some crates broke, during
\* the discovery of parameters (unknown) or the first reading.
Init ==
    /\ hw \in [Channels -> Values] /\ readback = hw
    /\ unread \in SUBSET Crates /\ unknown \in SUBSET unread
    /\ cache = [ch \in Channels |-> IF CrateOf[ch] \in unread THEN Unset ELSE hw[ch]]
    /\ file = [ch \in Channels |-> Unset]
    /\ outside = [ch \in Channels |-> {hw[ch]}]
    /\ override = [ch \in Channels |-> NoOverride]
    /\ session = [c \in Crates |-> c \notin unread] /\ connected = [c \in Crates |-> TRUE]
    /\ events = 0

-----------------------------------------------------------------------------
\* SetFloat on the channels of writes, a function to the values written: the
\* crate takes or refuses each, and the cache follows what was taken.
Taken(writes) ==
    {ch \in DOMAIN writes : session[CrateOf[ch]] /\ writes[ch] <= HardMax[ch]}

SetFloats(writes) ==
    LET taken == Taken(writes)
    IN  /\ hw'    = [ch \in Channels |-> IF ch \in taken THEN writes[ch] ELSE hw[ch]]
        /\ cache' = [ch \in Channels |-> IF ch \in taken THEN writes[ch] ELSE cache[ch]]

\* CAEN_Channel::SetVoltage enforces the limit.
Clamped(ch, v) == MinOf(v, Limit[ch])

Event == events < MaxEvents /\ events' = events + 1
Command == Event /\ UNCHANGED pollVars

\* Mutant: the override shows the value asked for.
SetVoltageShownAsAsked(ch, v) ==
    /\ connected[CrateOf[ch]]
    /\ SetFloats([x \in {ch} |-> Clamped(x, v)])
    /\ override' = [override EXCEPT ![ch] = [value |-> v, ttl |-> OverrideTTL]]
    /\ Command /\ UNCHANGED <<file, outside>>

\* set_voltage and set_voltage_by_name.  The override is added whether or not
\* the write succeeded.
SetVoltage(ch, v) ==
    /\ connected[CrateOf[ch]]
    /\ SetFloats([x \in {ch} |-> Clamped(x, v)])
    /\ override' = [override EXCEPT ![ch] = [value |-> Clamped(ch, v), ttl |-> OverrideTTL]]
    /\ Command /\ UNCHANGED <<file, outside>>

\* set_all_voltage, on every crate, connected or not.
SetAllVoltage(v) ==
    /\ SetFloats([ch \in {x \in Channels : cache[x] # v} |-> Clamped(ch, v)])
    /\ Command /\ UNCHANGED <<override, file, outside>>

\* buildSettingsSnapshot and saveSettingsFile
SaveSettings ==
    /\ file' = [ch \in Channels |-> IF CrateOf[ch] \in unknown THEN Unset ELSE cache[ch]]
    /\ Command /\ UNCHANGED <<hw, cache, override, outside>>

\* The setpoints of a file that differ from the cache.
Changes(f) ==
    {ch \in Channels : CrateOf[ch] \notin unknown /\ f[ch] \notin {Unset, cache[ch]}}

\* loadSettings writes with SetFloat, not with SetVoltage.
LoadSettings(f) ==
    /\ SetFloats([ch \in Changes(f) |-> f[ch]])
    /\ Command /\ UNCHANGED <<override, file>>

\* The file saved last comes back.
LoadSaved == LoadSettings(file) /\ UNCHANGED outside

\* A page may send any other settings, written by hand, by another daemon or
\* under other limits.
Files == [Channels -> Values \cup {Unset}]

LoadOther(f) ==
    /\ LoadSettings(f)
    /\ outside' = [ch \in Channels |-> outside[ch] \cup ({f[ch]} \ {Unset})]

-----------------------------------------------------------------------------
\* applyPendingOverrides, on the cache that doPoll has read.
Converged(ch, read) == read[ch] = override[ch].value
Survives(ch, read)  == override[ch].ttl > 1 /\ ~Converged(ch, read)

\* Mutant: an override does not age.
ApplyAgelessOverrides(read) ==
    /\ override' = [ch \in Channels |-> IF Survives(ch, read) THEN override[ch] ELSE NoOverride]
    /\ cache' = [ch \in Channels |->
           IF Survives(ch, read) THEN override[ch].value ELSE read[ch]]

ApplyPendingOverrides(read) ==
    /\ override' = [ch \in Channels |->
           IF Survives(ch, read) THEN [override[ch] EXCEPT !.ttl = @ - 1] ELSE NoOverride]
    /\ cache' = [ch \in Channels |->
           IF Survives(ch, read) THEN override[ch].value ELSE read[ch]]

\* The reading of doPoll, with the overrides on top.  The links to the crates in
\* failed break at the bulk read, and the probes of their channels fail as well.
ReadAllParams(failed) ==
    /\ unread' = unread \cup failed
    /\ ApplyPendingOverrides([ch \in Channels |->
           IF connected'[CrateOf[ch]] /\ CrateOf[ch] \notin unread'
           THEN readback[ch] ELSE cache[ch]])

\* Mutant: a crate that is back is not marked connected.
FullPollUnmarked(back, failed) ==
    /\ session' = [c \in Crates |-> c \notin failed /\ (session[c] \/ c \in back)]
    /\ connected' = [c \in Crates |-> connected[c] /\ session[c]]
    /\ \A c \in failed : connected'[c]
    /\ ReadAllParams(failed)
    /\ IF failed = {} THEN UNCHANGED events ELSE Event
    /\ UNCHANGED <<crateVars, unknown, file>>

\* A full cycle: lost crates are noticed, those in back get connected again,
\* the connected ones are read, and the overrides are applied.
FullPoll(back, failed) ==
    /\ session' = [c \in Crates |-> c \notin failed /\ (session[c] \/ c \in back)]
    /\ connected' = [c \in Crates |-> IF connected[c] THEN session[c] ELSE c \in back]
    /\ \A c \in failed : connected'[c]
    /\ ReadAllParams(failed)
    /\ IF failed = {} THEN UNCHANGED events ELSE Event
    /\ UNCHANGED <<crateVars, unknown, file>>

Poll ==
    \E back \in SUBSET {c \in Crates : ~connected[c]}, failed \in SUBSET (Crates \ unread) :
        FullPoll(back, failed)

\* The crate gets round to reporting its setpoint.
Report(ch) ==
    /\ readback[ch] # hw[ch]
    /\ readback' = [readback EXCEPT ![ch] = hw[ch]]
    /\ UNCHANGED <<hw, outside, cache, unread, unknown, override, session, connected,
                   file, events>>

Break(c) ==
    /\ session[c] /\ session' = [session EXCEPT ![c] = FALSE]
    /\ Event
    /\ UNCHANGED <<crateVars, cache, unread, unknown, override, connected, file>>

\* Somebody at the crate's front panel, or another program.
SetByHand(ch, v) ==
    /\ hw' = [hw EXCEPT ![ch] = v]
    /\ outside' = [outside EXCEPT ![ch] = @ \cup {v}]
    /\ Event
    /\ UNCHANGED <<readback, cache, unread, unknown, override, session, connected, file>>

Next ==
    \/ \E v \in Values : SetAllVoltage(v) \/ \E ch \in Channels : SetVoltage(ch, v)
    \/ SaveSettings \/ LoadSaved \/ \E f \in Files : LoadOther(f)
    \/ Poll
    \/ \E ch \in Channels : Report(ch) \/ \E v \in Values : SetByHand(ch, v)
    \/ \E c \in Crates : Break(c)

\* The poll thread keeps polling and a crate does report what was set in it.
Spec ==
    /\ Init /\ [][Next]_spVars
    /\ WF_spVars(Poll) /\ \A ch \in Channels : WF_spVars(Report(ch))

-----------------------------------------------------------------------------
Overrides == [value : Nat, ttl : 0..OverrideTTL]
Read == Nat \cup {Unset}

\* Setpoints are numbers, and an override has some polls left or none.
TypeOK ==
    /\ hw \in [Channels -> Nat] /\ readback \in [Channels -> Nat]
    /\ cache \in [Channels -> Read] /\ file \in [Channels -> Read]
    /\ unread \in SUBSET Crates /\ unknown \in SUBSET Crates
    /\ override \in [Channels -> Overrides]
    /\ session \in [Crates -> BOOLEAN] /\ connected \in [Crates -> BOOLEAN]
    /\ outside \in [Channels -> SUBSET Nat]
    /\ events \in Nat

\* CAEN_Channel: "SetVoltage (with limit enforcement)".  loadSettings does not
\* look at the limit, and files are saved from a cache that overrides write to.
\* Yet a setpoint above the limit is never one the daemon made: it was found at
\* the start, set at the crate, or asked for in a file written elsewhere.  (Such
\* a file does get past the limit.)
LimitHolds == \A ch \in Channels : hw[ch] > Limit[ch] => hw[ch] \in outside[ch]

\* What is displayed and saved is the setpoint the hardware has, once crate
\* and commands have been left alone for a while: no override outlives its
\* purpose, not that of a refused command either.  (Unless the link broke when
\* the setpoints were to be read for the first time or without a list: those of
\* such a crate are not read any more.)
CacheConverges ==
    \A ch \in Channels :
        <>[](connected[CrateOf[ch]] /\ CrateOf[ch] \notin unread)
            => <>[](cache[ch] = hw[ch])

\* dispatchCommand: "skip commands targeting a disconnected crate".  The bulk
\* commands name no crate and pass that guard; yet the daemon changes no
\* setpoint in a crate it reports as disconnected, because such a crate never
\* has a working session.
OnlyConnectedChange ==
    [][\A ch \in Channels : hw'[ch] # hw[ch] =>
          connected[CrateOf[ch]] \/ \E v \in Values : SetByHand(ch, v)]_spVars
=============================================================================
