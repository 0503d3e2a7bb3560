-------------------------- MODULE MCFaultTracker ---------------------------
(* FaultTracker on two channels of two crates and one board. *)
EXTENDS FaultTracker

CONSTANTS ch1, ch2, bd1, crA, crB

MCCrateOf == [x \in Channels \cup Boards |-> IF x = ch2 THEN crB ELSE crA]

\* The second channel may be given a name the first one bears or has borne.
MCNamesOf == [ch \in Channels |-> IF ch = ch1 THEN {"W1", "W1new"} ELSE {"G2", "W1new"}]

\* The overvoltage bit of W1 is to be ignored.
MCIgnored == {<<"W1", "OV">>}

Reading(bits, dvLarge) == [bits |-> bits, pw |-> "ON" \in bits, dvLarge |-> dvLarge]

\* Quiet, dV warning, (possibly ignored) overvoltage with and without a dV
\* excess, overcurrent besides it, and ramping up with a dV excess.
MCReadings ==
    {Reading({"ON"}, FALSE), Reading({"ON"}, TRUE),
     Reading({"ON", "OV"}, FALSE), Reading({"ON", "OV"}, TRUE),
     Reading({"ON", "OC", "OV"}, TRUE), Reading({"ON", "RUP"}, TRUE)}
MCBoardReadings == {{}, {"PWRF"}}
=============================================================================
