---------------------------- MODULE MCSetpoints ----------------------------
(* Setpoints on two channels.  Values reach above every limit; the crate of *)
(* the second channel refuses what its limit still allows.                  *)
EXTENDS Setpoints

CONSTANTS ch1, ch2, crA, crB

MCCrateOf == [ch \in Channels |-> IF ch = ch1 THEN crA ELSE crB]
MCLimit   == [ch \in Channels |-> 2]
MCHardMax == [ch \in Channels |-> IF ch = ch1 THEN 3 ELSE 1]
=============================================================================
