---------------------------- MODULE MCCrateLink ----------------------------
(* CrateLink with two crates.  The parameter of the first is VMon, which   *)
(* the primary channel of an A1932 board lacks; that of the second is the  *)
(* status word.                                                            *)
EXTENDS CrateLink

CONSTANTS crA, crB

MCSupported == [c \in Crates |-> IF c = crA THEN Channels \ {0} ELSE Channels]
=============================================================================
