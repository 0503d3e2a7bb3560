---------------------------- MODULE MCChannelTable ----------------------------
(* Four channels in two crates; a window of three rows, one of them in view. *)
EXTENDS ChannelTable

MCChannels == 1..4
MCCrateOf == <<1, 1, 2, 2>>
MCSearches == {MCChannels, {2, 3}}
=============================================================================
