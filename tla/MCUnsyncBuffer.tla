--------------------------- MODULE MCUnsyncBuffer ---------------------------
(***************************************************************************)
(* Two producers and two consumers, of the fifty of each that main starts: *)
(* enough for two of a kind to meet, for a stale store of either kind, and *)
(* for counter to drift away, upwards and downwards, without a limit.      *)
(***************************************************************************)
EXTENDS UnsyncBuffer
=============================================================================
