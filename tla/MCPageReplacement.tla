------------------------- MODULE MCPageReplacement -------------------------
(***************************************************************************)
(* Instances of PageReplacement for TLC: every reference string of the     *)
(* given length.                                                           *)
(***************************************************************************)
EXTENDS PageReplacement, TLC
=============================================================================
