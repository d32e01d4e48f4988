--------------------------- MODULE MCRequestSlot ---------------------------
(***************************************************************************)
(* Instances of RequestSlot for TLC: two clients that ask for at least     *)
(* BUFFER_SIZE planets, and processes that end at any statement.           *)
(***************************************************************************)
EXTENDS RequestSlot, TLC
=============================================================================
