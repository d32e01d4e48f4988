--------------------------- MODULE MCBoundedBuffer ---------------------------
(***************************************************************************)
(* Instances of BoundedBuffer for TLC.  Two producers race for count and   *)
(* for the last slot, two consumers for the last item.                     *)
(***************************************************************************)
EXTENDS BoundedBuffer, TLC
=============================================================================
