--------------------------- MODULE BufferThreads ---------------------------
(***************************************************************************)
(* What lab2/main.c and lab2/main_old.c have in common: the threads that   *)
(* main starts, and the size of the array.                                 *)
(***************************************************************************)
EXTENDS Integers, FiniteSets

CONSTANTS Producer,     \* the producer threads
          Consumer,     \* the consumer threads
          BUFFER_SIZE   \* slots of the buffer

ASSUME ThreadAssumption ==
  /\ IsFiniteSet(Producer) /\ IsFiniteSet(Consumer)
  /\ Producer \cap Consumer = {}

ASSUME SizeAssumption == BUFFER_SIZE \in Nat \ {0}

Thread == Producer \cup Consumer
=============================================================================
