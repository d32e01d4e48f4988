--------------------------- MODULE MCDeathChannel ---------------------------
(***************************************************************************)
(* Instances of DeathChannel for TLC: more planets than BUFFER_SIZE, two   *)
(* clients that share the semaphores.                                      *)
(***************************************************************************)
EXTENDS DeathChannel, TLC

CONSTANTS c1, m1, m2

(* The mailslots of the clients have names of their own, or one name.      *)
Apart  == [c \in Client |-> IF c = c1 THEN m1 ELSE m2]
Same   == [c \in Client |-> m1]
Either == {Apart, Same}
=============================================================================
