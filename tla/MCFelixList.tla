---------------------------- MODULE MCFelixList ----------------------------
(***************************************************************************)
(* An instance of FelixList for TLC: one planet that has life and so stays *)
(* for ever, one that has none and is removed as soon as it is added, and  *)
(* twins of either made by the shared createPlanetArg.                     *)
(***************************************************************************)
EXTENDS FelixList, TLC

CONSTANT r1

OwnNames == [r \in Request |-> r]
LifeOne  == [r \in Request |-> IF r = r1 THEN 1 ELSE 0]
AnyBits  == {NULL, Wild}

Symmetry == Permutations(Thread) \cup Permutations(Node)
=============================================================================
