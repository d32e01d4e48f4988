---------------------------- MODULE MCPlanetList ----------------------------
(***************************************************************************)
(* Instances of PlanetList for TLC.  Two planets are enough for one to be  *)
(* freed while the other looks at it, for the address of one to be used    *)
(* again, and for a twin of the same name made by the shared               *)
(* createPlanetArg.                                                        *)
(***************************************************************************)
EXTENDS PlanetList, TLC

CONSTANTS r1, r2

OwnNames == [r \in Request |-> r]

(* One planet that lives for two rounds and one that is dead at its start. *)
LifeTwo  == [r \in Request |-> IF r = r1 THEN 2 ELSE 0]

OnlyNULL == {NULL}
AnyBits  == {NULL, Wild}

Symmetry == Permutations(Thread) \cup Permutations(Node)
=============================================================================
