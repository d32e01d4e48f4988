--------------------------- MODULE MCPlanetServer ---------------------------
(***************************************************************************)
(* An instance of PlanetServer for TLC: two planets of two clients that    *)
(* die as soon as they are tested.                                         *)
(***************************************************************************)
EXTENDS PlanetServer, TLC

CONSTANTS r1, c1, c2, m1, m2

OwnNames == [r \in Request |-> r]
LifeNone == [r \in Request |-> 0]
OnlyNULL == {NULL}
Askers   == [r \in Request |-> IF r = r1 THEN c1 ELSE c2]
Apart    == {[c \in Client |-> IF c = c1 THEN m1 ELSE m2]}

Symmetry == Permutations(Thread) \cup Permutations(Node)
=============================================================================
