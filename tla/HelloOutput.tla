----------------------------- MODULE HelloOutput -----------------------------
(***************************************************************************)
(* What the hello programs promise to print: blocks of Lines lines, never  *)
(* mixed; in lab1.2 the blocks of the two threads in turn, World first,    *)
(* and in lab1 blocks of either; for ever.                                 *)
(***************************************************************************)
EXTENDS Naturals

CONSTANTS World, Moon, Lines

VARIABLES edition,  \* which intro.c runs
          shown     \* the thread and number of the line printed last

outputVars == <<edition, shown>>

Other(t) == IF t = World THEN Moon ELSE World

Init == /\ edition \in {"lab1", "lab1.2", "none"}
        /\ shown = <<Moon, Lines>>

NextLine == /\ shown[2] < Lines
            /\ shown' = <<shown[1], shown[2] + 1>>

NextBlock == /\ shown[2] = Lines
             /\ \E t \in {World, Moon} :
                  /\ edition = "lab1.2" => t = Other(shown[1])
                  /\ shown' = <<t, 1>>

Next == edition # "none" /\ (NextLine \/ NextBlock) /\ UNCHANGED edition

(* Nothing else is printed, and printing never ends.                       *)
Safety == Init /\ [][Next]_outputVars

Spec == Safety /\ WF_outputVars(Next)
=============================================================================
