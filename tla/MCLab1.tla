------------------------------- MODULE MCLab1 -------------------------------
(***************************************************************************)
(* An instance for TLC of the programs of lab1, lab1.2 and lab1.3 that do  *)
(* something: one of them is started, and the others stay as they are.     *)
(***************************************************************************)
EXTENDS HelloThreads, SendUnderLock, MutexHandoff

VARIABLE program  \* the one that is started

lab1Vars == <<helloVars, sendVars, vars, program>>

Lab1Init ==
  /\ program \in {"intro.c", "lab1.2/intro2.c", "lab1.3/intro2.c"}
  /\ HelloInit
  /\ edition = "none" <=> program # "intro.c"
  /\ SendInit
  /\ Init

Intro == program = "intro.c" /\ HelloNext /\ UNCHANGED <<sendVars, vars>>
Intro2Of12 == program = "lab1.2/intro2.c" /\ SendNext /\ UNCHANGED <<helloVars, vars>>
Intro2Of13 == program = "lab1.3/intro2.c" /\ Next /\ UNCHANGED <<helloVars, sendVars>>

Lab1Next == (Intro \/ Intro2Of12 \/ Intro2Of13) /\ UNCHANGED program

(* As in HelloSpec and in the FairSpec of MutexHandoff, for the program    *)
(* that is started.                                                        *)
Lab1Spec ==
  /\ Lab1Init /\ [][Lab1Next]_lab1Vars
  /\ WF_helloVars(hello(World)) /\ WF_helloVars(hello(Moon))
  /\ WF_vars(program = "lab1.3/intro2.c" /\ mainGoesOn)
  /\ WF_vars(program = "lab1.3/intro2.c" /\ producer)
=============================================================================
