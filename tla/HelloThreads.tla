---------------------------- MODULE HelloThreads ----------------------------
(***************************************************************************)
(* lab1.2/intro.c (lab1.3/intro.c is the same file) and lab1/intro.c: two  *)
(* threads that print blocks of lines under a mutex.  In lab1.2 each waits *)
(* for its turn in a busy loop, outside the mutex; turn is an int that     *)
(* both threads access without any synchronisation, and the builds, which  *)
(* do not optimise, load it in every round.  In lab1 there is no turn.     *)
(***************************************************************************)
EXTENDS Naturals

CONSTANTS World, Moon,  \* the two threads; in lab1 World is main
          Lines,        \* lines of a block
          Edition,      \* the editions that may run, "none" if neither does
          Free          \* the mutex has no owner

ASSUME HelloAssumption ==
  /\ World # Moon /\ Free \notin {World, Moon}
  /\ Lines \in Nat \ {0}
  /\ Edition \subseteq {"lab1", "lab1.2", "none"}

VARIABLES edition, turn, mymutex,
          pc, k,  \* of each thread: next statement, lines printed of the block
          shown   \* the thread and number of the line printed last

helloVars == <<edition, turn, mymutex, pc, k, shown>>

HelloThread == {World, Moon}
Other(t) == IF t = World THEN Moon ELSE World

(* A block has Lines lines, and before the first one it is World's turn.   *)
HelloInit ==
  /\ edition \in Edition
  /\ turn = World
  /\ mymutex = Free
  /\ pc = [t \in HelloThread |-> IF edition = "lab1.2" THEN "test" ELSE "lock"]
  /\ k = [t \in HelloThread |-> 0]
  /\ shown = <<Moon, Lines>>

HelloStep(t, from, to) ==
  /\ pc[t] = from
  /\ pc' = [pc EXCEPT ![t] = to]
  /\ UNCHANGED edition

(* if(turn == 1), or 0 for hello_moon                                      *)
Test(t) ==
  /\ HelloStep(t, "test", IF turn = t THEN "lock" ELSE "test")
  /\ UNCHANGED <<turn, mymutex, k, shown>>

(* Mutant: no mutex.                                                       *)
LockNever(t) ==
  /\ HelloStep(t, "lock", "print")
  /\ mymutex' = t
  /\ UNCHANGED <<turn, k, shown>>

Lock(t) ==
  /\ mymutex = Free
  /\ HelloStep(t, "lock", "print")
  /\ mymutex' = t
  /\ UNCHANGED <<turn, k, shown>>

(* One round of the loop that prints.                                      *)
PrintLine(t) ==
  /\ k[t] < Lines
  /\ HelloStep(t, "print", "print")
  /\ k' = [k EXCEPT ![t] = @ + 1]
  /\ shown' = <<t, k[t] + 1>>
  /\ UNCHANGED <<turn, mymutex>>

Unlock(t) ==
  /\ k[t] = Lines
  /\ HelloStep(t, "print", IF edition = "lab1.2" THEN "turn" ELSE "lock")
  /\ k' = [k EXCEPT ![t] = 0]
  /\ mymutex' = Free
  /\ UNCHANGED <<turn, shown>>

(* The turn is given away when the mutex is free again.                    *)
PassTurn(t) ==
  /\ HelloStep(t, "turn", "test")
  /\ turn' = Other(t)
  /\ UNCHANGED <<mymutex, k, shown>>

(* hello_world and hello_moon of lab1.2                                    *)
helloOf12(t) == Test(t) \/ PassTurn(t)

(* main and hellomoon of lab1, and the same lines of the others            *)
helloOf1(t) == Lock(t) \/ PrintLine(t) \/ Unlock(t)

hello(t) == edition # "none" /\ (helloOf12(t) \/ helloOf1(t))

HelloNext == \E t \in HelloThread : hello(t)

(* Both threads are scheduled.  Nothing makes the mutex of lab1 fair.      *)
HelloFairness == \A t \in HelloThread : WF_helloVars(hello(t))

HelloSpec == HelloInit /\ [][HelloNext]_helloVars /\ HelloFairness
-----------------------------------------------------------------------------
HelloTypeOK ==
  /\ edition \in Edition
  /\ turn \in HelloThread
  /\ mymutex \in HelloThread \cup {Free}
  /\ pc \in [HelloThread -> {"test", "lock", "print", "turn"}]
  /\ k \in [HelloThread -> 0 .. Lines]
  /\ shown \in HelloThread \X (1 .. Lines)

Output == INSTANCE HelloOutput

(* Both programs print whole blocks for ever, one thread after the other   *)
(* in lab1.2, although turn is tested and passed outside the mutex.        *)
PrintsInTurn == Output!Spec
=============================================================================
