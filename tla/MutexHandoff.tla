---------------------------- MODULE MutexHandoff ----------------------------
(***************************************************************************)
(* lab1.3/intro2.c and wrapper.c: the main thread reads texts and writes   *)
(* them to the mailslot /mq3, from which the thread producer reads and     *)
(* prints them.  The mutexes l1 and l2 pass the turn: each is unlocked by  *)
(* the thread that did not lock it, which the mutexes of Linux allow.  The *)
(* mailslot outlives the process, which may be ended at any statement and  *)
(* started again, unless MQclose has unlinked it.                          *)
(***************************************************************************)
EXTENDS Integers, Sequences

CONSTANTS END,          \* the text that ends the program
          MAXMSG,       \* mq_maxmsg of the mailslot
          MaxTyped,     \* bound: texts typed
          MaxRestarts   \* bound: how often the program is started again

ASSUME HandoffAssumption ==
  MAXMSG \in Nat \ {0} /\ MaxTyped \in Nat /\ MaxRestarts \in Nat /\ END \notin Nat

(* The mailslots that have been called /mq3, in the order of their making. *)
Slot == 1 .. MaxRestarts + 2
Message == (1 .. MaxTyped) \cup {END}

VARIABLES
  l1, l2,   \* whether the mutex is locked
  mpc, msg, \* the main thread: next statement, text read from the user
  ppc,      \* producer: next statement
  typed,    \* number of texts typed so far
  slot,     \* slot[g]: what waits in mailslot number g
  mq,       \* the mailslot called /mq3, or the next one to be made
  restarts,
  left,     \* history: what waited in /mq3 when the program was started
  printed   \* history: printed[g] is what producer has read from mailslot g

mailVars == <<slot, mq, printed>>
vars == <<l1, l2, mpc, msg, ppc, typed, mailVars, restarts, left>>

(* main has locked both mutexes and created the thread.                    *)
Start ==
  /\ l1' = TRUE /\ l2' = TRUE
  /\ mpc' = "await" /\ ppc' = "create"

Init ==
  /\ l1 = TRUE /\ l2 = TRUE
  /\ mpc = "await" /\ msg = END /\ ppc = "create"
  /\ typed = 0
  /\ slot = [g \in Slot |-> << >>] /\ mq = 1
  /\ restarts = 0
  /\ left = << >>
  /\ printed = [g \in Slot |-> << >>]

-----------------------------------------------------------------------------
(* main                                                                    *)

StepM(from, to) ==
  /\ mpc = from
  /\ mpc' = to
  /\ UNCHANGED <<ppc, restarts, left>>

(* lock l1 until producer has made the mailslot, connect to it, unlock l1; *)
(* or MQconnect fails, and the program ends.                               *)
Await ==
  /\ ~l1
  /\ StepM("await", "lock") \/ StepM("await", "exited")
  /\ UNCHANGED <<l1, l2, msg, typed, mailVars>>

(* Mutant: main does not lock l1 again.                                    *)
TakeNever ==
  /\ StepM("lock", "type")
  /\ UNCHANGED <<l1, l2, msg, typed, mailVars>>

TakeL1 ==
  /\ ~l1
  /\ StepM("lock", "type")
  /\ l1' = TRUE
  /\ UNCHANGED <<l2, msg, typed, mailVars>>

Type ==
  /\ typed < MaxTyped
  /\ StepM("type", "write")
  /\ typed' = typed + 1
  /\ msg' \in {typed + 1, END}
  /\ UNCHANGED <<l1, l2, mailVars>>

(* MQwrite waits for room in the mailslot.                                 *)
Write ==
  /\ Len(slot[mq]) < MAXMSG
  /\ StepM("write", "pass")
  /\ slot' = [slot EXCEPT ![mq] = Append(@, msg)]
  /\ UNCHANGED <<l1, l2, msg, typed, mq, printed>>

PassL2 ==
  /\ StepM("pass", IF msg = END THEN "close" ELSE "lock")
  /\ l2' = FALSE
  /\ UNCHANGED <<l1, msg, typed, mailVars>>

(* MQclose unlinks the mailslot, and the program ends.                     *)
Close ==
  /\ StepM("close", "exited")
  /\ mq' = mq + 1
  /\ UNCHANGED <<l1, l2, msg, typed, slot, printed>>

-----------------------------------------------------------------------------
(* producer; it ends with the program                                      *)

StepP(from, to) ==
  /\ mpc # "exited"
  /\ ppc = from
  /\ ppc' = to
  /\ UNCHANGED <<mpc, msg, typed, restarts, left>>

(* MQcreate opens the mailslot, with what is left in it, and l1 is         *)
(* unlocked; or it fails, and the thread returns.                          *)
Create ==
  \/ StepP("create", "wait") /\ l1' = FALSE /\ UNCHANGED <<l2, mailVars>>
  \/ StepP("create", "no slot") /\ UNCHANGED <<l1, l2, mailVars>>

TakeL2 ==
  /\ ~l2
  /\ StepP("wait", "read")
  /\ l2' = TRUE
  /\ UNCHANGED <<l1, mailVars>>

(* Mutant: MQread fails, and the text read before is printed again.        *)
ReadFails ==
  /\ StepP("read", "pass")
  /\ UNCHANGED <<l1, l2, mailVars>>

(* MQread does not block; on an empty mailslot the text read before would  *)
(* be printed again.  END is not printed, and the thread returns.          *)
Read ==
  /\ StepP("read", IF slot[mq] # << >> /\ Head(slot[mq]) = END THEN "returned" ELSE "pass")
  /\ IF slot[mq] # << >>
     THEN /\ printed' = [printed EXCEPT ![mq] = Append(@, Head(slot[mq]))]
          /\ slot' = [slot EXCEPT ![mq] = Tail(@)]
     ELSE UNCHANGED <<printed, slot>>
  /\ UNCHANGED <<l1, l2, mq>>

PassL1 ==
  /\ StepP("pass", "wait")
  /\ l1' = FALSE
  /\ UNCHANGED <<l2, mailVars>>

mainGoesOn == Await \/ TakeL1 \/ Write \/ PassL2 \/ Close
main == mainGoesOn \/ Type
producer == Create \/ TakeL2 \/ Read \/ PassL1

-----------------------------------------------------------------------------
(* The program is ended, or has ended, and is started again.               *)
Restart ==
  /\ restarts < MaxRestarts
  /\ restarts' = restarts + 1
  /\ Start
  /\ left' = slot[mq]
  /\ UNCHANGED <<msg, typed, mailVars>>

Stuck ==
  \/ mpc \in {"await", "lock"} /\ l1 /\ ppc \in {"no slot", "returned"}
  \/ mpc = "write" /\ Len(slot[mq]) = MAXMSG

(* The program has ended, the user types no more, or nobody can go on.     *)
Idle ==
  /\ mpc = "exited" \/ (mpc = "type" /\ typed = MaxTyped) \/ Stuck
  /\ UNCHANGED vars

Next == main \/ producer \/ Restart \/ Idle

Spec == Init /\ [][Next]_vars

(* Both threads run; the user need not type.                               *)
FairSpec ==
  Spec /\ WF_vars(mainGoesOn) /\ WF_vars(producer)
-----------------------------------------------------------------------------
MainTurn == mpc \in {"type", "write", "pass"}
ProducerTurn == ppc \in {"read", "pass"} /\ mpc # "exited"

TypeOK ==
  /\ l1 \in BOOLEAN /\ l2 \in BOOLEAN
  /\ mpc \in {"await", "lock", "type", "write", "pass", "close", "exited"}
  /\ ppc \in {"create", "wait", "read", "pass", "no slot", "returned"}
  /\ msg \in Message
  /\ typed \in 0 .. MaxTyped
  /\ slot \in [Slot -> Seq(Message)] /\ printed \in [Slot -> Seq(Message)]
  /\ mq \in 1 .. restarts + 2
  /\ restarts \in 0 .. MaxRestarts
  /\ left \in Seq(Message)

(* There is one turn and it is somewhere: a mutex is free, or one thread   *)
(* is at work, until producer returns.  So no mutex is ever unlocked that  *)
(* is not locked.                                                          *)
OneTurn ==
  mpc # "exited" =>
    /\ MainTurn => l1 /\ l2 /\ ~ProducerTurn
    /\ ProducerTurn => l1 /\ l2 /\ ~MainTurn
    /\ l1 \/ l2
    /\ (l1 /\ l2) <=> (MainTurn \/ ProducerTurn \/ ppc \in {"create", "no slot", "returned"})

(* Each text that is written is answered by one that is read, so MQread    *)
(* always finds a text, and what waits when the program is started is      *)
(* never caught up with.  A program that                                   *)
(* finds n texts in /mq3 prints every text n texts late; one that finds    *)
(* none has printed all it was given whenever it asks for the next.        *)
LagStays ==
  mpc # "exited" =>
    Len(slot[mq]) = Len(left) + (IF mpc = "pass" \/ ~l2 \/ ppc = "read" THEN 1 ELSE 0)

(* Nothing stops the program but what an earlier one left in /mq3, or that *)
(* it could not be made.                                                   *)
OnlyLeftoversStop ==
  Stuck => ppc = "no slot" \/ Len(left) = MAXMSG \/ \E k \in DOMAIN left : left[k] = END

(* Every text that is typed into a program that found nothing in /mq3 is   *)
(* printed, unless the program is ended first: the threads hand the turn   *)
(* to each other for ever.                                                 *)
TextsPrinted ==
  \A k \in 1 .. MaxTyped, r \in 0 .. MaxRestarts :
    (mpc = "write" /\ msg = k /\ restarts = r /\ left = << >>)
      ~> (restarts > r \/ \E g \in DOMAIN printed : \E n \in DOMAIN printed[g] : printed[g][n] = k)
=============================================================================
