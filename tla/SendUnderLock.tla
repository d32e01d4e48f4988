---------------------------- MODULE SendUnderLock ----------------------------
(***************************************************************************)
(* lab1.2/intro2.c: main sends what the user types to the mailslot /mq,    *)
(* from which the thread producer receives and prints it, and both hold    *)
(* the one lock while they do.  mq_send waits when the mailslot is full,   *)
(* mq_receive does not when it is empty.  The mailslot outlives a process  *)
(* that is ended before it unlinks it.                                     *)
(***************************************************************************)
EXTENDS Integers, Sequences

CONSTANTS mq_maxmsg,   \* capacity of the mailslot
          MaxTexts,    \* bound: texts typed at each process
          MaxRuns,     \* bound: how often the program is started
          Nobody       \* the lock has no owner

ASSUME SendAssumption ==
  /\ mq_maxmsg \in Nat \ {0} /\ MaxTexts \in Nat /\ MaxRuns \in Nat \ {0}
  /\ Nobody \notin {"main", "producer"}

(* A message is the process that sent it and whether it is END.            *)
Text == [run : 1 .. MaxRuns, end : BOOLEAN]

VARIABLES
  lock,       \* "main", "producer" or Nobody
  at, input,  \* main: next statement; the text it has read is END
  producerAt, \* producer: next statement
  named,      \* whether there is a mailslot called /mq
  mailslot,   \* what waits in it, or in the one that was unlinked last
  open,       \* whether mq_open has succeeded in main
  texts,      \* number of texts typed at this process
  run,        \* which process this is
  stopped,    \* history: the END that producer has received, if any
  unlinked    \* history: whether the process before this one unlinked /mq

sendVars == <<lock, at, input, producerAt, named, mailslot, open, texts, run,
              stopped, unlinked>>

(* pthread_mutex_init and pthread_create.                                  *)
Started ==
  /\ lock' = Nobody
  /\ at' = "open" /\ producerAt' = "create"
  /\ input' = FALSE /\ open' = FALSE /\ texts' = 0
  /\ stopped' = {}

SendInit ==
  /\ lock = Nobody
  /\ at = "open" /\ producerAt = "create"
  /\ input = FALSE /\ open = FALSE /\ texts = 0
  /\ stopped = {}
  /\ named = FALSE /\ mailslot = << >>
  /\ run = 1 /\ unlinked = TRUE

-----------------------------------------------------------------------------
(* main                                                                    *)

MainStep(from, to) ==
  /\ at = from
  /\ at' = to
  /\ UNCHANGED <<producerAt, run, stopped>>

(* sleep(1) need not be long enough for producer: mq_open without O_CREAT  *)
(* fails then, which nothing tests.                                        *)
Open ==
  /\ MainStep("open", "lock")
  /\ open' = named
  /\ UNCHANGED <<lock, input, named, mailslot, texts, unlinked>>

LockM ==
  /\ lock = Nobody
  /\ MainStep("lock", "scan")
  /\ lock' = "main"
  /\ UNCHANGED <<input, named, mailslot, open, texts, unlinked>>

(* scanf waits for the user with the lock held.                            *)
Scan ==
  /\ texts < MaxTexts
  /\ MainStep("scan", "send")
  /\ texts' = texts + 1
  /\ input' \in BOOLEAN
  /\ UNCHANGED <<lock, named, mailslot, open, unlinked>>

(* mq_send waits for room, or returns at once if mq_open has failed.       *)
Send ==
  /\ open => Len(mailslot) < mq_maxmsg
  /\ MainStep("send", "unlock")
  /\ mailslot' = IF open THEN Append(mailslot, [run |-> run, end |-> input]) ELSE mailslot
  /\ UNCHANGED <<lock, input, named, open, texts, unlinked>>

UnlockM ==
  /\ MainStep("unlock", IF input THEN "unlink" ELSE "lock")
  /\ lock' = Nobody
  /\ UNCHANGED <<input, named, mailslot, open, texts, unlinked>>

(* Mutant: the mailslot is closed and not unlinked.                        *)
CloseOnly ==
  /\ MainStep("unlink", "return")
  /\ UNCHANGED <<lock, input, named, mailslot, open, texts, unlinked>>

(* After END: mq_close, mq_unlink.                                         *)
Unlink ==
  /\ MainStep("unlink", "return")
  /\ named' = FALSE
  /\ UNCHANGED <<lock, input, mailslot, open, texts, unlinked>>

sendMain == Open \/ LockM \/ Scan \/ Send \/ UnlockM \/ Unlink

-----------------------------------------------------------------------------
(* producer                                                                *)

ProducerStep(from, to) ==
  /\ producerAt = from
  /\ producerAt' = to
  /\ UNCHANGED <<at, input, open, texts, run, unlinked>>

(* mq_open with O_CREAT: the mailslot that is there, or a new one.  It is  *)
(* assumed to succeed.                                                     *)
CreateP ==
  /\ ProducerStep("create", "lock")
  /\ named' = TRUE
  /\ mailslot' = IF named THEN mailslot ELSE << >>
  /\ UNCHANGED <<lock, stopped>>

LockP ==
  /\ lock = Nobody
  /\ ProducerStep("lock", "receive")
  /\ lock' = "producer"
  /\ UNCHANGED <<named, mailslot, stopped>>

(* Mutant: an empty mailslot is tried again without unlocking first.       *)
ReceiveOrKeep ==
  /\ ProducerStep("receive", IF mailslot = << >> THEN "lock"
                              ELSE IF Head(mailslot).end THEN "gone" ELSE "unlock")
  /\ mailslot' = IF mailslot = << >> THEN mailslot ELSE Tail(mailslot)
  /\ stopped' = IF mailslot # << >> /\ Head(mailslot).end THEN {Head(mailslot)} ELSE stopped
  /\ UNCHANGED <<lock, named>>

(* mq_receive.  After END producer returns, and has not unlocked.          *)
Receive ==
  /\ ProducerStep("receive", IF mailslot # << >> /\ Head(mailslot).end THEN "gone" ELSE "unlock")
  /\ mailslot' = IF mailslot = << >> THEN mailslot ELSE Tail(mailslot)
  /\ stopped' = IF mailslot # << >> /\ Head(mailslot).end THEN {Head(mailslot)} ELSE stopped
  /\ UNCHANGED <<lock, named>>

UnlockP ==
  /\ ProducerStep("unlock", "lock")
  /\ lock' = Nobody
  /\ UNCHANGED <<named, mailslot, stopped>>

sendProducer == CreateP \/ LockP \/ Receive \/ UnlockP

-----------------------------------------------------------------------------
(* The process is ended, by the return of main or at any other statement,  *)
(* and is started again.  A mailslot without a name is gone with it.       *)
StartAgain ==
  /\ run < MaxRuns
  /\ run' = run + 1
  /\ Started
  /\ named' = named
  /\ mailslot' = IF named THEN mailslot ELSE << >>
  /\ unlinked' = (at = "return")

(* The user types no more, the program has returned, or it is stuck.       *)
MainWaits == \/ at = "scan" /\ texts = MaxTexts
             \/ at = "lock" /\ lock # Nobody
             \/ at = "send" /\ open /\ Len(mailslot) >= mq_maxmsg
ProducerWaits == producerAt = "gone" \/ (producerAt = "lock" /\ lock # Nobody)

SendIdle ==
  /\ run = MaxRuns /\ ProducerWaits
  /\ at = "return" \/ MainWaits
  /\ UNCHANGED sendVars

SendNext == sendMain \/ sendProducer \/ StartAgain \/ SendIdle

SendSpec == SendInit /\ [][SendNext]_sendVars
-----------------------------------------------------------------------------
SendTypeOK ==
  /\ lock \in {"main", "producer", Nobody}
  /\ at \in {"open", "lock", "scan", "send", "unlock", "unlink", "return"}
  /\ producerAt \in {"create", "lock", "receive", "unlock", "gone"}
  /\ input \in BOOLEAN /\ named \in BOOLEAN /\ open \in BOOLEAN /\ unlinked \in BOOLEAN
  /\ mailslot \in Seq(Text) /\ Len(mailslot) <= mq_maxmsg
  /\ texts \in 0 .. MaxTexts /\ run \in 1 .. MaxRuns
  /\ stopped \in SUBSET Text

(* main and producer wait for each other only when main has filled the     *)
(* mailslot and waits in mq_send with the lock held, or when producer has  *)
(* returned with the lock because of an END that an earlier process sent:  *)
(* an END of its own never stops a program before it has unlinked /mq.     *)
OnlyFullOrLeftoverStops ==
  lock # Nobody /\ at \in {"lock", "send"} /\ MainWaits /\ ProducerWaits =>
    \/ at = "send" /\ lock = "main" /\ Len(mailslot) = mq_maxmsg
    \/ producerAt = "gone" /\ lock = "producer" /\ \E m \in stopped : m.run < run

(* A program that ends with END leaves no text to the next one, whatever   *)
(* earlier ones had left and however far producer has got.                 *)
CleanEnd == unlinked => \A i \in DOMAIN mailslot : mailslot[i].run = run
=============================================================================
