---------------------------- MODULE DeathChannel ----------------------------
(***************************************************************************)
(* lab3: how a dying planet tells the client that created it.  The planet  *)
(* thread (server.c) and the death_server thread of every client           *)
(* (client.c) use one mailslot per client, but the three named semaphores  *)
(* semempty23, semfull23 and semmutex23 are the same for all clients.  The *)
(* name of a mailslot is a thread id cut to an int, so that two clients    *)
(* may happen to share one.                                                *)
(* The planets and death servers are started after the semaphores exist;   *)
(* a client whose mailslot cannot be created has no death server, and a    *)
(* planet may connect before its client's mailslot is created.             *)
(***************************************************************************)
EXTENDS Integers, FiniteSets, Sequences

CONSTANTS Thread,       \* planet threads
          Client,       \* client processes
          Mailslot,     \* names of mailslots
          Names,        \* the names that the clients may happen to have
          Closed,       \* a descriptor that mq_open could not open
          BUFFER_SIZE,  \* initial value of semempty23
          MAXMSG        \* mq_maxmsg of a mailslot

ASSUME ChannelAssumption ==
  /\ IsFiniteSet(Thread) /\ IsFiniteSet(Client)
  /\ Thread \cap Client = {}
  /\ Closed \notin Mailslot
  /\ Names \subseteq [Client -> Mailslot]
  /\ BUFFER_SIZE \in Nat \ {0}
  /\ MAXMSG \in Nat /\ BUFFER_SIZE <= MAXMSG

VARIABLES
  semEmpty2, semFull2, semMutex2,
  pid,        \* the name of each client's mailslot
  slot,       \* slot[m]: the deaths waiting in the mailslot named m
  read,       \* read[m]: the deaths that were read from it, in order
  rpc,        \* next statement of a planet thread
  mq1,        \* the mailslot that a planet thread has open, or Closed
  dpc,        \* next statement of a death server
  told        \* told[c]: the deaths that client c has printed

heard == <<pid, read, told>>
channelVars == <<semEmpty2, semFull2, semMutex2, slot, rpc, mq1, dpc, heard>>

Init ==
  /\ semEmpty2 = BUFFER_SIZE /\ semFull2 = 0 /\ semMutex2 = 1
  /\ pid \in Names
  /\ slot = [m \in Mailslot |-> << >>] /\ read = [m \in Mailslot |-> << >>]
  /\ rpc = [t \in Thread |-> "connect"]
  /\ mq1 = [t \in Thread |-> Closed]
  /\ dpc = [c \in Client |-> "create"]
  /\ told = [c \in Client |-> {}]

StepR(t, from, to) ==
  /\ rpc[t] = from
  /\ rpc' = [rpc EXCEPT ![t] = to]

StepD(c, from, to) ==
  /\ dpc[c] = from
  /\ dpc' = [dpc EXCEPT ![c] = to]

-----------------------------------------------------------------------------
(* Planet thread                                                           *)

(* Some client has made the mailslot m.                                    *)
Made(m) == \E c \in Client : pid[c] = m /\ dpc[c] \notin {"create", "no slot"}

(* MQconnect opens the mailslot of client c, if it exists by now.          *)
Connect(t, c) ==
  /\ StepR(t, "connect", "alive")
  /\ mq1' = [mq1 EXCEPT ![t] = IF Made(pid[c]) THEN pid[c] ELSE Closed]
  /\ UNCHANGED <<semEmpty2, semFull2, semMutex2, slot, dpc, heard>>

(* The planet is dead: fill in dInfo.                                      *)
Begin(t) ==
  /\ StepR(t, "alive", "wait empty")
  /\ UNCHANGED <<semEmpty2, semFull2, semMutex2, slot, mq1, dpc, heard>>

WaitEmpty2(t) ==
  /\ semEmpty2 > 0
  /\ StepR(t, "wait empty", "wait mutex")
  /\ semEmpty2' = semEmpty2 - 1
  /\ UNCHANGED <<semFull2, semMutex2, slot, mq1, dpc, heard>>

WaitMutex2(t) ==
  /\ semMutex2 > 0
  /\ StepR(t, "wait mutex", "write")
  /\ semMutex2' = semMutex2 - 1
  /\ UNCHANGED <<semEmpty2, semFull2, slot, mq1, dpc, heard>>

(* Mutant: a mailslot one message too small.                               *)
WriteOneLess(t) ==
  /\ StepR(t, "write", "post mutex")
  /\ slot' = IF mq1[t] # Closed /\ Len(slot[mq1[t]]) < MAXMSG - 1
             THEN [slot EXCEPT ![mq1[t]] = Append(@, t)]
             ELSE slot
  /\ UNCHANGED <<semEmpty2, semFull2, semMutex2, mq1, dpc, heard>>

(* MQwrite does not block: on a full mailslot, or on a descriptor that     *)
(* MQconnect could not open, it returns 0 and the report is dropped.       *)
Write(t) ==
  /\ StepR(t, "write", "post mutex")
  /\ slot' = IF mq1[t] # Closed /\ Len(slot[mq1[t]]) < MAXMSG
             THEN [slot EXCEPT ![mq1[t]] = Append(@, t)]
             ELSE slot
  /\ UNCHANGED <<semEmpty2, semFull2, semMutex2, mq1, dpc, heard>>

PostMutex2(t) ==
  /\ StepR(t, "post mutex", "post full")
  /\ semMutex2' = semMutex2 + 1
  /\ UNCHANGED <<semEmpty2, semFull2, slot, mq1, dpc, heard>>

PostFull2(t) ==
  /\ StepR(t, "post full", "reported")
  /\ semFull2' = semFull2 + 1
  /\ UNCHANGED <<semEmpty2, semMutex2, slot, mq1, dpc, heard>>

report(t) == WaitEmpty2(t) \/ WaitMutex2(t) \/ Write(t) \/ PostMutex2(t) \/ PostFull2(t)

-----------------------------------------------------------------------------
(* death_server of client c                                                *)

(* MQcreate makes or finds the mailslot; if it cannot, the thread returns. *)
CreateSlot(c) ==
  /\ \/ StepD(c, "create", "wait full")
     \/ StepD(c, "create", "no slot")
  /\ UNCHANGED <<semEmpty2, semFull2, semMutex2, slot, rpc, mq1, heard>>

WaitFull2(c) ==
  /\ semFull2 > 0
  /\ StepD(c, "wait full", "wait mutex")
  /\ semFull2' = semFull2 - 1
  /\ UNCHANGED <<semEmpty2, semMutex2, slot, rpc, mq1, heard>>

LockMutex2(c) ==
  /\ semMutex2 > 0
  /\ StepD(c, "wait mutex", "read")
  /\ semMutex2' = semMutex2 - 1
  /\ UNCHANGED <<semEmpty2, semFull2, slot, rpc, mq1, heard>>

(* MQread does not block: on an empty mailslot nothing is printed.         *)
Read(c) ==
  LET m == pid[c] IN
  /\ StepD(c, "read", "post mutex")
  /\ \/ /\ slot[m] # << >>
        /\ read' = [read EXCEPT ![m] = Append(@, Head(slot[m]))]
        /\ told' = [told EXCEPT ![c] = @ \cup {Head(slot[m])}]
        /\ slot' = [slot EXCEPT ![m] = Tail(@)]
     \/ slot[m] = << >> /\ UNCHANGED <<slot, read, told>>
  /\ UNCHANGED <<semEmpty2, semFull2, semMutex2, rpc, mq1, pid>>

UnlockMutex2(c) ==
  /\ StepD(c, "post mutex", "post full")
  /\ semMutex2' = semMutex2 + 1
  /\ UNCHANGED <<semEmpty2, semFull2, slot, rpc, mq1, heard>>

(* Mutant: the token goes to semempty23, as in a bounded buffer.           *)
RepostEmpty2(c) ==
  /\ StepD(c, "post full", "wait full")
  /\ semEmpty2' = semEmpty2 + 1
  /\ UNCHANGED <<semFull2, semMutex2, slot, rpc, mq1, heard>>

(* Mutant: no semaphore is posted.                                         *)
RepostNever(c) ==
  /\ StepD(c, "post full", "wait full")
  /\ UNCHANGED <<semEmpty2, semFull2, semMutex2, slot, rpc, mq1, heard>>

(* client.c:24 posts semfull23, the semaphore it has waited for.           *)
RepostFull2(c) ==
  /\ StepD(c, "post full", "wait full")
  /\ semFull2' = semFull2 + 1
  /\ UNCHANGED <<semEmpty2, semMutex2, slot, rpc, mq1, heard>>

death_server(c) ==
  CreateSlot(c) \/ WaitFull2(c) \/ LockMutex2(c) \/ Read(c) \/ UnlockMutex2(c) \/ RepostFull2(c)

-----------------------------------------------------------------------------
(* Every planet thread that is not stuck has reported and no death server  *)
(* waits for a token it can have: nothing is left to do.                   *)
Quiet ==
  /\ \A t \in Thread : rpc[t] = "reported" \/ (rpc[t] = "wait empty" /\ semEmpty2 = 0)
  /\ \A c \in Client : dpc[c] = "no slot" \/ (dpc[c] = "wait full" /\ semFull2 = 0)
  /\ UNCHANGED channelVars

Next ==
  \/ \E t \in Thread : (\E c \in Client : Connect(t, c)) \/ Begin(t) \/ report(t)
  \/ \E c \in Client : death_server(c)
  \/ Quiet

Spec == Init /\ [][Next]_channelVars

(* The kernel runs every thread.  sem_wait promises no more: a death       *)
(* server that posts a token and waits again may get it every time before  *)
(* another that has waited all along.                                      *)
Fairness ==
  /\ \A t \in Thread : WF_channelVars(report(t))
  /\ \A c \in Client : WF_channelVars(death_server(c))

FairSpec == Spec /\ Fairness
-----------------------------------------------------------------------------
(* The planet threads that have taken a token of semempty23.               *)
Began == {t \in Thread : rpc[t] \in {"wait mutex", "write", "post mutex", "post full", "reported"}}

(* The reports that MQwrite has been called for.                           *)
Sent == {t \in Thread : rpc[t] \in {"post mutex", "post full", "reported"}}

Done == {t \in Thread : rpc[t] = "reported"}

Holding == {c \in Client : dpc[c] \in {"wait mutex", "read", "post mutex", "post full"}}

Inside == {t \in Thread : rpc[t] \in {"write", "post mutex"}}
             \cup {c \in Client : dpc[c] \in {"read", "post mutex"}}

(* The semaphores stay between 0 and their first value.                    *)
TypeOK ==
  /\ semEmpty2 \in 0 .. BUFFER_SIZE
  /\ semFull2 \in 0 .. BUFFER_SIZE
  /\ semMutex2 \in 0 .. 1
  /\ pid \in [Client -> Mailslot]
  /\ slot \in [Mailslot -> Seq(Thread)] /\ read \in [Mailslot -> Seq(Thread)]
  /\ rpc \in [Thread -> {"connect", "alive", "wait empty", "wait mutex", "write",
                         "post mutex", "post full", "reported"}]
  /\ mq1 \in [Thread -> Mailslot \cup {Closed}]
  /\ dpc \in [Client -> {"create", "wait full", "wait mutex", "read", "post mutex", "post full",
                         "no slot"}]
  /\ told \in [Client -> SUBSET Thread]

(* The semaphores count what happened.  A token of semempty23 is spent by  *)
(* every report and never comes back, so semfull23 counts all reports ever *)
(* made; at most one thread of all processes is inside the mailslots.      *)
TokensCount ==
  /\ TypeOK
  /\ semEmpty2 + Cardinality(Began) = BUFFER_SIZE
  /\ semFull2 + Cardinality(Holding) = Cardinality(Done)
  /\ semMutex2 + Cardinality(Inside) = 1

Elements(s) == {s[i] : i \in DOMAIN s}

SentTo(m) == {t \in Sent : mq1[t] = m}

(* The deaths that the clients whose mailslot is m have printed.           *)
Printed(m) == UNION {told[c] : c \in {d \in Client : pid[d] = m}}

(* No report is lost or goes to the wrong mailslot: what a connected       *)
(* planet wrote is in the mailslot of its client or has been read from it, *)
(* once, and is printed by a client of that name and by no other; also     *)
(* when two clients read the same mailslot (client.c:34).                  *)
NoReportLost ==
  /\ \A m \in Mailslot :
       /\ Elements(slot[m]) \cup Elements(read[m]) = SentTo(m)
       /\ Len(slot[m]) + Len(read[m]) = Cardinality(SentTo(m))
       /\ Printed(m) = Elements(read[m])
  /\ \A c, d \in Client : c # d => told[c] \cap told[d] = {}

(* A client that does not read the mailslot t has reported to is inside.   *)
OtherReads(t) == \E c \in Client : pid[c] # mq1[t] /\ dpc[c] = "read"

(* The report of a dead planet is printed by a client of its mailslot,     *)
(* also when a planet that is still reporting, or a client with another    *)
(* mailslot, gets between: the only thing that can hold it up for ever is  *)
(* the death server of another mailslot that comes back for the token and  *)
(* gets it again and again.  No token of semfull23 or semmutex23 is lost.  *)
ReportsArrive ==
  \A t \in Thread :
    \/ []<>OtherReads(t)
    \/ (t \in Sent /\ mq1[t] # Closed) ~> (t \in Printed(mq1[t]))

=============================================================================
