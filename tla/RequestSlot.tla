----------------------------- MODULE RequestSlot -----------------------------
(***************************************************************************)
(* lab3: the way of a planet request from the main loop of client.c to     *)
(* manageMail in server.c.  The mailslot /mq1 is made anew whenever the    *)
(* server starts; the named semaphores semempty, semfull and semmutex are  *)
(* made by the first server and keep their values when a process ends.     *)
(* lab3felix has the same statements, but its MQconnect opens the mailslot *)
(* without O_NONBLOCK, so that MQwrite waits for room, holding semmutex.   *)
(* A process may be ended at any statement (the window is closed, Ctrl-C)  *)
(* and started again.  Clients are started after the first server.         *)
(***************************************************************************)
EXTENDS Integers, FiniteSets, Sequences

CONSTANTS Client,       \* client processes
          BUFFER_SIZE,  \* first value of semempty
          MAXMSG,       \* mq_maxmsg of the mailslot
          MaxRequests,  \* bound: requests typed at each client
          MaxEnds,      \* bound: how often a process is ended
          Unnamed       \* no mailslot has the name /mq1

ASSUME SlotAssumption ==
  /\ IsFiniteSet(Client)
  /\ BUFFER_SIZE \in Nat \ {0} /\ MAXMSG \in Nat /\ BUFFER_SIZE <= MAXMSG
  /\ MaxRequests \in Nat /\ MaxEnds \in Nat
  /\ Unnamed \notin Nat

(* The mailslots made so far are numbered; there is one per server start.  *)
Slot == 1 .. MaxEnds + 1
Message == Client \X (1 .. MaxRequests)

VARIABLES
  blocking,  \* whether these are the programs of lab3felix
  semEmpty, semFull, semMutex,
  slot,      \* slot[g]: what waits in mailslot number g
  named,     \* the mailslot called /mq1
  cpc, mq2,  \* of every client: next statement, descriptor of a mailslot
  typed,     \* typed[c]: the requests that the user of c has typed
  spc, mq,   \* of the server: next statement, descriptor of its mailslot
  ends,      \* how often a process has been ended
  lost,      \* tokens of semempty and semfull that ended processes held
  lostMutex, \* tokens of semmutex that ended processes held
  received   \* received[g]: what the server has read from mailslot g

slotVars == <<slot, named, received>>
semVars == <<semEmpty, semFull, semMutex>>
clientVars == <<cpc, mq2, typed>>
serverVars == <<spc, mq>>
endVars == <<ends, lost, lostMutex>>
vars == <<slotVars, semVars, clientVars, serverVars, endVars, blocking>>

Init ==
  /\ blocking \in BOOLEAN
  /\ semEmpty = BUFFER_SIZE /\ semFull = 0 /\ semMutex = 1
  /\ slot = [g \in Slot |-> << >>]
  /\ named = Unnamed
  /\ cpc = [c \in Client |-> "type"]
  /\ mq2 = [c \in Client |-> Unnamed]
  /\ typed = [c \in Client |-> 0]
  /\ spc = "create" /\ mq = 0
  /\ ends = 0 /\ lost = 0 /\ lostMutex = 0
  /\ received = [g \in Slot |-> << >>]

-----------------------------------------------------------------------------
(* client.c, main                                                          *)

StepC(c, from, to) ==
  /\ cpc[c] = from
  /\ cpc' = [cpc EXCEPT ![c] = to]
  /\ UNCHANGED <<serverVars, endVars, blocking>>

(* scanf reads a planet; MQconnect opens /mq1, or "Could not connect!" is  *)
(* printed and the user is asked again.                                    *)
TypeAndConnect(c) ==
  /\ typed[c] < MaxRequests
  /\ StepC(c, "type", IF named = Unnamed THEN "type" ELSE "wait empty")
  /\ typed' = [typed EXCEPT ![c] = @ + 1]
  /\ mq2' = [mq2 EXCEPT ![c] = named]
  /\ UNCHANGED <<slotVars, semVars>>

(* Mutant: no wait for an empty slot.                                      *)
WaitEmptyNever(c) ==
  /\ StepC(c, "wait empty", "wait mutex")
  /\ UNCHANGED <<slotVars, semVars, mq2, typed>>

WaitEmpty(c) ==
  /\ semEmpty > 0
  /\ StepC(c, "wait empty", "wait mutex")
  /\ semEmpty' = semEmpty - 1
  /\ UNCHANGED <<slotVars, semFull, semMutex, mq2, typed>>

WaitMutexC(c) ==
  /\ semMutex > 0
  /\ StepC(c, "wait mutex", "write")
  /\ semMutex' = semMutex - 1
  /\ UNCHANGED <<slotVars, semEmpty, semFull, mq2, typed>>

(* Mutant: after an error the user is asked again at once.                 *)
WriteGivesUp(c) ==
  LET room == Len(slot[mq2[c]]) < MAXMSG IN
  /\ ~blocking
  /\ StepC(c, "write", IF room THEN "post mutex" ELSE "type")
  /\ slot' = IF room THEN [slot EXCEPT ![mq2[c]] = Append(@, <<c, typed[c]>>)] ELSE slot
  /\ UNCHANGED <<named, received, semVars, mq2, typed>>

(* MQwrite does not block: on a full mailslot "ERROR" is printed.          *)
Write(c) ==
  /\ ~blocking
  /\ StepC(c, "write", "post mutex")
  /\ slot' = IF Len(slot[mq2[c]]) < MAXMSG
             THEN [slot EXCEPT ![mq2[c]] = Append(@, <<c, typed[c]>>)]
             ELSE slot
  /\ UNCHANGED <<named, received, semVars, mq2, typed>>

(* MQwrite of lab3felix: on a full mailslot mq_send waits.                 *)
WriteFelix(c) ==
  /\ blocking
  /\ StepC(c, "write", "post mutex")
  /\ Len(slot[mq2[c]]) < MAXMSG
  /\ slot' = [slot EXCEPT ![mq2[c]] = Append(@, <<c, typed[c]>>)]
  /\ UNCHANGED <<named, received, semVars, mq2, typed>>

PostMutexC(c) ==
  /\ StepC(c, "post mutex", "post full")
  /\ semMutex' = semMutex + 1
  /\ UNCHANGED <<slotVars, semEmpty, semFull, mq2, typed>>

PostFull(c) ==
  /\ StepC(c, "post full", "type")
  /\ semFull' = semFull + 1
  /\ UNCHANGED <<slotVars, semEmpty, semMutex, mq2, typed>>

client(c) ==
  TypeAndConnect(c) \/ WaitEmpty(c) \/ WaitMutexC(c) \/ Write(c) \/ PostMutexC(c) \/ PostFull(c)

felixClient(c) == blocking /\ (client(c) \/ WriteFelix(c))

-----------------------------------------------------------------------------
(* server.c, manageMail                                                    *)

StepS(from, to) ==
  /\ spc = from
  /\ spc' = to
  /\ UNCHANGED <<clientVars, endVars, blocking>>

(* mq_unlink: the mailslot of an earlier server loses its name, but stays  *)
(* open for the clients that have connected to it.                         *)
Unlink ==
  /\ StepS("unlink", "create")
  /\ named' = Unnamed
  /\ UNCHANGED <<slot, received, semVars, mq>>

(* MQcreate: a new, empty mailslot; if it fails, manageMail returns.       *)
(* sem_open has found the old semaphores.                                  *)
Create ==
  /\ \/ StepS("create", "wait full") /\ mq' = mq + 1 /\ named' = mq + 1
     \/ StepS("create", "no mailslot") /\ UNCHANGED <<mq, named>>
  /\ UNCHANGED <<slot, received, semVars>>

WaitFull ==
  /\ semFull > 0
  /\ StepS("wait full", "wait mutex")
  /\ semFull' = semFull - 1
  /\ UNCHANGED <<slotVars, semEmpty, semMutex, mq>>

(* Mutant: the server reads without waiting for the mutex.                 *)
EnterS ==
  /\ StepS("wait mutex", "read")
  /\ UNCHANGED <<slotVars, semVars, mq>>

WaitMutexS ==
  /\ semMutex > 0
  /\ StepS("wait mutex", "read")
  /\ semMutex' = semMutex - 1
  /\ UNCHANGED <<slotVars, semEmpty, semFull, mq>>

(* Mutant: MQread is given a length below mq_msgsize and always fails.     *)
ReadFails ==
  /\ StepS("read", "post mutex")
  /\ UNCHANGED <<slotVars, semVars, mq>>

(* MQread and, if it returned a request, the start of a planet thread.     *)
Read ==
  /\ StepS("read", "post mutex")
  /\ IF slot[mq] # << >>
     THEN /\ received' = [received EXCEPT ![mq] = Append(@, Head(slot[mq]))]
          /\ slot' = [slot EXCEPT ![mq] = Tail(@)]
     ELSE UNCHANGED <<slot, received>>
  /\ UNCHANGED <<named, semVars, mq>>

PostMutexS ==
  /\ StepS("post mutex", "post empty")
  /\ semMutex' = semMutex + 1
  /\ UNCHANGED <<slotVars, semEmpty, semFull, mq>>

(* Mutant: the server posts semfull, as death_server does (client.c:24).   *)
PostFullBack ==
  /\ StepS("post empty", "wait full")
  /\ semFull' = semFull + 1
  /\ UNCHANGED <<slotVars, semEmpty, semMutex, mq>>

PostEmpty ==
  /\ StepS("post empty", "wait full")
  /\ semEmpty' = semEmpty + 1
  /\ UNCHANGED <<slotVars, semFull, semMutex, mq>>

manageMail == \/ Unlink \/ Create \/ WaitFull \/ WaitMutexS \/ Read \/ PostMutexS \/ PostEmpty

-----------------------------------------------------------------------------
(* The clients that hold a token of semempty or semfull, or of semmutex,   *)
(* and the numbers of those that manageMail holds.                         *)
Reserving == {c \in Client : cpc[c] \in {"wait mutex", "write"}}
Writers == {c \in Client : cpc[c] \in {"post mutex", "post full"}}
InsideC == {c \in Client : cpc[c] \in {"write", "post mutex"}}
NumTaking == IF spc \in {"wait mutex", "read"} THEN 1 ELSE 0
NumTaken == IF spc \in {"post mutex", "post empty"} THEN 1 ELSE 0
NumInsideS == IF spc \in {"read", "post mutex"} THEN 1 ELSE 0

(* A client is ended and started again: what it held of the semaphores it  *)
(* holds no more, and nobody else has it.                                  *)
EndClient(c) ==
  /\ ends < MaxEnds
  /\ ends' = ends + 1
  /\ lost' = lost + (IF c \in Reserving \cup Writers THEN 1 ELSE 0)
  /\ lostMutex' = lostMutex + (IF c \in InsideC THEN 1 ELSE 0)
  /\ cpc' = [cpc EXCEPT ![c] = "type"]
  /\ UNCHANGED <<slotVars, semVars, mq2, typed, serverVars, blocking>>

(* The server is ended and started again.                                  *)
EndServer ==
  /\ ends < MaxEnds
  /\ ends' = ends + 1
  /\ lost' = lost + NumTaking + NumTaken
  /\ lostMutex' = lostMutex + NumInsideS
  /\ spc' = "unlink"
  /\ UNCHANGED <<slotVars, semVars, clientVars, mq, blocking>>

(* Nothing is left to do: the users have typed all they will and the       *)
(* server waits for more, or has no mailslot; or a process has been ended, *)
(* which may stop the rest.                                                *)
Idle ==
  /\ \/ ends > 0
     \/ /\ \A c \in Client : cpc[c] = "type" /\ typed[c] = MaxRequests
        /\ spc = "no mailslot" \/ (spc = "wait full" /\ semFull = 0)
  /\ UNCHANGED vars

Next ==
  \/ \E c \in Client : client(c) \/ felixClient(c) \/ EndClient(c)
  \/ manageMail
  \/ EndServer
  \/ Idle

Spec == Init /\ [][Next]_vars

(* Processes that were not ended run.  Each asks for finitely many planets *)
(* here, so nobody can take a semaphore from the others for ever.          *)
Fairness ==
  /\ \A c \in Client : WF_vars(client(c) \/ felixClient(c))
  /\ WF_vars(manageMail)

FairSpec == Spec /\ Fairness
-----------------------------------------------------------------------------
(* manageMail has no mailslot of its own.                                  *)
Down == {"unlink", "create", "no mailslot"}

(* The semaphores stay between 0 and their first values, and a client that *)
(* goes on after MQconnect has a mailslot.                                 *)
TypeOK ==
  /\ blocking \in BOOLEAN
  /\ semEmpty \in 0 .. BUFFER_SIZE /\ semFull \in 0 .. BUFFER_SIZE /\ semMutex \in 0 .. 1
  /\ slot \in [Slot -> Seq(Message)] /\ received \in [Slot -> Seq(Message)]
  /\ named \in Slot \cup {Unnamed}
  /\ cpc \in [Client -> {"type", "wait empty", "wait mutex", "write", "post mutex", "post full"}]
  /\ mq2 \in [Client -> Slot \cup {Unnamed}]
  /\ \A c \in Client : cpc[c] # "type" => mq2[c] \in Slot
  /\ typed \in [Client -> 0 .. MaxRequests]
  /\ spc \in Down \cup {"wait full", "wait mutex", "read", "post mutex", "post empty"}
  /\ mq \in 0 .. ends + 1 /\ (spc \notin Down => mq \in Slot)
  /\ ends \in 0 .. MaxEnds

(* Tokens are never made up, whichever process ends where: together with   *)
(* those that running threads hold there are at most BUFFER_SIZE tokens,   *)
(* and at most one thread of all processes is inside the mailslot.         *)
NoExtraTokens ==
  /\ TypeOK
  /\ semEmpty + semFull + Cardinality(Reserving) + Cardinality(Writers) + NumTaking + NumTaken
       <= BUFFER_SIZE
  /\ semMutex + Cardinality(InsideC) + NumInsideS <= 1

(* MQwrite finds room in the mailslot that is read, whichever process was  *)
(* ended before: a request that fails went to the mailslot of a server     *)
(* that is gone, and a client of lab3felix that waits there, with semmutex *)
(* in its hands, waits for a mailslot that nobody will ever read.          *)
RoomInSlot ==
  spc \notin Down =>
    /\ semEmpty + Len(slot[mq]) + Cardinality(Reserving) + NumTaken <= BUFFER_SIZE
    /\ \A c \in Client : cpc[c] = "write" /\ mq2[c] = mq => Len(slot[mq]) < MAXMSG

(* Without an end every token of semfull is a request: the server never    *)
(* reads in vain, and the tokens add up.                                   *)
TokensAreRequests ==
  ends = 0 /\ mq > 0 =>
    /\ Len(slot[mq]) = semFull + Cardinality(Writers) + NumTaking
    /\ semEmpty + Cardinality(Reserving) + Len(slot[mq]) + NumTaken = BUFFER_SIZE

(* The end of a process loses the tokens that it holds just then, and      *)
(* nothing else ever loses one: not a restart of the server, which drops   *)
(* requests but finds the tokens of them, not a request that fails.  The   *)
(* token of semmutex is lost by an end between sem_wait and sem_post, and  *)
(* then nobody gets into the mailslots any more.                           *)
OnlyEndsLoseTokens ==
  /\ semEmpty + semFull + Cardinality(Reserving) + Cardinality(Writers) + NumTaking + NumTaken
       = BUFFER_SIZE - lost
  /\ semMutex + Cardinality(InsideC) + NumInsideS = 1 - lostMutex
  /\ lostMutex > 0 => InsideC = {} /\ NumInsideS = 0

(* The requests read from a mailslot.                                      *)
Got(g) == {received[g][i] : i \in DOMAIN received[g]}

(* Unless a process is ended, the request that a user has typed last while *)
(* the server is up is read by it, and so, in order, are those before.     *)
RequestsArrive ==
  \A c \in Client : (cpc[c] = "wait empty") ~> (<<c, typed[c]>> \in Got(1) \/ ends > 0)
=============================================================================
