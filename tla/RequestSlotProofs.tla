-------------------------- MODULE RequestSlotProofs --------------------------
(***************************************************************************)
(* The request path of lab3 and lab3felix: whichever process is ended at   *)
(* whichever statement, tokens are neither made up nor lost but with the   *)
(* process that holds them, and the mailslot that is read has room for     *)
(* every client that holds one.                                            *)
(***************************************************************************)
EXTENDS RequestSlot, FiniteSetTheorems, SequenceTheorems, TLAPS

(* The types without the bounds of the semaphores, which follow from what  *)
(* the semaphores count.  A server that is about to create a mailslot has  *)
(* been started more often than it has created one.                        *)
Controls ==
  /\ blocking \in BOOLEAN
  /\ spc \in Down \cup {"wait full", "wait mutex", "read", "post mutex", "post empty"}
  /\ cpc \in [Client -> {"type", "wait empty", "wait mutex", "write", "post mutex", "post full"}]
Tokens == semEmpty \in Nat /\ semFull \in Nat /\ semMutex \in Nat
Losses == lost \in Nat /\ lostMutex \in Nat
Starts ==
  /\ ends \in Nat /\ ends <= MaxEnds
  /\ mq \in Nat /\ mq <= ends + 1
  /\ IF spc \in Down THEN mq <= ends ELSE mq > 0
Numbers ==
  /\ named \in (1 .. mq) \cup {Unnamed}
  /\ mq2 \in [Client -> (1 .. mq) \cup {Unnamed}]
  /\ \A c \in Client : cpc[c] # "type" => mq2[c] # Unnamed
  /\ typed \in [Client -> 0 .. MaxRequests]
  /\ \A c \in Client : cpc[c] # "type" => typed[c] > 0
Mail == slot \in [Slot -> Seq(Message)] /\ received \in [Slot -> Seq(Message)]

Typed == Controls /\ Tokens /\ Losses /\ Starts /\ Numbers /\ Mail

TokenCount ==
  semEmpty + semFull + Cardinality(Reserving) + Cardinality(Writers) + NumTaking + NumTaken
    + lost = BUFFER_SIZE
MutexCount == semMutex + Cardinality(InsideC) + NumInsideS + lostMutex = 1
Counts == TokenCount /\ MutexCount

Sets == <<Reserving, Writers, InsideC>>
Nums == <<NumTaking, NumTaken, NumInsideS>>

-----------------------------------------------------------------------------
(* The size of a finite set when c joins or leaves it.                     *)
LEMMA JoinOrLeave ==
  ASSUME NEW S, IsFiniteSet(S), NEW c
  PROVE  /\ Cardinality(S) \in Nat
         /\ c \notin S => Cardinality(S \cup {c}) = Cardinality(S) + 1
         /\ c \in S => Cardinality(S \ {c}) = Cardinality(S) - 1
         /\ Cardinality(S \ {c}) \in Nat /\ Cardinality(S \ {c}) <= Cardinality(S)
<1>1. IsFiniteSet(S \ {c}) /\ Cardinality(S \ {c}) <= Cardinality(S)
  BY FS_Subset
<1> QED
  BY <1>1, FS_CardinalityType, FS_AddElement, FS_RemoveElement

(* The clients that hold tokens are finitely many.                         *)
LEMMA SetsFinite ==
  /\ IsFiniteSet(Reserving) /\ IsFiniteSet(Writers) /\ IsFiniteSet(InsideC)
BY SlotAssumption, FS_Subset DEF Reserving, Writers, InsideC

(* So their numbers can be added.                                          *)
LEMMA SetSizes ==
  /\ Cardinality(Reserving) \in Nat /\ Cardinality(Writers) \in Nat
  /\ Cardinality(InsideC) \in Nat
BY SetsFinite, FS_CardinalityType

(* manageMail holds at most one token of each kind.                        *)
LEMMA NumBits ==
  /\ NumTaking \in 0 .. 1 /\ NumTaken \in 0 .. 1 /\ NumInsideS \in 0 .. 1
BY DEF NumTaking, NumTaken, NumInsideS

-----------------------------------------------------------------------------
(* What each step does to the semaphores and to who holds their tokens.    *)
LEMMA SemaphoreSteps ==
  ASSUME NEW c
  PROVE  /\ TypeAndConnect(c) => UNCHANGED semVars
         /\ WaitEmpty(c) => /\ semEmpty > 0 /\ semEmpty' = semEmpty - 1
                            /\ UNCHANGED <<semFull, semMutex>>
         /\ WaitMutexC(c) => /\ semMutex > 0 /\ semMutex' = semMutex - 1
                             /\ UNCHANGED <<semEmpty, semFull>>
         /\ Write(c) \/ WriteFelix(c) => UNCHANGED semVars
         /\ PostMutexC(c) => semMutex' = semMutex + 1 /\ UNCHANGED <<semEmpty, semFull>>
         /\ PostFull(c) => semFull' = semFull + 1 /\ UNCHANGED <<semEmpty, semMutex>>
         /\ EndClient(c) \/ EndServer \/ Unlink \/ Create \/ Read => UNCHANGED semVars
         /\ WaitFull => semFull > 0 /\ semFull' = semFull - 1 /\ UNCHANGED <<semEmpty, semMutex>>
         /\ WaitMutexS => /\ semMutex > 0 /\ semMutex' = semMutex - 1
                          /\ UNCHANGED <<semEmpty, semFull>>
         /\ PostMutexS => semMutex' = semMutex + 1 /\ UNCHANGED <<semEmpty, semFull>>
         /\ PostEmpty => semEmpty' = semEmpty + 1 /\ UNCHANGED <<semFull, semMutex>>
BY DEF TypeAndConnect, WaitEmpty, WaitMutexC, Write, WriteFelix, PostMutexC, PostFull, EndClient,
       EndServer, Unlink, Create, Read, WaitFull, WaitMutexS, PostMutexS, PostEmpty, semVars

clientStep(c) == client(c) \/ WriteFelix(c)

(* Only the end of a process loses tokens: the ones that it holds.         *)
LEMMA LostSteps ==
  ASSUME NEW c
  PROVE  /\ clientStep(c) \/ manageMail => UNCHANGED <<lost, lostMutex>>
         /\ EndClient(c) => /\ lost' = IF c \in Reserving \cup Writers THEN lost + 1 ELSE lost + 0
                            /\ lostMutex' = IF c \in InsideC THEN lostMutex + 1 ELSE lostMutex + 0
         /\ EndServer => lost' = lost + NumTaking + NumTaken /\ lostMutex' = lostMutex + NumInsideS
BY DEF clientStep, client, TypeAndConnect, WaitEmpty, WaitMutexC, Write, WriteFelix, PostMutexC,
       PostFull, EndClient, manageMail, Unlink, Create, WaitFull, WaitMutexS, Read, PostMutexS,
       PostEmpty, EndServer, StepC, StepS, endVars

(* Who of the clients holds a token after a statement of client.c.         *)
LEMMA ClientSets ==
  ASSUME Typed, NEW c \in Client
  PROVE  /\ TypeAndConnect(c) => UNCHANGED Sets
         /\ WaitEmpty(c) => /\ c \notin Reserving /\ Reserving' = Reserving \cup {c}
                            /\ UNCHANGED <<Writers, InsideC>>
         /\ WaitMutexC(c) => /\ c \notin InsideC /\ InsideC' = InsideC \cup {c}
                             /\ UNCHANGED <<Writers, Reserving>>
         /\ Write(c) \/ WriteFelix(c) => /\ c \in Reserving /\ Reserving' = Reserving \ {c}
                                         /\ c \notin Writers /\ Writers' = Writers \cup {c}
                                         /\ InsideC' = InsideC
         /\ PostMutexC(c) => /\ c \in InsideC /\ InsideC' = InsideC \ {c}
                             /\ UNCHANGED <<Writers, Reserving>>
         /\ PostFull(c) => /\ c \in Writers /\ Writers' = Writers \ {c}
                           /\ UNCHANGED <<InsideC, Reserving>>
         /\ EndClient(c) => /\ Reserving' = Reserving \ {c} /\ Writers' = Writers \ {c}
                            /\ InsideC' = InsideC \ {c}
<1> USE DEF Typed, Controls, StepC, Reserving, Writers, InsideC
<1>1. TypeAndConnect(c) => UNCHANGED Sets
  BY DEF TypeAndConnect, Sets
<1>2. WaitEmpty(c) => /\ c \notin Reserving /\ Reserving' = Reserving \cup {c}
                      /\ UNCHANGED <<Writers, InsideC>>
  BY DEF WaitEmpty
<1>3. WaitMutexC(c) => /\ c \notin InsideC /\ InsideC' = InsideC \cup {c}
                       /\ UNCHANGED <<Writers, Reserving>>
  BY DEF WaitMutexC
<1>4. Write(c) \/ WriteFelix(c) => /\ c \in Reserving /\ Reserving' = Reserving \ {c}
                                   /\ c \notin Writers /\ Writers' = Writers \cup {c}
                                   /\ InsideC' = InsideC
  <2>1. Write(c) \/ WriteFelix(c) => StepC(c, "write", "post mutex")
    BY DEF Write, WriteFelix
  <2> QED
    BY <2>1
<1>5. PostMutexC(c) => /\ c \in InsideC /\ InsideC' = InsideC \ {c}
                       /\ UNCHANGED <<Writers, Reserving>>
  BY DEF PostMutexC
<1>6. PostFull(c) => /\ c \in Writers /\ Writers' = Writers \ {c}
                     /\ UNCHANGED <<InsideC, Reserving>>
  BY DEF PostFull
<1>7. EndClient(c) => /\ Reserving' = Reserving \ {c} /\ Writers' = Writers \ {c}
                      /\ InsideC' = InsideC \ {c}
  BY DEF EndClient
<1> HIDE DEF Typed, Controls, StepC, Reserving, Writers, InsideC
<1> QED
  BY <1>1, <1>2, <1>3, <1>4, <1>5, <1>6, <1>7

(* Clients leave alone what manageMail holds.                              *)
LEMMA ClientNums ==
  ASSUME NEW c, clientStep(c) \/ EndClient(c) PROVE UNCHANGED Nums
<1>1. spc' = spc
  BY DEF clientStep, client, TypeAndConnect, WaitEmpty, WaitMutexC, Write, WriteFelix,
         PostMutexC, PostFull, EndClient, StepC, serverVars
<1> QED
  BY <1>1 DEF Nums, NumTaking, NumTaken, NumInsideS

(* manageMail leaves alone what clients hold.                              *)
LEMMA ServerSets ==
  ASSUME manageMail \/ EndServer PROVE UNCHANGED Sets
<1>1. cpc' = cpc
  BY DEF manageMail, Unlink, Create, WaitFull, WaitMutexS, Read, PostMutexS, PostEmpty, EndServer,
         StepS, clientVars
<1> QED
  BY <1>1 DEF Sets, Reserving, Writers, InsideC

(* What manageMail holds after each of its statements.                     *)
LEMMA ServerNums ==
  /\ Unlink \/ Create => UNCHANGED Nums
  /\ WaitFull => NumTaking = 0 /\ NumTaking' = 1 /\ UNCHANGED <<NumTaken, NumInsideS>>
  /\ WaitMutexS => NumInsideS = 0 /\ NumInsideS' = 1 /\ UNCHANGED <<NumTaken, NumTaking>>
  /\ Read => NumTaking = 1 /\ NumTaking' = 0 /\ NumTaken = 0 /\ NumTaken' = 1
             /\ NumInsideS' = NumInsideS
  /\ PostMutexS => NumInsideS = 1 /\ NumInsideS' = 0 /\ UNCHANGED <<NumTaken, NumTaking>>
  /\ PostEmpty => NumTaken = 1 /\ NumTaken' = 0 /\ UNCHANGED <<NumTaking, NumInsideS>>
  /\ EndServer => NumTaking' = 0 /\ NumTaken' = 0 /\ NumInsideS' = 0
BY DEF Unlink, Create, WaitFull, WaitMutexS, Read, PostMutexS, PostEmpty, EndServer, StepS,
       Nums, NumTaking, NumTaken, NumInsideS

-----------------------------------------------------------------------------
(* Steps that touch neither semaphores nor holders keep the counts.        *)
LEMMA CountsSame ==
  ASSUME Counts, UNCHANGED Sets, UNCHANGED Nums, UNCHANGED semVars,
         lost' = lost, lostMutex' = lostMutex
  PROVE  Counts'
<1>1. /\ Cardinality(Reserving)' = Cardinality(Reserving)
      /\ Cardinality(Writers)' = Cardinality(Writers)
      /\ Cardinality(InsideC)' = Cardinality(InsideC)
  BY DEF Sets
<1> QED
  BY <1>1 DEF Counts, TokenCount, MutexCount, Nums, semVars

(* Every step keeps the counts: a token that leaves a semaphore is held by *)
(* the thread that took it, and a thread that is ended gives nothing back. *)
LEMMA CountsStep ==
  ASSUME Typed, Counts, [Next]_vars PROVE Counts'
<1>n. /\ semEmpty \in Nat /\ semFull \in Nat /\ semMutex \in Nat /\ BUFFER_SIZE \in Nat
      /\ Cardinality(Reserving) \in Nat /\ Cardinality(Writers) \in Nat
      /\ Cardinality(InsideC) \in Nat
      /\ NumTaking \in Nat /\ NumTaken \in Nat /\ NumInsideS \in Nat
      /\ lost \in Nat /\ lostMutex \in Nat
  BY SetSizes, NumBits, SlotAssumption DEF Typed, Tokens, Losses
<1> USE DEF Counts, TokenCount, MutexCount
<1>1. ASSUME NEW c \in Client, clientStep(c) PROVE Counts'
  <2>n. /\ NumTaking' = NumTaking /\ NumTaken' = NumTaken /\ NumInsideS' = NumInsideS
        /\ lost' = lost /\ lostMutex' = lostMutex
    BY <1>1, ClientNums, LostSteps DEF Nums
  <2>1. CASE TypeAndConnect(c)
    <3>1. UNCHANGED Sets /\ UNCHANGED semVars
      BY <2>1, ClientSets, SemaphoreSteps
    <3> QED
      BY <2>n, <3>1, CountsSame DEF Nums
  <2>2. CASE WaitEmpty(c)
    <3>1. /\ Cardinality(Reserving)' = Cardinality(Reserving) + 1
          /\ Cardinality(Writers)' = Cardinality(Writers)
          /\ Cardinality(InsideC)' = Cardinality(InsideC)
      BY <2>2, ClientSets, SetsFinite, JoinOrLeave
    <3> QED
      BY <1>n, <2>n, <2>2, <3>1, SemaphoreSteps
  <2>3. CASE WaitMutexC(c)
    <3>1. /\ Cardinality(InsideC)' = Cardinality(InsideC) + 1
          /\ Cardinality(Writers)' = Cardinality(Writers)
          /\ Cardinality(Reserving)' = Cardinality(Reserving)
      BY <2>3, ClientSets, SetsFinite, JoinOrLeave
    <3> QED
      BY <1>n, <2>n, <2>3, <3>1, SemaphoreSteps
  <2>4. CASE Write(c) \/ WriteFelix(c)
    <3>1. /\ Cardinality(Reserving)' = Cardinality(Reserving) - 1
          /\ Cardinality(Writers)' = Cardinality(Writers) + 1
          /\ Cardinality(InsideC)' = Cardinality(InsideC)
      BY <2>4, ClientSets, SetsFinite, JoinOrLeave
    <3>2. UNCHANGED <<semEmpty, semFull, semMutex>>
      BY <2>4, SemaphoreSteps DEF semVars
    <3> QED
      BY <1>n, <2>n, <3>1, <3>2
  <2>5. CASE PostMutexC(c)
    <3>1. /\ Cardinality(InsideC)' = Cardinality(InsideC) - 1
          /\ Cardinality(Writers)' = Cardinality(Writers)
          /\ Cardinality(Reserving)' = Cardinality(Reserving)
      BY <2>5, ClientSets, SetsFinite, JoinOrLeave
    <3> QED
      BY <1>n, <2>n, <2>5, <3>1, SemaphoreSteps
  <2>6. CASE PostFull(c)
    <3>1. /\ Cardinality(Writers)' = Cardinality(Writers) - 1
          /\ Cardinality(InsideC)' = Cardinality(InsideC)
          /\ Cardinality(Reserving)' = Cardinality(Reserving)
      BY <2>6, ClientSets, SetsFinite, JoinOrLeave
    <3> QED
      BY <1>n, <2>n, <2>6, <3>1, SemaphoreSteps
  <2> QED
    BY <1>1, <2>1, <2>2, <2>3, <2>4, <2>5, <2>6 DEF clientStep, client
<1>2. ASSUME NEW c \in Client, EndClient(c) PROVE Counts'
  <2>n. NumTaking' = NumTaking /\ NumTaken' = NumTaken /\ NumInsideS' = NumInsideS
    BY <1>2, ClientNums DEF Nums
  <2>1. /\ Reserving' = Reserving \ {c} /\ Writers' = Writers \ {c}
        /\ InsideC' = InsideC \ {c}
    BY <1>2, ClientSets
  <2>2. UNCHANGED <<semEmpty, semFull, semMutex>>
    BY <1>2, SemaphoreSteps DEF semVars
  <2>3. c \notin Reserving \/ c \notin Writers
    BY DEF Reserving, Writers
  <2>4. /\ c \in Reserving => Cardinality(Reserving)' = Cardinality(Reserving) - 1
        /\ c \notin Reserving => Cardinality(Reserving)' = Cardinality(Reserving)
        /\ c \in Writers => Cardinality(Writers)' = Cardinality(Writers) - 1
        /\ c \notin Writers => Cardinality(Writers)' = Cardinality(Writers)
        /\ c \in InsideC => Cardinality(InsideC)' = Cardinality(InsideC) - 1
        /\ c \notin InsideC => Cardinality(InsideC)' = Cardinality(InsideC)
    <3>1. ASSUME NEW S, c \notin S PROVE S \ {c} = S
      BY <3>1
    <3> QED
      BY <2>1, <3>1, SetsFinite, JoinOrLeave
  <2>5. /\ c \in Reserving \/ c \in Writers => lost' = lost + 1
        /\ c \notin Reserving /\ c \notin Writers => lost' = lost
        /\ c \in InsideC => lostMutex' = lostMutex + 1
        /\ c \notin InsideC => lostMutex' = lostMutex
    BY <1>n, <1>2, LostSteps
  <2>6. TokenCount'
    BY <1>n, <2>n, <2>2, <2>3, <2>4, <2>5
  <2>7. MutexCount'
    BY <1>n, <2>n, <2>2, <2>4, <2>5
  <2> QED
    BY <2>6, <2>7
<1>3. ASSUME manageMail \/ EndServer PROVE Counts'
  <2>n. /\ Cardinality(Reserving)' = Cardinality(Reserving)
        /\ Cardinality(Writers)' = Cardinality(Writers)
        /\ Cardinality(InsideC)' = Cardinality(InsideC)
    BY <1>3, ServerSets DEF Sets
  <2>l. manageMail => lost' = lost /\ lostMutex' = lostMutex
    BY LostSteps
  <2>1. CASE Unlink \/ Create
    <3>1. UNCHANGED semVars /\ UNCHANGED Nums
      BY <2>1, SemaphoreSteps, ServerNums
    <3> QED
      BY <1>3, <2>1, <2>l, <3>1, ServerSets, CountsSame DEF manageMail
  <2>2. CASE WaitFull
    <3>1. /\ semFull' = semFull - 1 /\ UNCHANGED <<semEmpty, semMutex>>
          /\ NumTaking = 0 /\ NumTaking' = 1 /\ UNCHANGED <<NumTaken, NumInsideS>>
      BY <2>2, SemaphoreSteps, ServerNums
    <3>2. lost' = lost /\ lostMutex' = lostMutex
      BY <2>2, <2>l DEF manageMail
    <3> QED
      BY <1>n, <2>n, <3>1, <3>2
  <2>3. CASE WaitMutexS
    <3>1. /\ semMutex' = semMutex - 1 /\ UNCHANGED <<semEmpty, semFull>>
          /\ NumInsideS = 0 /\ NumInsideS' = 1 /\ UNCHANGED <<NumTaken, NumTaking>>
      BY <2>3, SemaphoreSteps, ServerNums
    <3>2. lost' = lost /\ lostMutex' = lostMutex
      BY <2>3, <2>l DEF manageMail
    <3> QED
      BY <1>n, <2>n, <3>1, <3>2
  <2>4. CASE Read
    <3>1. UNCHANGED <<semEmpty, semFull, semMutex>>
      BY <2>4, SemaphoreSteps DEF semVars
    <3>2. lost' = lost /\ lostMutex' = lostMutex
      BY <2>4, <2>l DEF manageMail
    <3> QED
      BY <1>n, <2>n, <2>4, <3>1, <3>2, ServerNums
  <2>5. CASE PostMutexS
    <3>1. /\ semMutex' = semMutex + 1 /\ UNCHANGED <<semEmpty, semFull>>
          /\ NumInsideS = 1 /\ NumInsideS' = 0 /\ UNCHANGED <<NumTaken, NumTaking>>
      BY <2>5, SemaphoreSteps, ServerNums
    <3>2. lost' = lost /\ lostMutex' = lostMutex
      BY <2>5, <2>l DEF manageMail
    <3> QED
      BY <1>n, <2>n, <3>1, <3>2
  <2>6. CASE PostEmpty
    <3>1. /\ semEmpty' = semEmpty + 1 /\ UNCHANGED <<semFull, semMutex>>
          /\ NumTaken = 1 /\ NumTaken' = 0 /\ UNCHANGED <<NumTaking, NumInsideS>>
      BY <2>6, SemaphoreSteps, ServerNums
    <3>2. lost' = lost /\ lostMutex' = lostMutex
      BY <2>6, <2>l DEF manageMail
    <3> QED
      BY <1>n, <2>n, <3>1, <3>2
  <2>7. CASE EndServer
    <3>1. UNCHANGED <<semEmpty, semFull, semMutex>>
      BY <2>7, SemaphoreSteps DEF semVars
    <3> QED
      BY <1>n, <2>n, <2>7, <3>1, ServerNums, LostSteps
  <2> QED
    BY <1>3, <2>1, <2>2, <2>3, <2>4, <2>5, <2>6, <2>7 DEF manageMail
<1>4. ASSUME UNCHANGED vars PROVE Counts'
  <2>1. UNCHANGED Sets /\ UNCHANGED Nums /\ UNCHANGED semVars
    BY <1>4 DEF vars, clientVars, serverVars, semVars, Sets, Nums, Reserving, Writers, InsideC,
                NumTaking, NumTaken, NumInsideS
  <2> QED
    BY <1>4, <2>1, CountsSame DEF vars, endVars
<1> HIDE DEF Counts
<1> QED
  BY <1>1, <1>2, <1>3, <1>4 DEF Next, felixClient, clientStep, Idle

-----------------------------------------------------------------------------
(* Threads go from statement to statement of their programs.               *)
LEMMA ControlsStep ==
  ASSUME Typed, [Next]_vars PROVE Controls'
<1> USE DEF Typed, Controls, Down
<1>1. ASSUME NEW c \in Client, clientStep(c) \/ EndClient(c) PROVE Controls'
  <2>1. blocking' = blocking /\ spc' = spc
    BY <1>1 DEF clientStep, client, TypeAndConnect, WaitEmpty, WaitMutexC, Write, WriteFelix,
                PostMutexC, PostFull, EndClient, StepC, serverVars
  <2>2. \E p \in {"type", "wait empty", "wait mutex", "write", "post mutex", "post full"} :
          cpc' = [cpc EXCEPT ![c] = p]
    BY <1>1 DEF clientStep, client, TypeAndConnect, WaitEmpty, WaitMutexC, Write, WriteFelix,
                PostMutexC, PostFull, EndClient, StepC
  <2> QED
    BY <2>1, <2>2
<1>2. ASSUME manageMail \/ EndServer PROVE Controls'
  <2>1. blocking' = blocking /\ cpc' = cpc
    BY <1>2 DEF manageMail, Unlink, Create, WaitFull, WaitMutexS, Read, PostMutexS, PostEmpty,
                EndServer, StepS, clientVars
  <2>2. spc' \in {"unlink", "create", "no mailslot", "wait full", "wait mutex", "read", "post mutex",
                  "post empty"}
    BY <1>2 DEF manageMail, Unlink, Create, WaitFull, WaitMutexS, Read, PostMutexS, PostEmpty,
                EndServer, StepS
  <2> QED
    BY <2>1, <2>2
<1>3. ASSUME UNCHANGED vars PROVE Controls'
  BY <1>3 DEF vars, clientVars, serverVars
<1> HIDE DEF Typed, Controls
<1> QED
  BY <1>1, <1>2, <1>3 DEF Next, felixClient, clientStep, Idle

(* A sem_wait that passes has found a token, so no semaphore gets          *)
(* negative.                                                               *)
LEMMA TokensStep ==
  ASSUME Typed, [Next]_vars PROVE Tokens'
<1>n. semEmpty \in Nat /\ semFull \in Nat /\ semMutex \in Nat
  BY DEF Typed, Tokens
<1> USE DEF Tokens, semVars
<1>1. ASSUME NEW c \in Client, clientStep(c) \/ EndClient(c) PROVE Tokens'
  <2>1. CASE TypeAndConnect(c) \/ Write(c) \/ WriteFelix(c) \/ EndClient(c)
    BY <1>n, <2>1, SemaphoreSteps
  <2>2. CASE WaitEmpty(c)
    BY <1>n, <2>2, SemaphoreSteps
  <2>3. CASE WaitMutexC(c)
    BY <1>n, <2>3, SemaphoreSteps
  <2>4. CASE PostMutexC(c)
    BY <1>n, <2>4, SemaphoreSteps
  <2>5. CASE PostFull(c)
    BY <1>n, <2>5, SemaphoreSteps
  <2> QED
    BY <1>1, <2>1, <2>2, <2>3, <2>4, <2>5 DEF clientStep, client
<1>2. ASSUME manageMail \/ EndServer PROVE Tokens'
  <2>1. CASE Unlink \/ Create \/ Read \/ EndServer
    BY <1>n, <2>1, SemaphoreSteps
  <2>2. CASE WaitFull
    BY <1>n, <2>2, SemaphoreSteps
  <2>3. CASE WaitMutexS
    BY <1>n, <2>3, SemaphoreSteps
  <2>4. CASE PostMutexS
    BY <1>n, <2>4, SemaphoreSteps
  <2>5. CASE PostEmpty
    BY <1>n, <2>5, SemaphoreSteps
  <2> QED
    BY <1>2, <2>1, <2>2, <2>3, <2>4, <2>5 DEF manageMail
<1>3. ASSUME UNCHANGED vars PROVE Tokens'
  BY <1>n, <1>3 DEF vars
<1> HIDE DEF Tokens
<1> QED
  BY <1>1, <1>2, <1>3 DEF Next, felixClient, clientStep, Idle

(* The steps that matter for the mailslots that there are.                 *)
LEMMA StartSteps ==
  ASSUME NEW c
  PROVE  /\ clientStep(c) => UNCHANGED <<spc, mq, ends>>
         /\ EndClient(c) => ends < MaxEnds /\ ends' = ends + 1 /\ UNCHANGED <<spc, mq>>
         /\ Unlink => spc \in Down /\ spc' \in Down /\ UNCHANGED <<mq, ends>>
         /\ Create => /\ spc \in Down /\ UNCHANGED ends
                      /\ \/ spc' \notin Down /\ mq' = mq + 1
                         \/ spc' \in Down /\ spc' = "no mailslot" /\ mq' = mq /\ named' = named
         /\ WaitFull \/ WaitMutexS \/ Read \/ PostMutexS \/ PostEmpty =>
              /\ spc \notin Down /\ spc' \notin Down
              /\ UNCHANGED <<mq, ends>>
         /\ EndServer => ends < MaxEnds /\ ends' = ends + 1 /\ spc' \in Down /\ UNCHANGED mq
BY DEF clientStep, client, TypeAndConnect, WaitEmpty, WaitMutexC, Write, WriteFelix, PostMutexC,
       PostFull, EndClient, Unlink, Create, WaitFull, WaitMutexS, Read, PostMutexS, PostEmpty,
       EndServer, StepC, StepS, serverVars, slotVars, endVars, Down

LEMMA LossesStep ==
  ASSUME Typed, [Next]_vars PROVE Losses'
<1>n. Losses /\ NumTaking \in Nat /\ NumTaken \in Nat /\ NumInsideS \in Nat
  BY NumBits DEF Typed
<1> USE DEF Losses
<1>1. ASSUME NEW c \in Client, clientStep(c) \/ manageMail PROVE Losses'
  BY <1>n, <1>1, LostSteps
<1>2. ASSUME NEW c \in Client, EndClient(c) PROVE Losses'
  BY <1>n, <1>2, LostSteps
<1>3. CASE EndServer
  BY <1>n, <1>3, LostSteps
<1>4. CASE manageMail
  BY <1>n, <1>4, LostSteps
<1>5. CASE UNCHANGED vars
  BY <1>n, <1>5 DEF vars, endVars
<1> HIDE DEF Losses
<1> QED
  BY <1>1, <1>2, <1>3, <1>4, <1>5 DEF Next, felixClient, clientStep, Idle

(* The server creates one mailslot per start, and starts once more than it *)
(* is ended.                                                               *)
LEMMA StartsStep ==
  ASSUME Typed, [Next]_vars PROVE Starts'
<1>n. Starts /\ MaxEnds \in Nat
  BY SlotAssumption DEF Typed
<1> USE DEF Starts
<1>1. ASSUME UNCHANGED <<spc, mq, ends>> PROVE Starts'
  BY <1>n, <1>1
<1>2. ASSUME NEW c \in Client, EndClient(c) PROVE Starts'
  <2>1. ends < MaxEnds /\ ends' = ends + 1 /\ spc' = spc /\ mq' = mq
    BY <1>2, StartSteps
  <2>2. ends' \in Nat /\ ends' <= MaxEnds /\ ends <= ends' /\ mq <= ends' + 1
    BY <1>n, <2>1
  <2>3. mq <= ends => mq <= ends'
    BY <1>n, <2>2
  <2> QED
    BY <1>n, <2>1, <2>2, <2>3
<1>3. ASSUME Unlink PROVE Starts'
  BY <1>n, <1>3, StartSteps
<1>4. ASSUME Create PROVE Starts'
  <2>1. spc \in Down /\ ends' = ends
    BY <1>4, StartSteps
  <2>2. mq <= ends
    BY <1>n, <2>1
  <2>3. ASSUME spc' \notin Down, mq' = mq + 1 PROVE mq' \in Nat /\ mq' <= ends' + 1 /\ mq' > 0
    <3>1. mq \in Nat /\ ends \in Nat /\ mq' = mq + 1 /\ ends' = ends
      BY <1>n, <2>1, <2>3
    <3> HIDE DEF Starts
    <3> QED
      BY <2>2, <3>1
  <2> QED
    BY <1>n, <1>4, <2>1, <2>2, <2>3, StartSteps
<1>5. ASSUME WaitFull \/ WaitMutexS \/ Read \/ PostMutexS \/ PostEmpty PROVE Starts'
  BY <1>n, <1>5, StartSteps
<1>6. ASSUME EndServer PROVE Starts'
  <2>1. ends < MaxEnds /\ ends' = ends + 1 /\ spc' \in Down /\ mq' = mq
    BY <1>6, StartSteps
  <2>2. ends' \in Nat /\ ends' <= MaxEnds /\ mq' <= ends' /\ mq' <= ends' + 1
    BY <1>n, <2>1
  <2> QED
    BY <1>n, <2>1, <2>2
<1>7. ASSUME NEW c \in Client, clientStep(c) PROVE Starts'
  BY <1>1, <1>7, StartSteps
<1>8. ASSUME UNCHANGED vars PROVE Starts'
  BY <1>1, <1>8 DEF vars, serverVars, endVars
<1> HIDE DEF Starts
<1> QED
  BY <1>2, <1>3, <1>4, <1>5, <1>6, <1>7, <1>8
     DEF Next, felixClient, clientStep, manageMail, Idle

(* Descriptors and the name /mq1 are of mailslots that were made.          *)
LEMMA NumbersStep ==
  ASSUME Typed, [Next]_vars PROVE Numbers'
<1> USE DEF Numbers
<1>n. Numbers /\ Starts /\ Controls /\ MaxRequests \in Nat
  BY SlotAssumption DEF Typed
<1>1. ASSUME NEW c \in Client, TypeAndConnect(c) PROVE Numbers'
  <2>1. /\ mq' = mq /\ named' = named /\ typed[c] < MaxRequests
        /\ cpc' = [cpc EXCEPT ![c] = IF named = Unnamed THEN "type" ELSE "wait empty"]
        /\ typed' = [typed EXCEPT ![c] = @ + 1]
        /\ mq2' = [mq2 EXCEPT ![c] = named]
    BY <1>1 DEF TypeAndConnect, StepC, serverVars, slotVars
  <2>2. mq2' \in [Client -> (1 .. mq') \cup {Unnamed}] /\ named' \in (1 .. mq') \cup {Unnamed}
    BY <1>n, <2>1
  <2>3. typed[c] + 1 \in 0 .. MaxRequests /\ typed[c] + 1 > 0
    <3>1. typed[c] \in 0 .. MaxRequests
      BY <1>n
    <3>2. typed[c] < MaxRequests /\ MaxRequests \in Nat
      BY <1>n, <2>1
    <3> HIDE DEF Numbers
    <3> QED
      BY <3>1, <3>2
  <2>4. typed' \in [Client -> 0 .. MaxRequests] /\ typed'[c] > 0
    BY <1>n, <2>1, <2>3
  <2>5. \A b \in Client : cpc'[b] # "type" => mq2'[b] # Unnamed
    BY <1>n, <2>1 DEF Controls
  <2>6. \A b \in Client : cpc'[b] # "type" => typed'[b] > 0
    BY <1>n, <2>1, <2>4 DEF Controls
  <2> QED
    BY <2>2, <2>4, <2>5, <2>6
<1>2. ASSUME NEW c \in Client,
             \/ WaitEmpty(c) \/ WaitMutexC(c) \/ Write(c) \/ WriteFelix(c) \/ PostMutexC(c)
             \/ PostFull(c) \/ EndClient(c)
      PROVE  Numbers'
  <2>1. UNCHANGED <<mq, named, mq2, typed>>
    BY <1>2 DEF WaitEmpty, WaitMutexC, Write, WriteFelix, PostMutexC, PostFull, EndClient, StepC,
                serverVars, slotVars
  <2>2. \A b \in Client : cpc'[b] # "type" => cpc[b] # "type"
    BY <1>n, <1>2 DEF WaitEmpty, WaitMutexC, Write, WriteFelix, PostMutexC, PostFull, EndClient,
                      StepC, Controls
  <2> QED
    BY <1>n, <2>1, <2>2
<1>3. CASE Unlink
  <2>1. UNCHANGED <<mq, cpc, mq2, typed>> /\ named' = Unnamed
    BY <1>3 DEF Unlink, StepS, clientVars
  <2> QED
    BY <1>n, <2>1
<1>4. CASE Create
  <2>0. UNCHANGED <<cpc, mq2, typed>> /\ (UNCHANGED <<mq, named>> \/ (mq' = mq + 1 /\ named' = mq + 1))
    <3>1. CASE StepS("create", "wait full") /\ mq' = mq + 1 /\ named' = mq + 1
      BY <3>1 DEF StepS, clientVars
    <3>2. CASE StepS("create", "no mailslot") /\ UNCHANGED <<mq, named>>
      BY <3>2 DEF StepS, clientVars
    <3> QED
      BY <1>4, <3>1, <3>2 DEF Create
  <2>1. CASE UNCHANGED <<mq, named>>
    BY <1>n, <2>0, <2>1
  <2>2. CASE mq' = mq + 1 /\ named' = mq + 1
    <3>2. named' \in 1 .. mq' /\ 1 .. mq \subseteq 1 .. mq'
      BY <1>n, <2>2 DEF Starts
    <3>3. mq2' \in [Client -> (1 .. mq') \cup {Unnamed}]
      <4>1. (1 .. mq) \cup {Unnamed} \subseteq (1 .. mq') \cup {Unnamed}
        BY <3>2
      <4>2. mq2' \in [Client -> (1 .. mq) \cup {Unnamed}]
        BY <1>n, <2>0
      <4> QED
        BY <4>1, <4>2, Zenon
    <3> QED
      BY <1>n, <2>0, <3>2, <3>3
  <2> QED
    BY <2>0, <2>1, <2>2
<1>5. CASE WaitFull \/ WaitMutexS \/ Read \/ PostMutexS \/ PostEmpty \/ EndServer
  <2>1. UNCHANGED <<mq, named, cpc, mq2, typed>>
    BY <1>5 DEF WaitFull, WaitMutexS, Read, PostMutexS, PostEmpty, EndServer, StepS, clientVars,
                slotVars
  <2> QED
    BY <1>n, <2>1
<1>6. CASE UNCHANGED vars
  <2>1. UNCHANGED <<mq, named, cpc, mq2, typed>>
    BY <1>6 DEF vars, clientVars, serverVars, slotVars
  <2> QED
    BY <1>n, <2>1
<1> HIDE DEF Numbers
<1> QED
  BY <1>1, <1>2, <1>3, <1>4, <1>5, <1>6 DEF Next, felixClient, client, manageMail, Idle

(* The mailslot that a writing client has open is one that was made.       *)
LEMMA WriterHasSlot ==
  ASSUME Typed, NEW c \in Client, cpc[c] # "type"
  PROVE  /\ mq2[c] \in 1 .. mq /\ mq2[c] \in Slot /\ <<c, typed[c]>> \in Message
         /\ slot[mq2[c]] \in Seq(Message)
<1>1. mq2[c] \in 1 .. mq
  BY DEF Typed, Numbers
<1>2. mq2[c] \in Slot
  BY <1>1, SlotAssumption DEF Typed, Starts, Slot
<1>3. typed[c] \in 1 .. MaxRequests
  BY SlotAssumption DEF Typed, Numbers
<1> QED
  BY <1>1, <1>2, <1>3 DEF Typed, Mail, Message

(* manageMail reads a mailslot that it has made.                           *)
LEMMA ReaderHasSlot ==
  ASSUME Typed, spc \notin Down
  PROVE  /\ mq \in Slot
         /\ slot[mq] \in Seq(Message) /\ received[mq] \in Seq(Message)
<1>1. mq \in Slot
  BY SlotAssumption DEF Typed, Starts, Slot
<1> QED
  BY <1>1 DEF Typed, Mail

(* What steps do to the mailslots.                                         *)
LEMMA SlotSteps ==
  ASSUME Typed, [Next]_vars
  PROVE  \/ UNCHANGED <<slot, received>>
         \/ \E c \in Client : /\ Write(c) \/ WriteFelix(c)
                              /\ Len(slot[mq2[c]]) < MAXMSG
                              /\ slot' = [slot EXCEPT ![mq2[c]] = Append(@, <<c, typed[c]>>)]
                              /\ received' = received
         \/ /\ Read /\ slot[mq] # << >>
            /\ received' = [received EXCEPT ![mq] = Append(@, Head(slot[mq]))]
            /\ slot' = [slot EXCEPT ![mq] = Tail(@)]
<1>1. ASSUME NEW c \in Client, TypeAndConnect(c) \/ WaitEmpty(c) \/ WaitMutexC(c) \/ PostMutexC(c)
                                 \/ PostFull(c) \/ EndClient(c)
      PROVE  UNCHANGED <<slot, received>>
  BY <1>1 DEF TypeAndConnect, WaitEmpty, WaitMutexC, PostMutexC, PostFull, EndClient, slotVars
<1>2. ASSUME Unlink \/ Create \/ WaitFull \/ WaitMutexS \/ PostMutexS \/ PostEmpty \/ EndServer
             \/ UNCHANGED vars
      PROVE  UNCHANGED <<slot, received>>
  BY <1>2 DEF Unlink, Create, WaitFull, WaitMutexS, PostMutexS, PostEmpty, EndServer, vars, slotVars
<1>3. ASSUME NEW c \in Client, Write(c) \/ WriteFelix(c)
      PROVE  /\ received' = received
             /\ \/ slot' = slot
                \/ /\ Len(slot[mq2[c]]) < MAXMSG
                   /\ slot' = [slot EXCEPT ![mq2[c]] = Append(@, <<c, typed[c]>>)]
  BY <1>3 DEF Write, WriteFelix
<1>4. ASSUME Read
      PROVE  \/ UNCHANGED <<slot, received>>
             \/ /\ slot[mq] # << >>
                /\ received' = [received EXCEPT ![mq] = Append(@, Head(slot[mq]))]
                /\ slot' = [slot EXCEPT ![mq] = Tail(@)]
  BY <1>4 DEF Read
<1> QED
  BY <1>1, <1>2, <1>3, <1>4 DEF Next, felixClient, client, manageMail, Idle

(* From where a client writes.                                             *)
LEMMA WriteFrom ==
  ASSUME NEW c, Write(c) \/ WriteFelix(c)
  PROVE  cpc[c] = "write" /\ UNCHANGED <<mq, spc, ends>>
BY DEF Write, WriteFelix, StepC, serverVars, endVars

(* From where the server reads.                                            *)
LEMMA ReadFrom ==
  ASSUME Read
  PROVE  /\ spc = "read" /\ spc' = "post mutex" /\ UNCHANGED <<mq, ends, cpc>>
         /\ spc \notin Down /\ spc' \notin Down
BY DEF Read, StepS, clientVars, endVars, Down

(* What waits in mailslots, and what was read, are requests.               *)
LEMMA MailStep ==
  ASSUME Typed, [Next]_vars PROVE Mail'
<1>0. Mail
  BY DEF Typed
<1>1. CASE UNCHANGED <<slot, received>>
  BY <1>0, <1>1 DEF Mail
<1>2. ASSUME NEW c \in Client, Write(c) \/ WriteFelix(c),
             slot' = [slot EXCEPT ![mq2[c]] = Append(@, <<c, typed[c]>>)], received' = received
      PROVE  Mail'
  <2>1. /\ mq2[c] \in Slot /\ slot[mq2[c]] \in Seq(Message) /\ <<c, typed[c]>> \in Message
    BY <1>2, WriteFrom, WriterHasSlot
  <2>2. Append(slot[mq2[c]], <<c, typed[c]>>) \in Seq(Message)
    BY <2>1, AppendProperties
  <2> QED
    BY <1>0, <1>2, <2>1, <2>2 DEF Mail
<1>3. ASSUME Read, slot[mq] # << >>,
             received' = [received EXCEPT ![mq] = Append(@, Head(slot[mq]))],
             slot' = [slot EXCEPT ![mq] = Tail(@)]
      PROVE  Mail'
  <2>1. mq \in Slot /\ slot[mq] \in Seq(Message) /\ received[mq] \in Seq(Message)
    BY <1>3, ReadFrom, ReaderHasSlot
  <2>2. Head(slot[mq]) \in Message /\ Tail(slot[mq]) \in Seq(Message)
    BY <1>3, <2>1, HeadTailProperties
  <2>3. Append(received[mq], Head(slot[mq])) \in Seq(Message)
    BY <2>1, <2>2, AppendProperties
  <2> QED
    BY <1>0, <1>3, <2>1, <2>2, <2>3 DEF Mail
<1> QED
  BY <1>1, <1>2, <1>3, SlotSteps

-----------------------------------------------------------------------------
(* The invariant holds before the first server has started.                *)
LEMMA AtFirst ==
  ASSUME Init PROVE Typed /\ Counts
<1> USE SlotAssumption DEF Init
<1>1. Controls /\ Tokens /\ Losses
  BY DEF Controls, Tokens, Losses, Down
<1>2. Starts
  BY DEF Starts, Down
<1>3. Numbers
  BY DEF Numbers
<1>4. Mail
  <2>1. << >> \in Seq(Message)
    BY EmptySeq
  <2> QED
    BY <2>1 DEF Mail
<1>5. Reserving = {} /\ Writers = {} /\ InsideC = {}
  BY DEF Reserving, Writers, InsideC
<1>6. Cardinality(Reserving) = 0 /\ Cardinality(Writers) = 0 /\ Cardinality(InsideC) = 0
  BY <1>5, FS_EmptySet
<1>7. NumTaking = 0 /\ NumTaken = 0 /\ NumInsideS = 0
  BY DEF NumTaking, NumTaken, NumInsideS
<1>8. Counts
  BY <1>6, <1>7 DEF Counts, TokenCount, MutexCount
<1> HIDE DEF Init
<1> QED
  BY <1>1, <1>2, <1>3, <1>4, <1>8 DEF Typed

(* What is counted bounds the semaphores.                                  *)
LEMMA AllTyped ==
  ASSUME Typed, Counts PROVE NoExtraTokens
<1>n. /\ semEmpty \in Nat /\ semFull \in Nat /\ semMutex \in Nat /\ BUFFER_SIZE \in Nat
      /\ Cardinality(Reserving) \in Nat /\ Cardinality(Writers) \in Nat
      /\ Cardinality(InsideC) \in Nat
      /\ NumTaking \in Nat /\ NumTaken \in Nat /\ NumInsideS \in Nat
  BY SetSizes, NumBits, SlotAssumption DEF Typed, Tokens
<1>0. lost \in Nat /\ lostMutex \in Nat
  BY DEF Typed, Losses
<1>c. /\ semEmpty + semFull + Cardinality(Reserving) + Cardinality(Writers) + NumTaking + NumTaken
           <= BUFFER_SIZE
      /\ semMutex + Cardinality(InsideC) + NumInsideS <= 1
  BY <1>n, <1>0 DEF Counts, TokenCount, MutexCount
<1>1. /\ semEmpty \in 0 .. BUFFER_SIZE /\ semFull \in 0 .. BUFFER_SIZE
  BY <1>n, <1>c
<1>2. semMutex \in 0 .. 1
  BY <1>n, <1>c
<1>3. /\ mq \in 0 .. ends + 1 /\ ends \in 0 .. MaxEnds
      /\ spc \notin Down => mq \in Slot
      /\ 1 .. mq \subseteq Slot
  BY SlotAssumption DEF Typed, Starts, Slot
<1>4. named \in Slot \cup {Unnamed}
  BY <1>3 DEF Typed, Numbers
<1>5. mq2 \in [Client -> Slot \cup {Unnamed}]
  <2>1. (1 .. mq) \cup {Unnamed} \subseteq Slot \cup {Unnamed}
    BY <1>3
  <2>2. mq2 \in [Client -> (1 .. mq) \cup {Unnamed}]
    BY DEF Typed, Numbers
  <2> QED
    BY <2>1, <2>2, Zenon
<1>6. \A c \in Client : cpc[c] # "type" => mq2[c] \in Slot
  BY WriterHasSlot
<1>7. TypeOK
  BY <1>1, <1>2, <1>3, <1>4, <1>5, <1>6 DEF TypeOK, Typed, Controls, Numbers, Mail
<1> QED
  BY <1>7, <1>c DEF NoExtraTokens

(* The inductive invariant of the request path.                            *)
LEMMA Inductive ==
  Spec => [](Typed /\ Counts)
<1>1. ASSUME Typed /\ Counts, [Next]_vars PROVE (Typed /\ Counts)'
  BY <1>1, ControlsStep, TokensStep, LossesStep, StartsStep, NumbersStep, MailStep, CountsStep DEF Typed
<1> QED
  BY <1>1, AtFirst, PTL DEF Spec

(* NoExtraTokens: whichever process of lab3 or lab3felix is ended at       *)
(* whichever statement, and however often, semempty, semfull and what      *)
(* running threads hold of them never exceed BUFFER_SIZE, and at most one  *)
(* thread of all processes is between sem_wait and sem_post of semmutex.   *)
THEOREM TokensNotMadeUp ==
  Spec => []NoExtraTokens
<1>1. Typed /\ Counts => NoExtraTokens
  BY AllTyped
<1> QED
  BY <1>1, Inductive, PTL

(* OnlyEndsLoseTokens: a token is missing exactly if it was in the hands   *)
(* of a process that was ended, so neither a restart of the server nor a   *)
(* request that found no room loses one; and once the token of semmutex is *)
(* missing nobody is between sem_wait and sem_post again.                  *)
THEOREM TokensLostOnlyByEnds ==
  Spec => []OnlyEndsLoseTokens
<1>1. ASSUME Typed /\ Counts PROVE OnlyEndsLoseTokens
  <2>1. /\ Cardinality(Reserving) \in Nat /\ Cardinality(Writers) \in Nat
        /\ Cardinality(InsideC) \in Nat /\ IsFiniteSet(InsideC)
        /\ NumTaking \in 0 .. 1 /\ NumTaken \in 0 .. 1 /\ NumInsideS \in 0 .. 1
    BY SetSizes, SetsFinite, NumBits
  <2>2. /\ semEmpty \in Nat /\ semFull \in Nat /\ semMutex \in Nat
        /\ lost \in Nat /\ lostMutex \in Nat /\ BUFFER_SIZE \in Nat
    BY <1>1, SlotAssumption DEF Typed, Tokens, Losses
  <2>3. semEmpty + semFull + Cardinality(Reserving) + Cardinality(Writers) + NumTaking + NumTaken
          = BUFFER_SIZE - lost
    BY <1>1, <2>1, <2>2 DEF Counts, TokenCount
  <2>4. semMutex + Cardinality(InsideC) + NumInsideS = 1 - lostMutex
    BY <1>1, <2>1, <2>2 DEF Counts, MutexCount
  <2>5. ASSUME lostMutex > 0 PROVE InsideC = {} /\ NumInsideS = 0
    <3>1. Cardinality(InsideC) = 0 /\ NumInsideS = 0
      BY <2>1, <2>2, <2>4, <2>5
    <3> QED
      BY <2>1, <3>1, FS_EmptySet
  <2> QED
    BY <2>3, <2>4, <2>5 DEF OnlyEndsLoseTokens
<1> QED
  BY <1>1, Inductive, PTL

-----------------------------------------------------------------------------
(* The mailslot that the server reads.  One that is yet to be made is      *)
(* empty; the one that is read holds no more requests than there are       *)
(* tokens away from semempty.                                              *)
Up == spc \notin Down
Fresh == \A g \in Slot : g > mq => slot[g] = << >>
RoomCount ==
  Up => semEmpty + Len(slot[mq]) + Cardinality(Reserving) + NumTaken <= BUFFER_SIZE

(* All steps but the writes and the read leave the mailslots alone.        *)
LEMMA SlotUnchanged ==
  ASSUME NEW c,
         \/ TypeAndConnect(c) \/ WaitEmpty(c) \/ WaitMutexC(c) \/ PostMutexC(c) \/ PostFull(c)
         \/ EndClient(c) \/ Unlink \/ Create \/ WaitFull \/ WaitMutexS \/ PostMutexS \/ PostEmpty
         \/ EndServer \/ UNCHANGED vars
  PROVE  slot' = slot
BY DEF TypeAndConnect, WaitEmpty, WaitMutexC, PostMutexC, PostFull, EndClient, Unlink, Create,
       WaitFull, WaitMutexS, PostMutexS, PostEmpty, EndServer, vars, slotVars

(* Mailslots are numbered in the order they are made.                      *)
LEMMA MqGrows ==
  ASSUME Typed, [Next]_vars PROVE mq \in Nat /\ mq' \in Nat /\ mq <= mq'
<1>1. mq \in Nat
  BY DEF Typed, Starts
<1>2. mq' = mq \/ mq' = mq + 1
  <2>1. mq' = mq \/ Create
    BY StartSteps DEF Next, felixClient, clientStep, manageMail, Idle, vars, serverVars
  <2> QED
    BY <2>1, StartSteps
<1> QED
  BY <1>1, <1>2

(* Nobody has a descriptor of a mailslot that is yet to be made.           *)
LEMMA FreshStep ==
  ASSUME Typed, Fresh, [Next]_vars PROVE Fresh'
<1>1. SUFFICES ASSUME NEW g \in Slot, g > mq' PROVE slot'[g] = << >>
  BY DEF Fresh, Slot
<1>2. g > mq /\ g \notin 1 .. mq
  BY <1>1, MqGrows DEF Slot
<1>3. slot[g] = << >>
  BY <1>2 DEF Fresh
<1>4. slot \in [Slot -> Seq(Message)]
  BY DEF Typed, Mail
<1>5. ASSUME NEW c \in Client, Write(c) \/ WriteFelix(c),
             slot' = [slot EXCEPT ![mq2[c]] = Append(@, <<c, typed[c]>>)]
      PROVE  slot'[g] = << >>
  <2>1. mq2[c] # g
    BY <1>2, <1>5, WriteFrom, WriterHasSlot
  <2> QED
    BY <1>3, <1>4, <1>5, <2>1
<1>6. ASSUME slot' = [slot EXCEPT ![mq] = Tail(@)] PROVE slot'[g] = << >>
  <2>1. mq # g
    BY <1>2, MqGrows DEF Slot
  <2> QED
    BY <1>3, <1>4, <1>6, <2>1
<1> QED
  BY <1>3, <1>5, <1>6, SlotSteps

(* How many requests wait in the mailslot that is read.                    *)
LEMMA Lengths ==
  ASSUME Typed, Up
  PROVE  /\ Len(slot[mq]) \in Nat
         /\ \A c \in Client : Write(c) \/ WriteFelix(c) =>
              /\ Len(slot'[mq]) \in Nat
              /\ Len(slot'[mq]) <= Len(slot[mq]) + 1
              /\ mq2[c] = mq /\ Len(slot[mq]) < MAXMSG => Len(slot'[mq]) = Len(slot[mq]) + 1
         /\ Read /\ slot[mq] # << >> => Len(slot'[mq]) = Len(slot[mq]) - 1
         /\ Read /\ slot[mq] = << >> => Len(slot[mq]) = 0 /\ Len(slot'[mq]) = 0
<1>1. mq \in Slot /\ slot[mq] \in Seq(Message) /\ slot \in [Slot -> Seq(Message)]
  BY ReaderHasSlot DEF Up, Typed, Mail
<1>2. Len(slot[mq]) \in Nat
  BY <1>1, LenProperties
<1>3. ASSUME NEW c \in Client, Write(c) \/ WriteFelix(c)
      PROVE  /\ Len(slot'[mq]) \in Nat
             /\ Len(slot'[mq]) <= Len(slot[mq]) + 1
             /\ mq2[c] = mq /\ Len(slot[mq]) < MAXMSG => Len(slot'[mq]) = Len(slot[mq]) + 1
  <2>1. mq2[c] \in Slot /\ <<c, typed[c]>> \in Message
    BY <1>3, WriteFrom, WriterHasSlot
  <2>2. /\ \/ slot' = slot
           \/ slot' = [slot EXCEPT ![mq2[c]] = Append(@, <<c, typed[c]>>)]
        /\ Len(slot[mq2[c]]) < MAXMSG =>
             slot' = [slot EXCEPT ![mq2[c]] = Append(@, <<c, typed[c]>>)]
    BY <1>3 DEF Write, WriteFelix
  <2>3. Len(Append(slot[mq], <<c, typed[c]>>)) = Len(slot[mq]) + 1
    BY <1>1, <2>1, AppendProperties
  <2>4. \/ slot'[mq] = slot[mq]
        \/ slot'[mq] = Append(slot[mq], <<c, typed[c]>>)
    BY <1>1, <2>2
  <2>5. mq2[c] = mq /\ Len(slot[mq]) < MAXMSG => slot'[mq] = Append(slot[mq], <<c, typed[c]>>)
    BY <1>1, <2>2
  <2>6. Len(slot'[mq]) = Len(slot[mq]) \/ Len(slot'[mq]) = Len(slot[mq]) + 1
    BY <2>3, <2>4
  <2>7. Len(slot'[mq]) \in Nat /\ Len(slot'[mq]) <= Len(slot[mq]) + 1
    BY <1>2, <2>6
  <2> QED
    BY <2>3, <2>5, <2>7
<1>4. ASSUME Read, slot[mq] # << >> PROVE Len(slot'[mq]) = Len(slot[mq]) - 1
  <2>1. slot'[mq] = Tail(slot[mq])
    BY <1>1, <1>4 DEF Read
  <2> QED
    BY <1>1, <1>4, <2>1, HeadTailProperties
<1>5. ASSUME Read, slot[mq] = << >> PROVE Len(slot[mq]) = 0 /\ Len(slot'[mq]) = 0
  <2>1. slot' = slot
    BY <1>5 DEF Read
  <2> QED
    BY <1>5, <2>1, EmptySeq
<1> QED
  BY <1>2, <1>3, <1>4, <1>5

(* Arithmetic of PostEmpty.                                                *)
LEMMA GiveBack ==
  ASSUME NEW e \in Nat, NEW n \in Nat, NEW r \in Nat, NEW b \in Nat, e + n + r + 1 <= b
  PROVE  (e + 1) + n + r + 0 <= b
OBVIOUS

(* Arithmetic of Write.                                                    *)
LEMMA MoveToken ==
  ASSUME NEW e \in Nat, NEW n \in Nat, NEW m \in Nat, NEW r \in Nat, NEW d \in Nat,
         NEW b \in Nat, m <= n + 1, e + n + r + d <= b
  PROVE  e + m + (r - 1) + d <= b
OBVIOUS

(* A request comes into the mailslot with the token of the client that     *)
(* wrote it; after a failed read the tokens leave room anyway.             *)
LEMMA RoomStep ==
  ASSUME Typed, Counts, Fresh, RoomCount, [Next]_vars PROVE RoomCount'
<1>n. /\ semEmpty \in Nat /\ semFull \in Nat /\ BUFFER_SIZE \in Nat
      /\ Cardinality(Reserving) \in Nat /\ Cardinality(Writers) \in Nat
      /\ NumTaking \in Nat /\ NumTaken \in Nat /\ lost \in Nat
  BY SetSizes, NumBits, SlotAssumption DEF Typed, Tokens, Losses
<1>c. semEmpty + semFull + Cardinality(Reserving) + Cardinality(Writers) + NumTaking + NumTaken
        <= BUFFER_SIZE
  BY <1>n DEF Counts, TokenCount
<1>1. CASE ~Up
  <2>1. CASE Create /\ Up'
    <3>1. mq' = mq + 1 /\ slot' = slot
      BY <2>1, StartSteps, SlotUnchanged DEF Up
    <3>2. mq + 1 \in Slot /\ mq + 1 > mq
      BY <1>1, SlotAssumption DEF Typed, Starts, Up, Slot
    <3>3. Len(slot[mq + 1]) = 0
      BY <3>2, EmptySeq DEF Fresh
    <3>4. semEmpty' = semEmpty /\ Reserving' = Reserving /\ NumTaken' = NumTaken
      BY <2>1, SemaphoreSteps, ServerNums, ServerSets DEF manageMail, semVars, Sets, Nums
    <3>5. Cardinality(Reserving)' = Cardinality(Reserving)
      BY <3>4
    <3>6. semEmpty + 0 + Cardinality(Reserving) + NumTaken <= BUFFER_SIZE
      BY <1>n, <1>c
    <3> QED
      BY <3>1, <3>3, <3>4, <3>5, <3>6 DEF RoomCount
  <2>2. CASE ~Up'
    BY <2>2 DEF RoomCount
  <2>3. CASE ~Create
    <3>1. ~Up'
      BY <1>1, <2>3, StartSteps
         DEF Up, Next, felixClient, clientStep, manageMail, Idle, vars, serverVars
    <3> QED
      BY <3>1 DEF RoomCount
  <2> QED
    BY <2>1, <2>2, <2>3
<1>2. CASE Up
  <2>r. /\ semEmpty + Len(slot[mq]) + Cardinality(Reserving) + NumTaken <= BUFFER_SIZE
        /\ Len(slot[mq]) \in Nat
    BY <1>2, Lengths DEF RoomCount
  <2>1. ASSUME NEW c \in Client, Write(c) \/ WriteFelix(c) PROVE RoomCount'
    <3>1. /\ mq' = mq /\ semEmpty' = semEmpty /\ NumTaken' = NumTaken
      BY <2>1, WriteFrom, SemaphoreSteps, ClientNums DEF semVars, Nums, clientStep, client
    <3>2. Cardinality(Reserving)' = Cardinality(Reserving) - 1
      BY <2>1, ClientSets, SetsFinite, JoinOrLeave
    <3>3. Len(slot'[mq]) \in Nat /\ Len(slot'[mq]) <= Len(slot[mq]) + 1
      BY <1>2, <2>1, Lengths
    <3>4. semEmpty + Len(slot'[mq]) + (Cardinality(Reserving) - 1) + NumTaken <= BUFFER_SIZE
      BY <1>n, <2>r, <3>3, MoveToken
    <3> QED
      BY <3>1, <3>2, <3>4 DEF RoomCount
  <2>2. ASSUME NEW c \in Client, WaitEmpty(c) PROVE RoomCount'
    <3>1. /\ mq' = mq /\ slot' = slot /\ semEmpty' = semEmpty - 1 /\ NumTaken' = NumTaken
      BY <2>2, StartSteps, SlotUnchanged, SemaphoreSteps, ClientNums DEF Nums, clientStep, client
    <3>2. Cardinality(Reserving)' = Cardinality(Reserving) + 1
      BY <2>2, ClientSets, SetsFinite, JoinOrLeave
    <3>3. (semEmpty - 1) + Len(slot[mq]) + (Cardinality(Reserving) + 1) + NumTaken <= BUFFER_SIZE
      BY <1>n, <2>r
    <3> QED
      BY <3>1, <3>2, <3>3 DEF RoomCount
  <2>3. ASSUME NEW c \in Client,
               TypeAndConnect(c) \/ WaitMutexC(c) \/ PostMutexC(c) \/ PostFull(c)
        PROVE  RoomCount'
    <3>1. /\ mq' = mq /\ slot' = slot /\ semEmpty' = semEmpty /\ NumTaken' = NumTaken
      BY <2>3, StartSteps, SlotUnchanged, SemaphoreSteps, ClientNums
         DEF semVars, Nums, clientStep, client
    <3>2. Reserving' = Reserving
      BY <2>3, ClientSets DEF Sets
    <3> QED
      BY <2>r, <3>1, <3>2 DEF RoomCount
  <2>4. ASSUME NEW c \in Client, EndClient(c) PROVE RoomCount'
    <3>1. /\ mq' = mq /\ slot' = slot /\ semEmpty' = semEmpty /\ NumTaken' = NumTaken
      BY <2>4, StartSteps, SlotUnchanged, SemaphoreSteps, ClientNums DEF semVars, Nums
    <3>2. Cardinality(Reserving)' \in Nat /\ Cardinality(Reserving)' <= Cardinality(Reserving)
      BY <2>4, ClientSets, SetsFinite, JoinOrLeave
    <3>3. semEmpty + Len(slot[mq]) + Cardinality(Reserving)' + NumTaken <= BUFFER_SIZE
      BY <1>n, <2>r, <3>2
    <3> QED
      BY <3>1, <3>3 DEF RoomCount
  <2>5. CASE Read
    <3>1. /\ mq' = mq /\ semEmpty' = semEmpty
          /\ NumTaking = 1 /\ NumTaken = 0 /\ NumTaken' = 1
      BY <2>5, ReadFrom, SemaphoreSteps, ServerNums DEF semVars
    <3>2. Cardinality(Reserving)' = Cardinality(Reserving)
      BY <2>5, ServerSets DEF manageMail, Sets
    <3>3. semEmpty + Len(slot'[mq]) + Cardinality(Reserving) + 1 <= BUFFER_SIZE
      <4>1. CASE slot[mq] = << >>
        <5>1. Len(slot'[mq]) = 0
          BY <1>2, <2>5, <4>1, Lengths
        <5> QED
          BY <1>n, <1>c, <3>1, <5>1
      <4>2. CASE slot[mq] # << >>
        <5>1. Len(slot'[mq]) = Len(slot[mq]) - 1
          BY <1>2, <2>5, <4>2, Lengths
        <5> QED
          BY <1>n, <2>r, <3>1, <5>1
      <4> QED
        BY <4>1, <4>2
    <3> QED
      BY <3>1, <3>2, <3>3 DEF RoomCount
  <2>6. CASE PostEmpty
    <3>1. /\ mq' = mq /\ slot' = slot /\ semEmpty' = semEmpty + 1
          /\ NumTaken = 1 /\ NumTaken' = 0
      BY <2>6, StartSteps, SlotUnchanged, SemaphoreSteps, ServerNums
    <3>2. Cardinality(Reserving)' = Cardinality(Reserving)
      BY <2>6, ServerSets DEF manageMail, Sets
    <3>t. NumTaken = 1
      BY <3>1
    <3>u. semEmpty + Len(slot[mq]) + Cardinality(Reserving) + 1 <= BUFFER_SIZE
      BY <2>r, <3>t
    <3>3. (semEmpty + 1) + Len(slot[mq]) + Cardinality(Reserving) + 0 <= BUFFER_SIZE
      BY <1>n, <2>r, <3>u, GiveBack
    <3> QED
      BY <3>1, <3>2, <3>3 DEF RoomCount
  <2>7. CASE WaitFull \/ WaitMutexS \/ PostMutexS
    <3>1. /\ mq' = mq /\ slot' = slot /\ semEmpty' = semEmpty /\ NumTaken' = NumTaken
      BY <2>7, StartSteps, SlotUnchanged, SemaphoreSteps, ServerNums
    <3>2. Cardinality(Reserving)' = Cardinality(Reserving)
      BY <2>7, ServerSets DEF manageMail, Sets
    <3> QED
      BY <2>r, <3>1, <3>2 DEF RoomCount
  <2>8. CASE Unlink \/ Create
    BY <1>2, <2>8, StartSteps DEF Up
  <2>9. CASE EndServer
    <3>1. ~Up'
      BY <2>9, StartSteps DEF Up
    <3> QED
      BY <3>1 DEF RoomCount
  <2>10. CASE UNCHANGED vars
    BY <2>10 DEF RoomCount, Up, vars, slotVars, semVars, clientVars, serverVars, Reserving, NumTaken
  <2> QED
    BY <2>1, <2>2, <2>3, <2>4, <2>5, <2>6, <2>7, <2>8, <2>9, <2>10
       DEF Next, felixClient, client, manageMail, Idle
<1> QED
  BY <1>1, <1>2

(* The invariant, with the room in the mailslot that is read.              *)
LEMMA RoomInductive ==
  Spec => [](Typed /\ Counts /\ Fresh /\ RoomCount)
<1>1. Init => Fresh /\ RoomCount
  BY DEF Init, Fresh, RoomCount, Up, Down
<1>2. ASSUME Typed /\ Counts, Fresh, RoomCount, [Next]_vars PROVE Fresh' /\ RoomCount'
  BY <1>2, FreshStep, RoomStep
<1> QED
  BY <1>1, <1>2, Inductive, PTL DEF Spec

(* A client that writes holds a token, which is room for its request.      *)
LEMMA RoomForWriters ==
  ASSUME Typed, RoomCount PROVE RoomInSlot
<1>1. SUFFICES ASSUME Up
      PROVE  /\ semEmpty + Len(slot[mq]) + Cardinality(Reserving) + NumTaken <= BUFFER_SIZE
             /\ \A c \in Client : cpc[c] = "write" => Len(slot[mq]) < MAXMSG
  BY DEF RoomInSlot, Up
<1>2. semEmpty + Len(slot[mq]) + Cardinality(Reserving) + NumTaken <= BUFFER_SIZE
  BY <1>1 DEF RoomCount
<1>3. ASSUME NEW c \in Client, cpc[c] = "write" PROVE Len(slot[mq]) < MAXMSG
  <2>1. c \in Reserving
    BY <1>3 DEF Reserving
  <2>2. /\ Cardinality(Reserving) \in Nat /\ Cardinality(Reserving \ {c}) \in Nat
        /\ Cardinality(Reserving \ {c}) = Cardinality(Reserving) - 1
    BY <2>1, SetsFinite, JoinOrLeave
  <2>3. /\ semEmpty \in Nat /\ BUFFER_SIZE \in Nat /\ MAXMSG \in Nat /\ BUFFER_SIZE <= MAXMSG
        /\ NumTaken \in Nat /\ Len(slot[mq]) \in Nat
    BY <1>1, Lengths, NumBits, SlotAssumption DEF Typed, Tokens
  <2>4. Cardinality(Reserving) >= 1
    BY <2>2
  <2> QED
    BY <1>2, <2>2, <2>3, <2>4
<1> QED
  BY <1>2, <1>3

(* RoomInSlot: a client that writes to the mailslot that is read finds     *)
(* room there, whichever process was ended before.  It holds a token of    *)
(* semempty, and requests and tokens together are at most BUFFER_SIZE.     *)
THEOREM WritesFindRoom ==
  Spec => []RoomInSlot
<1>1. Typed /\ RoomCount => RoomInSlot
  BY RoomForWriters
<1> QED
  BY <1>1, RoomInductive, PTL

-----------------------------------------------------------------------------
(* Before any process is ended.  Until the server has made its mailslot    *)
(* nobody gets past MQconnect, so all tokens are where they were first.    *)
NotYetUp ==
  ends = 0 /\ mq = 0 =>
    /\ spc \in {"create", "no mailslot"}
    /\ named = Unnamed /\ semEmpty = BUFFER_SIZE /\ semFull = 0
    /\ \A c \in Client : cpc[c] = "type"

(* Until there is a mailslot clients are turned back at MQconnect.         *)
LEMMA NotYetUpStep ==
  ASSUME Typed, NotYetUp, [Next]_vars PROVE NotYetUp'
<1>1. SUFFICES ASSUME ends' = 0, mq' = 0 PROVE NotYetUp'
  BY DEF NotYetUp
<1>2. ends \in Nat /\ mq \in Nat
  BY DEF Typed, Starts
<1>3. ~EndServer /\ (\A c \in Client : ~EndClient(c)) /\ (Create => mq' = mq)
  <2>1. Create => mq' = mq + 1 \/ mq' = mq
    BY StartSteps
  <2>2. EndServer \/ (\E c \in Client : EndClient(c)) => ends' = ends + 1
    BY StartSteps
  <2> QED
    BY <1>1, <1>2, <2>1, <2>2
<1>4. ends = 0 /\ mq = 0
  BY <1>1, <1>3, StartSteps
     DEF Next, felixClient, clientStep, manageMail, Idle, vars, serverVars, endVars
<1>5. /\ spc \in {"create", "no mailslot"}
      /\ named = Unnamed /\ semEmpty = BUFFER_SIZE /\ semFull = 0
      /\ \A c \in Client : cpc[c] = "type"
  BY <1>4 DEF NotYetUp
<1>6. ASSUME NEW c \in Client, TypeAndConnect(c) PROVE NotYetUp'
  <2>1. /\ spc' = spc /\ named' = named /\ semEmpty' = semEmpty /\ semFull' = semFull
        /\ cpc' = [cpc EXCEPT ![c] = "type"]
    BY <1>5, <1>6 DEF TypeAndConnect, StepC, serverVars, slotVars, semVars
  <2> QED
    BY <1>5, <2>1 DEF NotYetUp, Typed, Controls
<1>7. ASSUME NEW c \in Client PROVE clientStep(c) => TypeAndConnect(c)
  BY <1>5 DEF clientStep, client, WaitEmpty, WaitMutexC, Write, WriteFelix, PostMutexC,
              PostFull, StepC
<1>8. ~(Unlink \/ WaitFull \/ WaitMutexS \/ Read \/ PostMutexS \/ PostEmpty)
  BY <1>5 DEF Unlink, WaitFull, WaitMutexS, Read, PostMutexS, PostEmpty, StepS
<1>9. ASSUME UNCHANGED vars PROVE NotYetUp'
  BY <1>5, <1>9 DEF NotYetUp, vars, slotVars, semVars, clientVars, serverVars
<1>10. ASSUME Create PROVE NotYetUp'
  <2>1. spc' \in {"create", "no mailslot"} /\ UNCHANGED <<named, cpc>>
    <3>1. ~(mq' = mq + 1)
      <4>1. mq' = 0 /\ mq = 0
        BY <1>1, <1>4
      <4> QED
        BY <4>1
    <3>2. CASE StepS("create", "no mailslot") /\ UNCHANGED <<mq, named>>
      BY <3>2 DEF StepS, clientVars
    <3> QED
      BY <1>10, <3>1, <3>2, Zenon DEF Create
  <2>2. UNCHANGED semVars
    BY <1>10 DEF Create
  <2> QED
    BY <1>5, <2>1, <2>2 DEF NotYetUp, semVars
<1> QED
  BY <1>3, <1>6, <1>7, <1>8, <1>9, <1>10 DEF Next, felixClient, clientStep, manageMail, Idle

(* The only mailslot so far is the one every client writes to.             *)
LEMMA OnlyMailslot ==
  ASSUME Typed, ends = 0, mq > 0
  PROVE  Up /\ \A c \in Client : cpc[c] # "type" => mq2[c] = mq
<1>1. mq = 1 /\ Up
  BY DEF Typed, Starts, Up
<1>2. ASSUME NEW c \in Client, cpc[c] # "type" PROVE mq2[c] = mq
  <2>1. mq2[c] \in 1 .. mq
    BY <1>2, WriterHasSlot
  <2>2. mq2[c] \in 1 .. 1
    BY <1>1, <2>1
  <2> QED
    BY <1>1, <2>2
<1> QED
  BY <1>1, <1>2

(* The arithmetic of TokensAreRequests, with e and f for the semaphores, n *)
(* for the requests that wait, and r, w, t and d for who holds a token.    *)
Balanced(e, f, n, r, w, t, d) == n = f + w + t /\ e + r + n + d = BUFFER_SIZE

(* What each statement does to the balance.                                *)
LEMMA Balances ==
  ASSUME NEW e \in Nat, NEW f \in Nat, NEW n \in Nat, NEW r \in Nat, NEW w \in Nat, NEW t \in Nat,
         NEW d \in Nat, Balanced(e, f, n, r, w, t, d)
  PROVE  /\ Balanced(e - 1, f, n, r + 1, w, t, d)
         /\ Balanced(e, f, n + 1, r - 1, w + 1, t, d)
         /\ Balanced(e, f + 1, n, r, w - 1, t, d)
         /\ t = 0 => Balanced(e, f - 1, n, r, w, 1, d)
         /\ t = 1 /\ d = 0 => Balanced(e, f, n - 1, r, w, 0, 1) /\ n # 0
         /\ d = 1 => Balanced(e + 1, f, n, r, w, t, 0)
BY SlotAssumption DEF Balanced

Balance ==
  Balanced(semEmpty, semFull, Len(slot[mq]), Cardinality(Reserving), Cardinality(Writers),
           NumTaking, NumTaken)

(* TokensAreRequests is the balance once the server is up.                 *)
LEMMA BalanceIs ==
  TokensAreRequests <=> (ends = 0 /\ mq > 0 => Balance)
BY DEF TokensAreRequests, Balance, Balanced

(* Every statement keeps the balance as long as no process is ended.       *)
LEMMA BalanceStep ==
  ASSUME Typed, Fresh, RoomCount, NotYetUp, TokensAreRequests, [Next]_vars,
         ends' = 0, mq' > 0
  PROVE  Balance'
<1>n. /\ semEmpty \in Nat /\ semFull \in Nat /\ BUFFER_SIZE \in Nat
      /\ Cardinality(Reserving) \in Nat /\ Cardinality(Writers) \in Nat
      /\ NumTaking \in Nat /\ NumTaken \in Nat /\ ends \in Nat /\ mq \in Nat
  BY SetSizes, NumBits, SlotAssumption DEF Typed, Tokens, Starts
<1>1. ~EndServer /\ \A c \in Client : ~EndClient(c)
  <2>1. EndServer \/ (\E c \in Client : EndClient(c)) => ends' = ends + 1
    BY StartSteps
  <2> QED
    BY <1>n, <2>1
<1>2. ends = 0
  BY <1>1, StartSteps
     DEF Next, felixClient, clientStep, manageMail, Idle, vars, serverVars, endVars
<1>3. CASE mq = 0
  <2>1. Create /\ mq' = mq + 1
    <3>1. mq' = mq \/ (Create /\ mq' = mq + 1)
      BY StartSteps DEF Next, felixClient, clientStep, manageMail, Idle, vars, serverVars
    <3> QED
      BY <1>3, <3>1
  <2>2. /\ spc \in {"create", "no mailslot"} /\ semEmpty = BUFFER_SIZE /\ semFull = 0
        /\ \A c \in Client : cpc[c] = "type"
    BY <1>2, <1>3 DEF NotYetUp
  <2>3. /\ NumTaking = 0 /\ NumTaken = 0 /\ Reserving = {} /\ Writers = {}
    BY <2>2 DEF NumTaking, NumTaken, Reserving, Writers
  <2>4. /\ semEmpty' = BUFFER_SIZE /\ semFull' = 0 /\ NumTaking' = 0 /\ NumTaken' = 0
        /\ Reserving' = {} /\ Writers' = {}
    BY <2>1, <2>2, <2>3, SemaphoreSteps, ServerNums, ServerSets DEF manageMail, semVars, Sets, Nums
  <2>5. Cardinality(Reserving)' = 0 /\ Cardinality(Writers)' = 0
    BY <2>4, FS_EmptySet
  <2>6. Len(slot'[mq']) = 0
    <3>0. mq' = mq + 1 /\ slot' = slot
      BY <2>1, StartSteps, SlotUnchanged
    <3>1. mq' = 1 /\ slot' = slot
      BY <1>3, <3>0
    <3>2. 1 \in Slot /\ 1 > mq
      BY <1>3, SlotAssumption DEF Slot
    <3> QED
      BY <3>1, <3>2, EmptySeq DEF Fresh
  <2> QED
    BY <1>n, <2>4, <2>5, <2>6 DEF Balance, Balanced
<1>4. CASE mq # 0
  <2>u. Up /\ \A c \in Client : cpc[c] # "type" => mq2[c] = mq
    BY <1>n, <1>2, <1>4, OnlyMailslot
  <2>b. Balance /\ Len(slot[mq]) \in Nat
    BY <1>n, <1>2, <1>4, <2>u, BalanceIs, Lengths
  <2>1. ASSUME NEW c \in Client, Write(c) \/ WriteFelix(c) PROVE Balance'
    <3>1. /\ mq' = mq /\ semEmpty' = semEmpty /\ semFull' = semFull
          /\ NumTaking' = NumTaking /\ NumTaken' = NumTaken
      BY <2>1, WriteFrom, SemaphoreSteps, ClientNums DEF semVars, Nums, clientStep, client
    <3>2. /\ Cardinality(Reserving)' = Cardinality(Reserving) - 1
          /\ Cardinality(Writers)' = Cardinality(Writers) + 1
      BY <2>1, ClientSets, SetsFinite, JoinOrLeave
    <3>3. cpc[c] = "write" /\ mq2[c] = mq
      BY <2>1, <2>u, WriteFrom
    <3>4. Len(slot[mq]) < MAXMSG
      BY <2>u, <3>3, RoomForWriters DEF RoomInSlot, Up
    <3>5. Len(slot'[mq]) = Len(slot[mq]) + 1
      BY <2>u, <2>1, <3>3, <3>4, Lengths
    <3>b. Balanced(semEmpty, semFull, Len(slot[mq]) + 1,
                   Cardinality(Reserving) - 1, Cardinality(Writers) + 1,
                   NumTaking, NumTaken)
      BY <1>n, <2>b, Balances DEF Balance
    <3> QED
      BY <3>1, <3>2, <3>5, <3>b DEF Balance
  <2>2. ASSUME NEW c \in Client, WaitEmpty(c) PROVE Balance'
    <3>1. /\ mq' = mq /\ slot' = slot /\ semEmpty' = semEmpty - 1 /\ semFull' = semFull
          /\ NumTaking' = NumTaking /\ NumTaken' = NumTaken
      BY <2>2, StartSteps, SlotUnchanged, SemaphoreSteps, ClientNums DEF Nums, clientStep, client
    <3>2. /\ Cardinality(Reserving)' = Cardinality(Reserving) + 1
          /\ Cardinality(Writers)' = Cardinality(Writers)
      BY <2>2, ClientSets, SetsFinite, JoinOrLeave
    <3>b. Balanced(semEmpty - 1, semFull, Len(slot[mq]),
                   Cardinality(Reserving) + 1, Cardinality(Writers),
                   NumTaking, NumTaken)
      BY <1>n, <2>b, Balances DEF Balance
    <3> QED
      BY <3>1, <3>2, <3>b DEF Balance
  <2>3. ASSUME NEW c \in Client, PostFull(c) PROVE Balance'
    <3>1. /\ mq' = mq /\ slot' = slot /\ semEmpty' = semEmpty /\ semFull' = semFull + 1
          /\ NumTaking' = NumTaking /\ NumTaken' = NumTaken
      BY <2>3, StartSteps, SlotUnchanged, SemaphoreSteps, ClientNums DEF Nums, clientStep, client
    <3>2. /\ Cardinality(Writers)' = Cardinality(Writers) - 1
          /\ Cardinality(Reserving)' = Cardinality(Reserving)
      BY <2>3, ClientSets, SetsFinite, JoinOrLeave
    <3>b. Balanced(semEmpty, semFull + 1, Len(slot[mq]),
                   Cardinality(Reserving), Cardinality(Writers) - 1,
                   NumTaking, NumTaken)
      BY <1>n, <2>b, Balances DEF Balance
    <3> QED
      BY <3>1, <3>2, <3>b DEF Balance
  <2>4. ASSUME NEW c \in Client, TypeAndConnect(c) \/ WaitMutexC(c) \/ PostMutexC(c)
        PROVE  Balance'
    <3>1. /\ mq' = mq /\ slot' = slot /\ semEmpty' = semEmpty /\ semFull' = semFull
          /\ NumTaking' = NumTaking /\ NumTaken' = NumTaken
      BY <2>4, StartSteps, SlotUnchanged, SemaphoreSteps, ClientNums
         DEF semVars, Nums, clientStep, client
    <3>2. Reserving' = Reserving /\ Writers' = Writers
      BY <2>4, ClientSets DEF Sets
    <3> QED
      BY <2>b, <3>1, <3>2 DEF Balance
  <2>5. CASE Read
    <3>1. /\ mq' = mq /\ semEmpty' = semEmpty /\ semFull' = semFull
          /\ NumTaking = 1 /\ NumTaking' = 0 /\ NumTaken = 0 /\ NumTaken' = 1
      BY <2>5, ReadFrom, SemaphoreSteps, ServerNums DEF semVars
    <3>2. /\ Cardinality(Reserving)' = Cardinality(Reserving)
          /\ Cardinality(Writers)' = Cardinality(Writers)
      BY <2>5, ServerSets DEF manageMail, Sets
    <3>3. Len(slot[mq]) # 0
      BY <1>n, <2>b, <3>1, Balances DEF Balance
    <3>4. Len(slot'[mq]) = Len(slot[mq]) - 1
      BY <2>u, <2>5, <3>3, Lengths
    <3>b. Balanced(semEmpty, semFull, Len(slot[mq]) - 1,
                   Cardinality(Reserving), Cardinality(Writers),
                   0, 1)
      BY <1>n, <2>b, <3>1, Balances DEF Balance
    <3> QED
      BY <3>1, <3>2, <3>4, <3>b DEF Balance
  <2>6. CASE PostEmpty
    <3>1. /\ mq' = mq /\ slot' = slot /\ semEmpty' = semEmpty + 1 /\ semFull' = semFull
          /\ NumTaken = 1 /\ NumTaken' = 0 /\ NumTaking' = NumTaking
      BY <2>6, StartSteps, SlotUnchanged, SemaphoreSteps, ServerNums
    <3>2. /\ Cardinality(Reserving)' = Cardinality(Reserving)
          /\ Cardinality(Writers)' = Cardinality(Writers)
      BY <2>6, ServerSets DEF manageMail, Sets
    <3>b. Balanced(semEmpty + 1, semFull, Len(slot[mq]),
                   Cardinality(Reserving), Cardinality(Writers),
                   NumTaking, 0)
      BY <1>n, <2>b, <3>1, Balances DEF Balance
    <3> QED
      BY <3>1, <3>2, <3>b DEF Balance
  <2>7. CASE WaitFull
    <3>1. /\ mq' = mq /\ slot' = slot /\ semEmpty' = semEmpty /\ semFull' = semFull - 1
          /\ NumTaking = 0 /\ NumTaking' = 1 /\ NumTaken' = NumTaken
      BY <2>7, StartSteps, SlotUnchanged, SemaphoreSteps, ServerNums
    <3>2. /\ Cardinality(Reserving)' = Cardinality(Reserving)
          /\ Cardinality(Writers)' = Cardinality(Writers)
      BY <2>7, ServerSets DEF manageMail, Sets
    <3>b. Balanced(semEmpty, semFull - 1, Len(slot[mq]),
                   Cardinality(Reserving), Cardinality(Writers),
                   1, NumTaken)
      BY <1>n, <2>b, <3>1, Balances DEF Balance
    <3> QED
      BY <3>1, <3>2, <3>b DEF Balance
  <2>8. CASE WaitMutexS \/ PostMutexS
    <3>1. /\ mq' = mq /\ slot' = slot /\ semEmpty' = semEmpty /\ semFull' = semFull
          /\ NumTaken' = NumTaken /\ NumTaking' = NumTaking
      BY <2>8, StartSteps, SlotUnchanged, SemaphoreSteps, ServerNums
    <3>2. /\ Cardinality(Reserving)' = Cardinality(Reserving)
          /\ Cardinality(Writers)' = Cardinality(Writers)
      BY <2>8, ServerSets DEF manageMail, Sets
    <3> QED
      BY <2>b, <3>1, <3>2 DEF Balance
  <2>9. CASE Unlink \/ Create
    BY <2>u, <2>9, StartSteps DEF Up
  <2>10. CASE UNCHANGED vars
    BY <2>b, <2>10 DEF Balance, vars, slotVars, semVars, clientVars, serverVars, Reserving, Writers,
                       NumTaking, NumTaken
  <2> QED
    BY <1>1, <2>1, <2>2, <2>3, <2>4, <2>5, <2>6, <2>7, <2>8, <2>9, <2>10
       DEF Next, felixClient, client, manageMail, Idle
<1> QED
  BY <1>3, <1>4

(* TokensAreRequests: until a process is ended, every token of semfull is  *)
(* a request in the mailslot, so MQread of the server never fails, and no  *)
(* token of semempty is lost.                                              *)
THEOREM NeverReadsInVain ==
  Spec => []TokensAreRequests
<1>1. Init => NotYetUp /\ TokensAreRequests
  BY DEF Init, NotYetUp, TokensAreRequests
<1>2. ASSUME Typed, Fresh, RoomCount, NotYetUp, TokensAreRequests, [Next]_vars
      PROVE  NotYetUp' /\ TokensAreRequests'
  <2>1. ends' = 0 /\ mq' > 0 => Balance'
    BY <1>2, BalanceStep
  <2>2. TokensAreRequests'
    BY <2>1 DEF TokensAreRequests, Balance, Balanced
  <2> QED
    BY <1>2, <2>2, NotYetUpStep
<1> QED
  BY <1>1, <1>2, RoomInductive, PTL DEF Spec

=============================================================================
