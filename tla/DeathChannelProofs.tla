-------------------------- MODULE DeathChannelProofs --------------------------
(***************************************************************************)
(* The death reports of lab3, for any number of planets and clients: what  *)
(* the shared semaphores count, that no more than BUFFER_SIZE reports are  *)
(* ever made, and that no report is lost or misdirected.                   *)
(***************************************************************************)
EXTENDS DeathChannel, FiniteSetTheorems, SequenceTheorems, TLAPS

(* The types without the bounds of the semaphores, which follow from what  *)
(* the semaphores count.                                                   *)
Typed ==
  /\ semEmpty2 \in Nat /\ semFull2 \in Nat /\ semMutex2 \in Nat
  /\ pid \in [Client -> Mailslot]
  /\ slot \in [Mailslot -> Seq(Thread)] /\ read \in [Mailslot -> Seq(Thread)]
  /\ rpc \in [Thread -> {"connect", "alive", "wait empty", "wait mutex", "write",
                         "post mutex", "post full", "reported"}]
  /\ mq1 \in [Thread -> Mailslot \cup {Closed}]
  /\ dpc \in [Client -> {"create", "wait full", "wait mutex", "read", "post mutex", "post full",
                         "no slot"}]
  /\ told \in [Client -> SUBSET Thread]

EmptyCounts == semEmpty2 + Cardinality(Began) = BUFFER_SIZE
FullCounts == semFull2 + Cardinality(Holding) = Cardinality(Done)
MutexCounts == semMutex2 + Cardinality(Inside) = 1
Counts == EmptyCounts /\ FullCounts /\ MutexCounts

Sets == <<Began, Done, Holding, Inside>>

-----------------------------------------------------------------------------
(* A process that joins a finite set makes it one larger, one that leaves  *)
(* makes it one smaller.                                                   *)
LEMMA JoinOrLeave ==
  ASSUME NEW S, IsFiniteSet(S), NEW t
  PROVE  /\ Cardinality(S) \in Nat
         /\ t \notin S => Cardinality(S \cup {t}) = Cardinality(S) + 1
         /\ t \in S => Cardinality(S \ {t}) = Cardinality(S) - 1
BY FS_CardinalityType, FS_AddElement, FS_RemoveElement

LEMMA SetsFinite ==
  /\ IsFiniteSet(Began) /\ IsFiniteSet(Done) /\ IsFiniteSet(Sent)
  /\ IsFiniteSet(Holding) /\ IsFiniteSet(Inside)
<1>1. /\ Began \subseteq Thread /\ Done \subseteq Thread /\ Sent \subseteq Thread
      /\ Holding \subseteq Client /\ Inside \subseteq Thread \cup Client
  BY DEF Began, Done, Sent, Holding, Inside
<1>2. IsFiniteSet(Thread) /\ IsFiniteSet(Client) /\ IsFiniteSet(Thread \cup Client)
  BY ChannelAssumption, FS_Union
<1> QED
  BY <1>1, <1>2, FS_Subset

LEMMA SetSizes ==
  /\ Cardinality(Began) \in Nat /\ Cardinality(Done) \in Nat /\ Cardinality(Sent) \in Nat
  /\ Cardinality(Holding) \in Nat /\ Cardinality(Inside) \in Nat
  /\ Cardinality(Done) <= Cardinality(Began)
<1>1. Done \subseteq Began
  BY DEF Done, Began
<1> QED
  BY <1>1, SetsFinite, FS_CardinalityType, FS_Subset

(* The counts and the semaphores are natural numbers.                      *)
LEMMA Naturals ==
  ASSUME Typed
  PROVE  /\ semEmpty2 \in Nat /\ semFull2 \in Nat /\ semMutex2 \in Nat /\ BUFFER_SIZE \in Nat
         /\ Cardinality(Began) \in Nat /\ Cardinality(Done) \in Nat
         /\ Cardinality(Holding) \in Nat /\ Cardinality(Inside) \in Nat
BY SetSizes, ChannelAssumption DEF Typed

-----------------------------------------------------------------------------
LEMMA TypedInit == Init => Typed /\ Counts
<1> SUFFICES ASSUME Init PROVE Typed /\ Counts
  OBVIOUS
<1>1. Typed
  BY ChannelAssumption, EmptySeq DEF Init, Typed
<1>2. Began = {} /\ Done = {} /\ Holding = {} /\ Inside = {}
  BY DEF Init, Began, Done, Holding, Inside
<1>3. Counts
  BY <1>2, FS_EmptySet, ChannelAssumption DEF Init, Counts, EmptyCounts, FullCounts, MutexCounts
<1> QED
  BY <1>1, <1>3

(* What each step does to the semaphores.                                  *)
LEMMA SemaphoreSteps ==
  ASSUME NEW x
  PROVE  /\ WaitEmpty2(x) =>
               semEmpty2 > 0 /\ semEmpty2' = semEmpty2 - 1 /\ UNCHANGED <<semFull2, semMutex2>>
         /\ WaitMutex2(x) =>
               semMutex2 > 0 /\ semMutex2' = semMutex2 - 1 /\ UNCHANGED <<semEmpty2, semFull2>>
         /\ PostMutex2(x) => semMutex2' = semMutex2 + 1 /\ UNCHANGED <<semEmpty2, semFull2>>
         /\ PostFull2(x) => semFull2' = semFull2 + 1 /\ UNCHANGED <<semEmpty2, semMutex2>>
         /\ WaitFull2(x) =>
               semFull2 > 0 /\ semFull2' = semFull2 - 1 /\ UNCHANGED <<semEmpty2, semMutex2>>
         /\ LockMutex2(x) =>
               semMutex2 > 0 /\ semMutex2' = semMutex2 - 1 /\ UNCHANGED <<semEmpty2, semFull2>>
         /\ UnlockMutex2(x) => semMutex2' = semMutex2 + 1 /\ UNCHANGED <<semEmpty2, semFull2>>
         /\ RepostFull2(x) => semFull2' = semFull2 + 1 /\ UNCHANGED <<semEmpty2, semMutex2>>
BY DEF WaitEmpty2, WaitMutex2, PostMutex2, PostFull2,
       WaitFull2, LockMutex2, UnlockMutex2, RepostFull2

LEMMA TypedThread ==
  ASSUME Typed, NEW t \in Thread, (\E c \in Client : Connect(t, c)) \/ Begin(t) \/ report(t)
  PROVE  Typed'
<1> USE DEF Typed, StepR, heard
<1>1. CASE \E c \in Client : Connect(t, c)
  <2>1. PICK c \in Client : Connect(t, c)
    BY <1>1
  <2>2. rpc' = [rpc EXCEPT ![t] = "alive"]
    BY <2>1 DEF Connect
  <2>3. mq1' \in [Thread -> Mailslot \cup {Closed}]
    BY <2>1 DEF Connect
  <2>4. UNCHANGED <<semEmpty2, semFull2, semMutex2, slot, dpc, pid, read, told>>
    BY <2>1 DEF Connect
  <2> QED
    BY <2>2, <2>3, <2>4
<1>2. CASE Begin(t) \/ WaitEmpty2(t) \/ WaitMutex2(t) \/ PostMutex2(t) \/ PostFull2(t)
  <2>1. rpc' \in [Thread -> {"connect", "alive", "wait empty", "wait mutex", "write",
                            "post mutex", "post full", "reported"}]
    BY <1>2 DEF Begin, WaitEmpty2, WaitMutex2, PostMutex2, PostFull2
  <2>2. semEmpty2' \in Nat /\ semFull2' \in Nat /\ semMutex2' \in Nat
    <3>1. semEmpty2 \in Nat /\ semFull2 \in Nat /\ semMutex2 \in Nat
      OBVIOUS
    <3>2. CASE Begin(t)
      BY <3>1, <3>2 DEF Begin
    <3>3. CASE ~Begin(t)
      <4> HIDE DEF Typed, StepR
      <4> QED
        BY <1>2, <3>1, <3>3, SemaphoreSteps
    <3> QED
      BY <3>2, <3>3
  <2>3. UNCHANGED <<slot, mq1, dpc, pid, read, told>>
    BY <1>2 DEF Begin, WaitEmpty2, WaitMutex2, PostMutex2, PostFull2
  <2> QED
    BY <2>1, <2>2, <2>3
<1>3. CASE Write(t)
  <2>1. slot' \in [Mailslot -> Seq(Thread)]
    BY <1>3, AppendProperties DEF Write
  <2> QED
    BY <1>3, <2>1 DEF Write
<1> QED
  BY <1>1, <1>2, <1>3 DEF report

LEMMA TypedClient ==
  ASSUME Typed, NEW c \in Client, death_server(c) PROVE Typed'
<1> USE DEF Typed, StepD, heard
<1>1. CASE CreateSlot(c) \/ WaitFull2(c) \/ LockMutex2(c) \/ UnlockMutex2(c) \/ RepostFull2(c)
  <2>1. dpc' \in [Client -> {"create", "wait full", "wait mutex", "read", "post mutex",
                            "post full", "no slot"}]
    BY <1>1 DEF CreateSlot, WaitFull2, LockMutex2, UnlockMutex2, RepostFull2
  <2>2. semEmpty2' \in Nat /\ semFull2' \in Nat /\ semMutex2' \in Nat
    <3>1. semEmpty2 \in Nat /\ semFull2 \in Nat /\ semMutex2 \in Nat
      OBVIOUS
    <3>2. CASE CreateSlot(c)
      BY <3>1, <3>2 DEF CreateSlot
    <3>3. CASE ~CreateSlot(c)
      <4> HIDE DEF Typed, StepD
      <4> QED
        BY <1>1, <3>1, <3>3, SemaphoreSteps
    <3> QED
      BY <3>2, <3>3
  <2>3. UNCHANGED <<slot, rpc, mq1, pid, read, told>>
    BY <1>1 DEF CreateSlot, WaitFull2, LockMutex2, UnlockMutex2, RepostFull2
  <2> QED
    BY <2>1, <2>2, <2>3
<1>2. CASE Read(c)
  <2>1. PICK m \in Mailslot : m = pid[c]
    OBVIOUS
  <2>2. slot[m] \in Seq(Thread) /\ read[m] \in Seq(Thread)
    OBVIOUS
  <2>3. UNCHANGED <<semEmpty2, semFull2, semMutex2, rpc, mq1, pid>>
    BY <1>2 DEF Read
  <2>4. dpc' = [dpc EXCEPT ![c] = "post mutex"]
    BY <1>2 DEF Read
  <2>5. CASE UNCHANGED <<slot, read, told>>
    BY <2>3, <2>4, <2>5
  <2>6. CASE slot[m] # << >>
    <3>1. PICK t \in Thread : t = Head(slot[m])
      BY <2>2, <2>6, HeadTailProperties
    <3>2. Append(read[m], t) \in Seq(Thread) /\ Tail(slot[m]) \in Seq(Thread)
      BY <2>2, <2>6, HeadTailProperties, AppendProperties
    <3>3. /\ read' = [read EXCEPT ![m] = Append(read[m], t)]
          /\ told' = [told EXCEPT ![c] = told[c] \cup {t}]
          /\ slot' = [slot EXCEPT ![m] = Tail(slot[m])]
      BY <1>2, <2>1, <2>6, <3>1 DEF Read
    <3>4. told' \in [Client -> SUBSET Thread]
      BY <3>3
    <3>5. slot' \in [Mailslot -> Seq(Thread)] /\ read' \in [Mailslot -> Seq(Thread)]
      BY <3>2, <3>3
    <3> QED
      BY <2>3, <2>4, <3>4, <3>5
  <2> QED
    BY <1>2, <2>1, <2>5, <2>6 DEF Read
<1> QED
  BY <1>1, <1>2 DEF death_server

-----------------------------------------------------------------------------
(* The semaphores go on counting: each step moves its process in or out of *)
(* one or two of the sets.                                                 *)
LEMMA CountsSame ==
  ASSUME Counts, UNCHANGED Sets, UNCHANGED <<semEmpty2, semFull2, semMutex2>> PROVE Counts'
BY DEF Counts, EmptyCounts, FullCounts, MutexCounts, Sets

LEMMA CountsThread ==
  ASSUME Typed, Counts, NEW t \in Thread,
         (\E c \in Client : Connect(t, c)) \/ Begin(t) \/ report(t)
  PROVE  Counts'
<1> USE DEF StepR
<1>t. t \notin Client
  BY ChannelAssumption
<1>n. /\ semEmpty2 \in Nat /\ semFull2 \in Nat /\ semMutex2 \in Nat /\ BUFFER_SIZE \in Nat
      /\ Cardinality(Began) \in Nat /\ Cardinality(Done) \in Nat
      /\ Cardinality(Holding) \in Nat /\ Cardinality(Inside) \in Nat
  BY Naturals
<1>1. CASE (\E c \in Client : Connect(t, c)) \/ Begin(t) \/ Write(t)
  <2>1. UNCHANGED Sets
    <3>1. dpc' = dpc
      BY <1>1 DEF Connect, Begin, Write
    <3>2. \/ rpc[t] = "connect" /\ rpc' = [rpc EXCEPT ![t] = "alive"]
          \/ rpc[t] = "alive" /\ rpc' = [rpc EXCEPT ![t] = "wait empty"]
          \/ rpc[t] = "write" /\ rpc' = [rpc EXCEPT ![t] = "post mutex"]
      BY <1>1 DEF Connect, Begin, Write
    <3>3. \A u \in Thread : u # t => rpc'[u] = rpc[u]
      BY <3>2 DEF Typed
    <3>4. /\ Began' = Began /\ Done' = Done
          /\ \A u \in Thread :
               rpc'[u] \in {"write", "post mutex"} <=> rpc[u] \in {"write", "post mutex"}
      BY <3>2, <3>3 DEF Typed, Began, Done
    <3>5. Holding' = Holding /\ Inside' = Inside
      BY <3>1, <3>4 DEF Holding, Inside
    <3> QED
      BY <3>4, <3>5 DEF Sets
  <2> QED
    BY <1>1, <2>1, CountsSame DEF Connect, Begin, Write
<1>2. CASE WaitEmpty2(t)
  <2>1. t \notin Began /\ Began' = Began \cup {t} /\ UNCHANGED <<Done, Holding, Inside>>
    BY <1>2 DEF Typed, WaitEmpty2, Began, Done, Holding, Inside
  <2>2. Cardinality(Began)' = Cardinality(Began) + 1
    BY <2>1, SetsFinite, JoinOrLeave
  <2>3. /\ Cardinality(Done)' = Cardinality(Done)
        /\ Cardinality(Holding)' = Cardinality(Holding)
        /\ Cardinality(Inside)' = Cardinality(Inside)
    BY <2>1, Zenon
  <2> QED
    BY <1>2, <1>n, <2>2, <2>3, SemaphoreSteps DEF Counts, EmptyCounts, FullCounts, MutexCounts
<1>3. CASE WaitMutex2(t)
  <2>1. t \notin Inside /\ Inside' = Inside \cup {t} /\ UNCHANGED <<Done, Holding, Began>>
    <3>1. rpc[t] = "wait mutex" /\ rpc' = [rpc EXCEPT ![t] = "write"] /\ dpc' = dpc
      BY <1>3 DEF WaitMutex2
    <3> QED
      BY <3>1, <1>t DEF Typed, Began, Done, Holding, Inside
  <2>2. Cardinality(Inside)' = Cardinality(Inside) + 1
    BY <2>1, SetsFinite, JoinOrLeave
  <2>3. /\ Cardinality(Done)' = Cardinality(Done)
        /\ Cardinality(Holding)' = Cardinality(Holding)
        /\ Cardinality(Began)' = Cardinality(Began)
    BY <2>1, Zenon
  <2> QED
    BY <1>3, <1>n, <2>2, <2>3, SemaphoreSteps DEF Counts, EmptyCounts, FullCounts, MutexCounts
<1>4. CASE PostMutex2(t)
  <2>1. t \in Inside /\ Inside' = Inside \ {t} /\ UNCHANGED <<Done, Holding, Began>>
    BY <1>4, <1>t DEF Typed, PostMutex2, Began, Done, Holding, Inside
  <2>2. Cardinality(Inside)' = Cardinality(Inside) - 1
    BY <2>1, SetsFinite, JoinOrLeave
  <2>3. /\ Cardinality(Done)' = Cardinality(Done)
        /\ Cardinality(Holding)' = Cardinality(Holding)
        /\ Cardinality(Began)' = Cardinality(Began)
    BY <2>1, Zenon
  <2> QED
    BY <1>4, <1>n, <2>2, <2>3, SemaphoreSteps DEF Counts, EmptyCounts, FullCounts, MutexCounts
<1>5. CASE PostFull2(t)
  <2>1. t \notin Done /\ Done' = Done \cup {t} /\ UNCHANGED <<Inside, Holding, Began>>
    BY <1>5 DEF Typed, PostFull2, Began, Done, Holding, Inside
  <2>2. Cardinality(Done)' = Cardinality(Done) + 1
    BY <2>1, SetsFinite, JoinOrLeave
  <2>3. /\ Cardinality(Inside)' = Cardinality(Inside)
        /\ Cardinality(Holding)' = Cardinality(Holding)
        /\ Cardinality(Began)' = Cardinality(Began)
    BY <2>1, Zenon
  <2> QED
    BY <1>5, <1>n, <2>2, <2>3, SemaphoreSteps DEF Counts, EmptyCounts, FullCounts, MutexCounts
<1> QED
  BY <1>1, <1>2, <1>3, <1>4, <1>5 DEF report

LEMMA CountsClient ==
  ASSUME Typed, Counts, NEW c \in Client, death_server(c) PROVE Counts'
<1> USE DEF StepD
<1>c. c \notin Thread
  BY ChannelAssumption
<1>n. /\ semEmpty2 \in Nat /\ semFull2 \in Nat /\ semMutex2 \in Nat /\ BUFFER_SIZE \in Nat
      /\ Cardinality(Began) \in Nat /\ Cardinality(Done) \in Nat
      /\ Cardinality(Holding) \in Nat /\ Cardinality(Inside) \in Nat
  BY Naturals
<1>1. CASE CreateSlot(c) \/ Read(c)
  <2>1. UNCHANGED Sets
    <3>1. rpc' = rpc
      BY <1>1 DEF CreateSlot, Read
    <3>2. CASE CreateSlot(c)
      BY <3>1, <3>2 DEF Typed, CreateSlot, Sets, Began, Done, Holding, Inside
    <3>3. CASE Read(c)
      <4>1. dpc[c] = "read" /\ dpc' = [dpc EXCEPT ![c] = "post mutex"]
        BY <3>3 DEF Read
      <4> QED
        BY <3>1, <4>1 DEF Typed, Sets, Began, Done, Holding, Inside
    <3> QED
      BY <1>1, <3>2, <3>3
  <2> QED
    BY <1>1, <2>1, CountsSame DEF CreateSlot, Read
<1>2. CASE WaitFull2(c)
  <2>1. c \notin Holding /\ Holding' = Holding \cup {c} /\ UNCHANGED <<Done, Began, Inside>>
    BY <1>2 DEF Typed, WaitFull2, Began, Done, Holding, Inside
  <2>2. Cardinality(Holding)' = Cardinality(Holding) + 1
    BY <2>1, SetsFinite, JoinOrLeave
  <2>3. /\ Cardinality(Done)' = Cardinality(Done)
        /\ Cardinality(Began)' = Cardinality(Began)
        /\ Cardinality(Inside)' = Cardinality(Inside)
    BY <2>1, Zenon
  <2> QED
    BY <1>2, <1>n, <2>2, <2>3, SemaphoreSteps DEF Counts, EmptyCounts, FullCounts, MutexCounts
<1>3. CASE LockMutex2(c)
  <2>1. c \notin Inside /\ Inside' = Inside \cup {c} /\ UNCHANGED <<Done, Holding, Began>>
    BY <1>3, <1>c DEF Typed, LockMutex2, Began, Done, Holding, Inside
  <2>2. Cardinality(Inside)' = Cardinality(Inside) + 1
    BY <2>1, SetsFinite, JoinOrLeave
  <2>3. /\ Cardinality(Done)' = Cardinality(Done)
        /\ Cardinality(Holding)' = Cardinality(Holding)
        /\ Cardinality(Began)' = Cardinality(Began)
    BY <2>1, Zenon
  <2> QED
    BY <1>3, <1>n, <2>2, <2>3, SemaphoreSteps DEF Counts, EmptyCounts, FullCounts, MutexCounts
<1>4. CASE UnlockMutex2(c)
  <2>1. c \in Inside /\ Inside' = Inside \ {c} /\ UNCHANGED <<Done, Holding, Began>>
    BY <1>4, <1>c DEF Typed, UnlockMutex2, Began, Done, Holding, Inside
  <2>2. Cardinality(Inside)' = Cardinality(Inside) - 1
    BY <2>1, SetsFinite, JoinOrLeave
  <2>3. /\ Cardinality(Done)' = Cardinality(Done)
        /\ Cardinality(Holding)' = Cardinality(Holding)
        /\ Cardinality(Began)' = Cardinality(Began)
    BY <2>1, Zenon
  <2> QED
    BY <1>4, <1>n, <2>2, <2>3, SemaphoreSteps DEF Counts, EmptyCounts, FullCounts, MutexCounts
<1>5. CASE RepostFull2(c)
  <2>1. c \in Holding /\ Holding' = Holding \ {c} /\ UNCHANGED <<Inside, Done, Began>>
    BY <1>5 DEF Typed, RepostFull2, Began, Done, Holding, Inside
  <2>2. Cardinality(Holding)' = Cardinality(Holding) - 1
    BY <2>1, SetsFinite, JoinOrLeave
  <2>3. /\ Cardinality(Inside)' = Cardinality(Inside)
        /\ Cardinality(Done)' = Cardinality(Done)
        /\ Cardinality(Began)' = Cardinality(Began)
    BY <2>1, Zenon
  <2> QED
    BY <1>5, <1>n, <2>2, <2>3, SemaphoreSteps DEF Counts, EmptyCounts, FullCounts, MutexCounts
<1> QED
  BY <1>1, <1>2, <1>3, <1>4, <1>5 DEF death_server

LEMMA NothingChanges ==
  ASSUME Typed, Counts, UNCHANGED channelVars PROVE Typed' /\ Counts'
<1>1. Typed'
  BY DEF channelVars, heard, Typed
<1>2. UNCHANGED Sets
  BY DEF channelVars, Sets, Began, Done, Holding, Inside
<1> QED
  BY <1>1, <1>2, CountsSame DEF channelVars

LEMMA CountsInvariance == Spec => [](Typed /\ Counts)
<1>1. Typed /\ Counts /\ [Next]_channelVars => Typed' /\ Counts'
  <2> SUFFICES ASSUME Typed, Counts, [Next]_channelVars PROVE Typed' /\ Counts'
    OBVIOUS
  <2>1. CASE \E t \in Thread : (\E c \in Client : Connect(t, c)) \/ Begin(t) \/ report(t)
    BY <2>1, TypedThread, CountsThread
  <2>2. CASE \E c \in Client : death_server(c)
    BY <2>2, TypedClient, CountsClient
  <2>3. CASE Quiet \/ UNCHANGED channelVars
    BY <2>3, NothingChanges DEF Quiet
  <2> QED
    BY <2>1, <2>2, <2>3 DEF Next
<1> QED
  BY <1>1, TypedInit, PTL DEF Spec

(* What the semaphores of all processes count: types with their bounds,    *)
(* and that tokens of semempty23 are spent and never come back.            *)
THEOREM ReportsCounted == Spec => []TokensCount
<1>1. Typed /\ Counts => TokensCount
  <2> SUFFICES ASSUME Typed, Counts PROVE TokensCount
    OBVIOUS
  <2>1. semEmpty2 <= BUFFER_SIZE /\ semFull2 <= BUFFER_SIZE /\ semMutex2 <= 1
    BY SetSizes, Naturals DEF Counts, EmptyCounts, FullCounts, MutexCounts
  <2>2. semEmpty2 \in 0 .. BUFFER_SIZE /\ semFull2 \in 0 .. BUFFER_SIZE /\ semMutex2 \in 0 .. 1
    BY <2>1, Naturals
  <2>3. TypeOK
    BY <2>2 DEF Typed, TypeOK
  <2> QED
    BY <2>3 DEF TokensCount, Counts, EmptyCounts, FullCounts, MutexCounts
<1> QED
  BY CountsInvariance, <1>1, PTL

(* The channel carries BUFFER_SIZE reports in its life: planets that die   *)
(* later are never reported, and stay in the list.                         *)
THEOREM ChannelRunsDry == Spec => [](Cardinality(Done) <= BUFFER_SIZE)
<1>1. Typed /\ Counts => Cardinality(Done) <= BUFFER_SIZE
  BY SetSizes, Naturals DEF Counts, EmptyCounts
<1> QED
  BY CountsInvariance, <1>1, PTL

-----------------------------------------------------------------------------
(* No report is lost.  A planet that has its token of semempty23 and has   *)
(* not written yet is one of at most BUFFER_SIZE, so the mailslot, which   *)
(* holds MAXMSG, has room for it.                                          *)
LEMMA ElementsOfAppend ==
  ASSUME NEW s \in Seq(Thread), NEW t \in Thread
  PROVE  Elements(Append(s, t)) = Elements(s) \cup {t} /\ Len(Append(s, t)) = Len(s) + 1
<1>1. /\ Append(s, t) \in Seq(Thread) /\ Len(Append(s, t)) = Len(s) + 1
      /\ \A i \in 1 .. Len(s) : Append(s, t)[i] = s[i]
      /\ Append(s, t)[Len(s) + 1] = t
  BY AppendProperties
<1>2. /\ Len(s) \in Nat /\ DOMAIN s = 1 .. Len(s)
      /\ DOMAIN Append(s, t) = 1 .. Len(s) + 1
  BY <1>1, LenProperties
<1>3. ASSUME NEW x \in Elements(Append(s, t)) PROVE x \in Elements(s) \cup {t}
  <2>1. PICK i \in 1 .. Len(s) + 1 : x = Append(s, t)[i]
    BY <1>2, <1>3 DEF Elements
  <2>2. CASE i = Len(s) + 1
    BY <1>1, <2>1, <2>2
  <2>3. CASE i # Len(s) + 1
    <3>1. i \in 1 .. Len(s)
      BY <1>2, <2>3
    <3> QED
      BY <1>1, <1>2, <2>1, <3>1 DEF Elements
  <2> QED
    BY <2>2, <2>3
<1>4. ASSUME NEW x \in Elements(s) PROVE x \in Elements(Append(s, t))
  <2>1. PICK i \in 1 .. Len(s) : x = s[i]
    BY <1>2, <1>4 DEF Elements
  <2>2. i \in 1 .. Len(s) + 1 /\ x = Append(s, t)[i]
    BY <1>1, <1>2, <2>1
  <2> QED
    BY <1>2, <2>2 DEF Elements
<1>5. t \in Elements(Append(s, t))
  <2>1. Len(s) + 1 \in 1 .. Len(s) + 1
    BY <1>2
  <2> QED
    BY <1>1, <1>2, <2>1 DEF Elements
<1> QED
  BY <1>1, <1>3, <1>4, <1>5

LEMMA ElementsOfTail ==
  ASSUME NEW s \in Seq(Thread), s # << >>
  PROVE  Elements(s) = {Head(s)} \cup Elements(Tail(s)) /\ Len(Tail(s)) = Len(s) - 1
<1>1. /\ Tail(s) \in Seq(Thread) /\ Len(Tail(s)) = Len(s) - 1 /\ Head(s) = s[1]
      /\ \A i \in 1 .. Len(Tail(s)) : Tail(s)[i] = s[i + 1]
  BY HeadTailProperties
<1>2. Len(s) \in Nat /\ Len(s) > 0 /\ DOMAIN s = 1 .. Len(s)
  BY LenProperties, EmptySeq
<1>3. DOMAIN Tail(s) = 1 .. Len(s) - 1
  BY <1>1, LenProperties
<1>4. ASSUME NEW x \in Elements(s) PROVE x \in {Head(s)} \cup Elements(Tail(s))
  <2>1. PICK i \in 1 .. Len(s) : x = s[i]
    BY <1>2, <1>4 DEF Elements
  <2>2. CASE i = 1
    BY <1>1, <2>1, <2>2
  <2>3. CASE i # 1
    <3>1. i - 1 \in 1 .. Len(s) - 1 /\ (i - 1) + 1 = i
      BY <1>2, <2>3
    <3>2. x = Tail(s)[i - 1]
      BY <1>1, <2>1, <3>1
    <3> QED
      BY <1>3, <3>1, <3>2 DEF Elements
  <2> QED
    BY <2>2, <2>3
<1>5. ASSUME NEW x \in Elements(Tail(s)) PROVE x \in Elements(s)
  <2>1. PICK i \in 1 .. Len(s) - 1 : x = Tail(s)[i]
    BY <1>3, <1>5 DEF Elements
  <2>2. i + 1 \in 1 .. Len(s) /\ x = s[i + 1]
    BY <1>1, <1>2, <2>1
  <2> QED
    BY <1>2, <2>2 DEF Elements
<1>6. Head(s) \in Elements(s)
  <2>1. 1 \in 1 .. Len(s)
    BY <1>2
  <2> QED
    BY <1>1, <1>2, <2>1 DEF Elements
<1> QED
  BY <1>1, <1>4, <1>5, <1>6

(* Arithmetic of a report that is written, and of one that is read.        *)
LEMMA OneMore ==
  ASSUME NEW l \in Nat, NEW k \in Nat, NEW n \in Nat, l + k = n
  PROVE  (l + 1) + k = n + 1
OBVIOUS

LEMMA OneMoves ==
  ASSUME NEW l \in Nat, NEW k \in Nat
  PROVE  (l - 1) + (k + 1) = l + k
OBVIOUS

LEMMA RoomLeft ==
  ASSUME NEW l \in Nat, NEW k \in Nat, NEW to \in Nat, NEW sent \in Nat, NEW began \in Nat,
         l + k = to, to <= sent, sent < began, began <= BUFFER_SIZE
  PROVE  l < MAXMSG
BY ChannelAssumption

(* The mailslot has room for the report of a planet that is to write.      *)
LEMMA RoomForReport ==
  ASSUME Typed, Counts, NoReportLost, NEW t \in Thread, rpc[t] = "write", NEW m \in Mailslot
  PROVE  Len(slot[m]) < MAXMSG
<1>1. /\ Sent \subseteq Began /\ t \in Began /\ t \notin Sent /\ SentTo(m) \subseteq Sent
  BY DEF Sent, Began, SentTo
<1>2. Cardinality(Sent) < Cardinality(Began)
  <2>1. Sent # Began
    BY <1>1
  <2> QED
    BY <1>1, <2>1, SetsFinite, SetSizes, FS_Subset
<1>3. Cardinality(SentTo(m)) <= Cardinality(Sent) /\ Cardinality(SentTo(m)) \in Nat
  BY <1>1, SetsFinite, FS_Subset, FS_CardinalityType
<1>4. Cardinality(Began) <= BUFFER_SIZE
  BY Naturals DEF Counts, EmptyCounts
<1>5. Len(slot[m]) \in Nat /\ Len(read[m]) \in Nat
  <2>1. slot[m] \in Seq(Thread) /\ read[m] \in Seq(Thread)
    BY DEF Typed
  <2> QED
    BY <2>1, LenProperties
<1>6. Len(slot[m]) + Len(read[m]) = Cardinality(SentTo(m))
  BY DEF NoReportLost
<1>7. Cardinality(Sent) \in Nat /\ Cardinality(Began) \in Nat
  BY SetSizes
<1> QED
  BY <1>2, <1>3, <1>4, <1>5, <1>6, <1>7, RoomLeft

(* What waits in a mailslot has not been read from it: the two have as     *)
(* many reports together as there are different ones.                      *)
LEMMA FewElements ==
  ASSUME NEW s \in Seq(Thread)
  PROVE  IsFiniteSet(Elements(s)) /\ Cardinality(Elements(s)) <= Len(s)
<1>1. Len(s) \in Nat /\ DOMAIN s = 1 .. Len(s) /\ s \in [1 .. Len(s) -> Thread]
  BY LenProperties
<1>2. s \in Surjection(1 .. Len(s), Elements(s))
  BY <1>1 DEF Surjection, Elements
<1>3. IsFiniteSet(1 .. Len(s)) /\ Cardinality(1 .. Len(s)) = Len(s)
  BY <1>1, FS_Interval
<1> QED
  BY <1>2, <1>3, FS_Surjection

LEMMA CountBoth ==
  ASSUME NEW a \in Nat, NEW b \in Nat, NEW both \in Nat, NEW l \in Nat, NEW k \in Nat,
         a <= l, b <= k, l + k = a + b - both
  PROVE  both = 0
OBVIOUS

LEMMA WaitsOrRead ==
  ASSUME Typed, NoReportLost, NEW m \in Mailslot
  PROVE  Elements(slot[m]) \cap Elements(read[m]) = {}
<1> DEFINE A == Elements(slot[m])
           B == Elements(read[m])
<1>1. slot[m] \in Seq(Thread) /\ read[m] \in Seq(Thread)
  BY DEF Typed
<1>2. /\ IsFiniteSet(A) /\ Cardinality(A) <= Len(slot[m])
      /\ IsFiniteSet(B) /\ Cardinality(B) <= Len(read[m])
  BY <1>1, FewElements
<1>3. Len(slot[m]) + Len(read[m]) = Cardinality(A \cup B)
  BY DEF NoReportLost
<1>4. /\ Cardinality(A) \in Nat /\ Cardinality(B) \in Nat /\ Cardinality(A \cap B) \in Nat
      /\ IsFiniteSet(A \cap B)
  <2>1. IsFiniteSet(A \cap B)
    BY <1>2, FS_Subset
  <2> QED
    BY <1>2, <2>1, FS_CardinalityType
<1>5. Cardinality(A \cup B) = Cardinality(A) + Cardinality(B) - Cardinality(A \cap B)
  BY <1>2, FS_Union
<1>6. Len(slot[m]) \in Nat /\ Len(read[m]) \in Nat
  BY <1>1, LenProperties
<1>7. Cardinality(A \cap B) = 0
  <2>1. Len(slot[m]) + Len(read[m]) = Cardinality(A) + Cardinality(B) - Cardinality(A \cap B)
    BY <1>3, <1>5
  <2> HIDE DEF A, B
  <2> QED
    BY <1>2, <1>4, <1>6, <2>1, CountBoth
<1> QED
  BY <1>4, <1>7, FS_EmptySet

(* A step that touches neither the mailslots nor who has written.          *)
LEMMA ReportsSame ==
  ASSUME NoReportLost, UNCHANGED <<slot, heard>>, \A m \in Mailslot : SentTo(m)' = SentTo(m)
  PROVE  NoReportLost'
<1>1. slot' = slot /\ read' = read /\ told' = told /\ pid' = pid
  BY DEF heard
<1>2. ASSUME NEW m \in Mailslot
      PROVE  /\ Elements(slot'[m]) \cup Elements(read'[m]) = SentTo(m)'
             /\ Len(slot'[m]) + Len(read'[m]) = Cardinality(SentTo(m)')
             /\ Printed(m)' = Elements(read'[m])
  <2>1. Printed(m)' = Printed(m)
    BY <1>1 DEF Printed
  <2> QED
    BY <1>1, <2>1 DEF NoReportLost
<1>3. \A c, d \in Client : c # d => told'[c] \cap told'[d] = {}
  BY <1>1 DEF NoReportLost
<1> QED
  BY <1>2, <1>3 DEF NoReportLost, Elements

LEMMA WriteKeeps ==
  ASSUME Typed, Counts, NoReportLost, NEW t \in Thread, Write(t)
  PROVE  NoReportLost'
<1>1. /\ rpc[t] = "write" /\ rpc' = [rpc EXCEPT ![t] = "post mutex"]
      /\ mq1' = mq1 /\ pid' = pid /\ read' = read /\ told' = told
  BY DEF Write, StepR, heard
<1>2. t \notin Sent /\ Sent' = Sent \cup {t}
  BY <1>1 DEF Typed, Sent
<1>3. CASE mq1[t] = Closed
  <2>1. slot' = slot
    BY <1>3 DEF Write
  <2>2. \A m \in Mailslot : m # Closed
    BY ChannelAssumption
  <2>3. \A m \in Mailslot : SentTo(m)' = SentTo(m)
    BY <1>1, <1>2, <1>3, <2>2 DEF SentTo
  <2> QED
    BY <1>1, <2>1, <2>3, ReportsSame DEF heard
<1>4. CASE mq1[t] # Closed
  <2>1. PICK d \in Mailslot : d = mq1[t]
    BY <1>4 DEF Typed
  <2>2. slot' = [slot EXCEPT ![d] = Append(@, t)]
    BY <1>1, <1>4, <2>1, RoomForReport DEF Write
  <2>3. slot[d] \in Seq(Thread) /\ read[d] \in Seq(Thread)
    BY <2>1 DEF Typed
  <2>4. slot'[d] = Append(slot[d], t) /\ \A m \in Mailslot : m # d => slot'[m] = slot[m]
    BY <2>1, <2>2 DEF Typed
  <2>5. /\ SentTo(d)' = SentTo(d) \cup {t} /\ t \notin SentTo(d)
        /\ \A m \in Mailslot : m # d => SentTo(m)' = SentTo(m)
    BY <1>1, <1>2, <2>1 DEF SentTo
  <2>6. /\ Cardinality(SentTo(d)') = Cardinality(SentTo(d)) + 1
        /\ Cardinality(SentTo(d)) \in Nat
    <3>1. IsFiniteSet(SentTo(d))
      <4>1. SentTo(d) \subseteq Sent
        BY DEF SentTo
      <4> QED
        BY <4>1, SetsFinite, FS_Subset
    <3> QED
      BY <2>5, <3>1, FS_AddElement, FS_CardinalityType
  <2>7. Elements(slot'[d]) = Elements(slot[d]) \cup {t} /\ Len(slot'[d]) = Len(slot[d]) + 1
    BY <2>3, <2>4, ElementsOfAppend
  <2>8. /\ Elements(slot'[d]) \cup Elements(read'[d]) = SentTo(d)'
        /\ Len(slot'[d]) + Len(read'[d]) = Cardinality(SentTo(d)')
    <3>1. /\ Elements(slot[d]) \cup Elements(read[d]) = SentTo(d)
          /\ Len(slot[d]) + Len(read[d]) = Cardinality(SentTo(d))
      BY <2>1 DEF NoReportLost
    <3>2. Elements(slot'[d]) \cup Elements(read'[d]) = SentTo(d)'
      BY <1>1, <2>5, <2>7, <3>1
    <3>3. Len(slot[d]) \in Nat /\ Len(read[d]) \in Nat
      BY <2>3, LenProperties
    <3>4. (Len(slot[d]) + 1) + Len(read[d]) = Cardinality(SentTo(d)) + 1
      <4>1. Len(slot[d]) + Len(read[d]) = Cardinality(SentTo(d)) /\ Cardinality(SentTo(d)) \in Nat
        BY <2>6, <3>1
      <4> QED
        BY <3>3, <4>1, OneMore
    <3>5. read'[d] = read[d]
      BY <1>1
    <3>6. Len(slot'[d]) + Len(read'[d]) = Cardinality(SentTo(d)')
      BY <2>6, <2>7, <3>4, <3>5, Zenon
    <3> QED
      BY <3>2, <3>6
  <2>9. ASSUME NEW m \in Mailslot
        PROVE  /\ Elements(slot'[m]) \cup Elements(read'[m]) = SentTo(m)'
               /\ Len(slot'[m]) + Len(read'[m]) = Cardinality(SentTo(m)')
    <3>1. CASE m = d
      BY <2>8, <3>1, Zenon
    <3>2. CASE m # d
      <4>1. slot'[m] = slot[m] /\ SentTo(m)' = SentTo(m) /\ read'[m] = read[m]
        BY <1>1, <2>4, <2>5, <3>2
      <4> QED
        BY <4>1 DEF NoReportLost
    <3> QED
      BY <3>1, <3>2
  <2>10. ASSUME NEW m \in Mailslot PROVE Printed(m)' = Elements(read'[m])
    <3>1. Printed(m)' = Printed(m)
      BY <1>1 DEF Printed
    <3> QED
      BY <1>1, <3>1 DEF NoReportLost
  <2>11. \A c, e \in Client : c # e => told'[c] \cap told'[e] = {}
    BY <1>1 DEF NoReportLost
  <2> QED
    BY <2>9, <2>10, <2>11 DEF NoReportLost, Elements
<1> QED
  BY <1>3, <1>4

LEMMA ReadKeeps ==
  ASSUME Typed, NoReportLost, NEW c \in Client, Read(c)
  PROVE  NoReportLost'
<1>0. PICK d \in Mailslot : d = pid[c]
  BY DEF Typed
<1>1. rpc' = rpc /\ mq1' = mq1 /\ pid' = pid
  BY DEF Read
<1>2. \A m \in Mailslot : SentTo(m)' = SentTo(m)
  BY <1>1 DEF SentTo, Sent
<1>3. CASE slot[d] = << >>
  <2>1. UNCHANGED <<slot, heard>>
    BY <1>0, <1>3 DEF Read, heard
  <2> QED
    BY <1>2, <2>1, ReportsSame
<1>4. CASE slot[d] # << >>
  <2>1. slot[d] \in Seq(Thread) /\ read[d] \in Seq(Thread)
    BY DEF Typed
  <2>2. PICK t \in Thread : t = Head(slot[d])
    BY <1>4, <2>1, HeadTailProperties
  <2>3. /\ read' = [read EXCEPT ![d] = Append(@, t)]
        /\ told' = [told EXCEPT ![c] = @ \cup {t}]
        /\ slot' = [slot EXCEPT ![d] = Tail(@)]
    BY <1>0, <1>4, <2>2 DEF Read
  <2>4. /\ read'[d] = Append(read[d], t) /\ slot'[d] = Tail(slot[d])
        /\ \A m \in Mailslot : m # d => read'[m] = read[m] /\ slot'[m] = slot[m]
    BY <2>3 DEF Typed
  <2>5. Elements(read'[d]) = Elements(read[d]) \cup {t} /\ Len(read'[d]) = Len(read[d]) + 1
    BY <2>1, <2>4, ElementsOfAppend
  <2>6. /\ Elements(slot[d]) = {t} \cup Elements(slot'[d])
        /\ Len(slot'[d]) = Len(slot[d]) - 1
    BY <1>4, <2>1, <2>2, <2>4, ElementsOfTail
  <2>7. Len(slot[d]) \in Nat /\ Len(read[d]) \in Nat
    BY <2>1, LenProperties
  <2>8. /\ Elements(slot'[d]) \cup Elements(read'[d]) = Elements(slot[d]) \cup Elements(read[d])
        /\ Len(slot'[d]) + Len(read'[d]) = Len(slot[d]) + Len(read[d])
    <3>1. Elements(slot'[d]) \cup Elements(read'[d]) = Elements(slot[d]) \cup Elements(read[d])
      BY <2>5, <2>6
    <3>2. Len(slot'[d]) + Len(read'[d]) = Len(slot[d]) + Len(read[d])
      BY <2>5, <2>6, <2>7, OneMoves
    <3> QED
      BY <3>1, <3>2
  <2>9. ASSUME NEW m \in Mailslot
        PROVE  /\ Elements(slot'[m]) \cup Elements(read'[m]) = SentTo(m)'
               /\ Len(slot'[m]) + Len(read'[m]) = Cardinality(SentTo(m)')
    <3>1. /\ Elements(slot[m]) \cup Elements(read[m]) = SentTo(m)
          /\ Len(slot[m]) + Len(read[m]) = Cardinality(SentTo(m))
      BY DEF NoReportLost
    <3>2. SentTo(m)' = SentTo(m)
      BY <1>2
    <3>3. CASE m = d
      BY <2>8, <3>1, <3>2, <3>3
    <3>4. CASE m # d
      BY <2>4, <3>1, <3>2, <3>4
    <3> QED
      BY <3>3, <3>4
  <2>10. told'[c] = told[c] \cup {t} /\ \A e \in Client : e # c => told'[e] = told[e]
    BY <2>3 DEF Typed
  <2>11. ASSUME NEW m \in Mailslot PROVE Printed(m)' = Elements(read'[m])
    <3>1. Printed(m) = Elements(read[m])
      BY DEF NoReportLost
    <3>2. CASE m = d
      <4>1. Printed(d)' = Printed(d) \cup {t}
        BY <1>0, <1>1, <2>10 DEF Printed
      <4> QED
        BY <2>5, <3>1, <3>2, <4>1
    <3>3. CASE m # d
      <4>1. Printed(m)' = Printed(m)
        BY <1>0, <1>1, <2>10, <3>3 DEF Printed
      <4> QED
        BY <2>4, <3>1, <3>3, <4>1
    <3> QED
      BY <3>2, <3>3
  <2>12. \A e \in Client : t \notin told[e]
    <3>1. t \in SentTo(d) /\ t \notin Elements(read[d])
      <4>1. t \in Elements(slot[d])
        BY <2>6
      <4> QED
        BY <4>1, WaitsOrRead DEF NoReportLost
    <3>2. ASSUME NEW e \in Client PROVE t \notin told[e]
      <4>1. pid[e] \in Mailslot /\ told[e] \subseteq Printed(pid[e])
        BY DEF Typed, Printed
      <4>2. Printed(pid[e]) \subseteq SentTo(pid[e])
        BY <4>1 DEF NoReportLost
      <4>3. CASE pid[e] = d
        BY <3>1, <4>1, <4>3 DEF NoReportLost
      <4>4. CASE pid[e] # d
        BY <3>1, <4>1, <4>2, <4>4 DEF SentTo
      <4> QED
        BY <4>3, <4>4
    <3> QED
      BY <3>2
  <2>13. \A b, e \in Client : b # e => told'[b] \cap told'[e] = {}
    <3>1. \A b, e \in Client : b # e => told[b] \cap told[e] = {}
      BY DEF NoReportLost
    <3>2. ASSUME NEW b \in Client, NEW e \in Client, b # e PROVE told'[b] \cap told'[e] = {}
      <4>1. CASE b = c
        BY <2>10, <2>12, <3>1, <3>2, <4>1
      <4>2. CASE e = c
        BY <2>10, <2>12, <3>1, <3>2, <4>2
      <4>3. CASE b # c /\ e # c
        BY <2>10, <3>1, <3>2, <4>3
      <4> QED
        BY <4>1, <4>2, <4>3
    <3> QED
      BY <3>2
  <2> QED
    BY <2>9, <2>11, <2>13 DEF NoReportLost, Elements
<1> QED
  BY <1>3, <1>4

(* The threads' other steps move nothing in the mailslots.                 *)
LEMMA OthersKeep ==
  ASSUME Typed, NoReportLost, NEW t \in Thread,
         \/ \E c \in Client : Connect(t, c)
         \/ Begin(t) \/ WaitEmpty2(t) \/ WaitMutex2(t) \/ PostMutex2(t) \/ PostFull2(t)
  PROVE  NoReportLost'
<1>1. UNCHANGED <<slot, heard>>
  BY DEF Connect, Begin, WaitEmpty2, WaitMutex2, PostMutex2, PostFull2
<1>2. Sent' = Sent /\ \A u \in Sent : mq1'[u] = mq1[u]
  <2>1. CASE \E c \in Client : Connect(t, c)
    BY <2>1 DEF Typed, Connect, StepR, Sent
  <2>2. CASE Begin(t) \/ WaitEmpty2(t) \/ WaitMutex2(t) \/ PostMutex2(t) \/ PostFull2(t)
    BY <2>2 DEF Typed, Begin, WaitEmpty2, WaitMutex2, PostMutex2, PostFull2, StepR, Sent
  <2> QED
    BY <2>1, <2>2
<1>3. \A m \in Mailslot : SentTo(m)' = SentTo(m)
  BY <1>2 DEF SentTo
<1> QED
  BY <1>1, <1>3, ReportsSame

(* What a connected planet wrote is in its mailslot or has been read from  *)
(* it, once, and printed by one client of that name: for any number of     *)
(* planets and clients, and whichever of them share a name.                *)
THEOREM ReportsKept == Spec => []NoReportLost
<1>1. Init => NoReportLost
  <2> SUFFICES ASSUME Init PROVE NoReportLost
    OBVIOUS
  <2>1. ASSUME NEW m \in Mailslot
        PROVE  /\ Elements(slot[m]) \cup Elements(read[m]) = SentTo(m)
               /\ Len(slot[m]) + Len(read[m]) = Cardinality(SentTo(m))
               /\ Printed(m) = Elements(read[m])
    <3>1. slot[m] = << >> /\ read[m] = << >>
      BY DEF Init
    <3>2. Elements(<< >>) = {} /\ Len(<< >>) = 0
      BY EmptySeq DEF Elements
    <3>3. SentTo(m) = {}
      BY DEF Init, SentTo, Sent
    <3>4. Printed(m) = {}
      BY DEF Init, Printed
    <3> QED
      BY <3>1, <3>2, <3>3, <3>4, FS_EmptySet
  <2>2. \A c, d \in Client : c # d => told[c] \cap told[d] = {}
    BY DEF Init
  <2> QED
    BY <2>1, <2>2 DEF NoReportLost
<1>2. Typed /\ Counts /\ NoReportLost /\ [Next]_channelVars => NoReportLost'
  <2> SUFFICES ASSUME Typed, Counts, NoReportLost, [Next]_channelVars PROVE NoReportLost'
    OBVIOUS
  <2>1. CASE \E t \in Thread : (\E c \in Client : Connect(t, c)) \/ Begin(t) \/ report(t)
    BY <2>1, WriteKeeps, OthersKeep DEF report
  <2>2. ASSUME NEW c \in Client, death_server(c) PROVE NoReportLost'
    <3>1. CASE Read(c)
      BY <3>1, ReadKeeps
    <3>2. CASE ~Read(c)
      <4>1. UNCHANGED <<slot, heard, rpc, mq1>>
        BY <2>2, <3>2 DEF death_server, CreateSlot, WaitFull2, LockMutex2, UnlockMutex2, RepostFull2
      <4> QED
        BY <4>1, ReportsSame DEF SentTo, Sent
    <3> QED
      BY <3>1, <3>2
  <2>3. CASE Quiet \/ UNCHANGED channelVars
    <3>1. UNCHANGED <<slot, heard, rpc, mq1>>
      BY <2>3 DEF Quiet, channelVars
    <3> QED
      BY <3>1, ReportsSame DEF SentTo, Sent
  <2> QED
    BY <2>1, <2>2, <2>3 DEF Next
<1> QED
  BY <1>1, <1>2, CountsInvariance, PTL DEF Spec
=============================================================================
