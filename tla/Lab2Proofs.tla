----------------------------- MODULE Lab2Proofs -----------------------------
(***************************************************************************)
(* Proofs about lab2 for every number of producers and consumers and every *)
(* buffer size.  main.c: the inductive invariant adds to the properties    *)
(* nothing but their conjunction: TypeOK bounds the semaphores only        *)
(* because Accounting ties them to counter, and NoError needs Accounting   *)
(* in the state where a thread tests counter; and the buffer is a stack.   *)
(* main_old.c, which has neither a lock nor semaphores, stays in bounds    *)
(* with one producer and one consumer, however their updates race.         *)
(***************************************************************************)
EXTENDS BoundedBuffer, UnsyncBuffer, FiniteSetTheorems, SequenceTheorems, TLAPS

(* The inductive invariant of the buffer program.                          *)
IInv == TypeOK /\ NoError /\ Accounting /\ MutualExclusion /\ SlotStable

Holders == <<Reserved, Filled, Claimed, Emptied>>

-----------------------------------------------------------------------------
(* A thread that starts holding a token makes the set of holders one       *)
(* larger, one that stops makes it one smaller.                            *)
LEMMA EnterLeave ==
  ASSUME NEW S, IsFiniteSet(S), NEW t
  PROVE  /\ Cardinality(S) \in Nat
         /\ t \notin S => Cardinality(S \cup {t}) = Cardinality(S) + 1
         /\ t \in S => /\ Cardinality(S \ {t}) = Cardinality(S) - 1
                       /\ Cardinality(S) > 0
<1>1. Cardinality(S) \in Nat
  BY FS_CardinalityType
<1>2. t \in S => Cardinality(S) # 0
  BY FS_EmptySet
<1>3. t \notin S => Cardinality(S \cup {t}) = Cardinality(S) + 1
  BY FS_AddElement
<1>4. t \in S => Cardinality(S \ {t}) = Cardinality(S) - 1
  BY FS_RemoveElement
<1> QED
  BY <1>1, <1>2, <1>3, <1>4

(* The sets of threads that hold a token are finite, so counting them      *)
(* makes sense.                                                            *)
LEMMA HoldersFinite ==
  /\ IsFiniteSet(Reserved) /\ IsFiniteSet(Filled)
  /\ IsFiniteSet(Claimed) /\ IsFiniteSet(Emptied)
<1>1. /\ Reserved \in SUBSET Producer /\ Filled \in SUBSET Producer
      /\ Claimed \in SUBSET Consumer /\ Emptied \in SUBSET Consumer
  BY DEF Reserved, Filled, Claimed, Emptied
<1> QED
  BY <1>1, ThreadAssumption, FS_Subset DEF ThreadAssumption

(* The number of holders of each kind is a natural number.                 *)
LEMMA HolderCounts ==
  /\ Cardinality(Reserved) \in Nat /\ Cardinality(Filled) \in Nat
  /\ Cardinality(Claimed) \in Nat /\ Cardinality(Emptied) \in Nat
BY HoldersFinite, FS_CardinalityType

(* When a thread is between lock and unlock there is a slot for a producer *)
(* and an item for a consumer: the tests of insert_item and remove_item    *)
(* succeed.                                                                *)
LEMMA RoomToAct ==
  ASSUME TypeOK, Accounting
  PROVE  /\ \A p \in Reserved : counter < BUFFER_SIZE
         /\ \A c \in Claimed : counter > 0
<1>1. \A p \in Reserved : Cardinality(Reserved) > 0
  BY HoldersFinite, EnterLeave
<1>2. \A c \in Claimed : Cardinality(Claimed) > 0
  BY HoldersFinite, EnterLeave
<1>3. /\ counter \in Nat /\ full \in Nat /\ empty \in Nat /\ BUFFER_SIZE \in Nat
  BY SizeAssumption DEF TypeOK, SizeAssumption
<1>4. ASSUME NEW p \in Reserved
      PROVE  counter < BUFFER_SIZE
  BY <1>1, <1>3, HolderCounts DEF Accounting
<1>5. ASSUME NEW c \in Claimed
      PROVE  counter > 0
  BY <1>2, <1>3, HolderCounts DEF Accounting
<1> QED
  BY <1>4, <1>5

-----------------------------------------------------------------------------
(* Counting stays right: one step per action, each naming the sets it      *)
(* moves its thread between.                                               *)
LEMMA AccountingStep ==
  ASSUME IInv, [Next]_vars
  PROVE  Accounting'
<1> USE DEF IInv
<1>c. /\ Producer \subseteq Thread /\ Consumer \subseteq Thread
      /\ \A p \in Producer : p \notin Consumer
  BY ThreadAssumption, ValueAssumption DEF Thread, ThreadAssumption, ValueAssumption
<1>t. /\ counter \in Nat /\ full \in Nat /\ empty \in Nat /\ BUFFER_SIZE \in Nat
  BY SizeAssumption DEF TypeOK, SizeAssumption
<1> DEFINE r == Cardinality(Reserved)
           f == Cardinality(Filled)
           k == Cardinality(Claimed)
           e == Cardinality(Emptied)
<1>n. r \in Nat /\ f \in Nat /\ k \in Nat /\ e \in Nat
  BY HolderCounts
<1>same. ASSUME UNCHANGED Holders, UNCHANGED <<counter, full, empty>>
         PROVE  Accounting'
  BY <1>same DEF Accounting, Holders
<1>1. ASSUME NEW p \in Producer, LoadCount(p) \/ StoreCount(p)
      PROVE  Accounting'
  BY <1>1, <1>same, <1>c
     DEF LoadCount, StoreCount, Holders, Reserved, Filled, Claimed, Emptied,
         Goto, TypeOK, Thread
<1>2. ASSUME NEW t \in Thread, Lock(t)
      PROVE  Accounting'
  BY <1>2, <1>same, <1>c
     DEF Lock, Holders, Reserved, Filled, Claimed, Emptied, Goto, TypeOK, Thread
<1>3. ASSUME NEW p \in Producer, Insert(p)
      PROVE  Accounting'
  <2>1. p \in Reserved
    BY <1>3 DEF Insert, Goto, Reserved
  <2>2. counter < BUFFER_SIZE
    BY <2>1, RoomToAct
  <2> QED
    BY <1>3, <2>2, <1>same, <1>c
       DEF Insert, Holders, Reserved, Filled, Claimed, Emptied, Goto, TypeOK, Thread
<1>4. ASSUME NEW c \in Consumer, Remove(c)
      PROVE  Accounting'
  <2>1. c \in Claimed
    BY <1>4 DEF Remove, Goto, Claimed
  <2>2. counter > 0
    BY <2>1, RoomToAct
  <2> QED
    BY <1>4, <2>2, <1>same, <1>c
       DEF Remove, Holders, Reserved, Filled, Claimed, Emptied, Goto, TypeOK, Thread
<1>5. ASSUME NEW t \in Thread, PrintBuffer(t)
      PROVE  Accounting'
  BY <1>5, <1>same, <1>c
     DEF PrintBuffer, Holders, Reserved, Filled, Claimed, Emptied, TypeOK, Thread,
         NoError
<1>6. ASSUME NEW p \in Producer, WaitEmpty(p)
      PROVE  Accounting'
  <2>1. /\ p \notin Reserved /\ Reserved' = Reserved \cup {p}
        /\ UNCHANGED <<Filled, Claimed, Emptied>>
    BY <1>6, <1>c
       DEF WaitEmpty, Reserved, Filled, Claimed, Emptied, Goto, TypeOK, Thread
  <2>2. Cardinality(Reserved)' = r + 1
    BY <2>1, HoldersFinite, EnterLeave
  <2> QED
    BY <1>6, <2>1, <2>2, <1>n, <1>t DEF WaitEmpty, Accounting
<1>7. ASSUME NEW c \in Consumer, WaitFull(c)
      PROVE  Accounting'
  <2>1. /\ c \notin Claimed /\ Claimed' = Claimed \cup {c}
        /\ UNCHANGED <<Reserved, Filled, Emptied>>
    BY <1>7, <1>c
       DEF WaitFull, Reserved, Filled, Claimed, Emptied, Goto, TypeOK, Thread
  <2>2. Cardinality(Claimed)' = k + 1
    BY <2>1, HoldersFinite, EnterLeave
  <2> QED
    BY <1>7, <2>1, <2>2, <1>n, <1>t DEF WaitFull, Accounting
<1>8. ASSUME NEW p \in Producer, Commit(p)
      PROVE  Accounting'
  <2>1. /\ p \in Reserved /\ Reserved' = Reserved \ {p}
        /\ p \notin Filled /\ Filled' = Filled \cup {p}
        /\ UNCHANGED <<Claimed, Emptied>>
    BY <1>8, <1>c
       DEF Commit, Reserved, Filled, Claimed, Emptied, Goto, TypeOK, Thread
  <2>2. Cardinality(Reserved)' = r - 1 /\ r > 0
    BY <2>1, HoldersFinite, EnterLeave
  <2>3. Cardinality(Filled)' = f + 1
    BY <2>1, HoldersFinite, EnterLeave
  <2> QED
    BY <1>8, <2>1, <2>2, <2>3, <1>n, <1>t DEF Commit, Accounting
<1>9. ASSUME NEW c \in Consumer, Commit(c)
      PROVE  Accounting'
  <2>1. /\ c \in Claimed /\ Claimed' = Claimed \ {c}
        /\ c \notin Emptied /\ Emptied' = Emptied \cup {c}
        /\ UNCHANGED <<Reserved, Filled>>
    BY <1>9, <1>c
       DEF Commit, Reserved, Filled, Claimed, Emptied, Goto, TypeOK, Thread
  <2>2. Cardinality(Claimed)' = k - 1 /\ k > 0
    BY <2>1, HoldersFinite, EnterLeave
  <2>3. Cardinality(Emptied)' = e + 1
    BY <2>1, HoldersFinite, EnterLeave
  <2>4. c \notin Producer
    BY <1>c
  <2> QED
    BY <1>9, <2>1, <2>2, <2>3, <2>4, <1>n, <1>t DEF Commit, Accounting
<1>10. ASSUME NEW p \in Producer, PostFull(p)
       PROVE  Accounting'
  <2>1. /\ p \in Filled /\ Filled' = Filled \ {p}
        /\ UNCHANGED <<Reserved, Claimed, Emptied>>
    BY <1>10, <1>c
       DEF PostFull, Reserved, Filled, Claimed, Emptied, Goto, TypeOK, Thread
  <2>2. Cardinality(Filled)' = f - 1 /\ f > 0
    BY <2>1, HoldersFinite, EnterLeave
  <2> QED
    BY <1>10, <2>1, <2>2, <1>n, <1>t DEF PostFull, Accounting
<1>11. ASSUME NEW c \in Consumer, PostEmpty(c)
       PROVE  Accounting'
  <2>1. /\ c \in Emptied /\ Emptied' = Emptied \ {c}
        /\ UNCHANGED <<Reserved, Filled, Claimed>>
    BY <1>11, <1>c
       DEF PostEmpty, Reserved, Filled, Claimed, Emptied, Goto, TypeOK, Thread
  <2>2. Cardinality(Emptied)' = e - 1 /\ e > 0
    BY <2>1, HoldersFinite, EnterLeave
  <2> QED
    BY <1>11, <2>1, <2>2, <1>n, <1>t DEF PostEmpty, Accounting
<1>12. CASE UNCHANGED vars
  BY <1>12, <1>same
     DEF vars, Holders, Reserved, Filled, Claimed, Emptied
<1> QED
  BY <1>1, <1>2, <1>3, <1>4, <1>5, <1>6, <1>7, <1>8, <1>9, <1>10, <1>11, <1>12, <1>c
     DEF Next, producer, consumer

(* Types are kept: the semaphores and counter stay inside their ranges     *)
(* because the new state still adds up.                                    *)
LEMMA TypeStep ==
  ASSUME IInv, [Next]_vars
  PROVE  TypeOK'
<1> USE DEF IInv
<1>c. /\ Producer \subseteq Thread /\ Consumer \subseteq Thread
      /\ \A p \in Producer : p \notin Consumer
  BY ThreadAssumption, ValueAssumption DEF Thread, ThreadAssumption, ValueAssumption
<1>i. /\ \A n \in Nat : n % IntRange \in Item
      /\ Item \subseteq Nat
      /\ BUFFER_SIZE \in Nat \ {0}
  BY SizeAssumption, ValueAssumption DEF Item, SizeAssumption, ValueAssumption
<1>1. counter' \in Int /\ full' \in Nat /\ empty' \in Nat
  BY <1>i, <1>c
     DEF TypeOK, Next, producer, consumer, LoadCount, StoreCount, WaitEmpty, WaitFull,
         Lock, Insert, Remove, Commit, PrintBuffer, PostFull, PostEmpty, vars
<1>2. counter' \in 0 .. BUFFER_SIZE /\ full' \in 0 .. BUFFER_SIZE /\ empty' \in 0 .. BUFFER_SIZE
  <2>1. Accounting'
    BY AccountingStep
  <2>2. /\ Cardinality(Reserved)' \in Nat /\ Cardinality(Filled)' \in Nat
        /\ Cardinality(Claimed)' \in Nat /\ Cardinality(Emptied)' \in Nat
    <3>1. /\ Reserved' \in SUBSET Producer /\ Filled' \in SUBSET Producer
          /\ Claimed' \in SUBSET Consumer /\ Emptied' \in SUBSET Consumer
      BY DEF Reserved, Filled, Claimed, Emptied
    <3> QED
      BY <3>1, ThreadAssumption, FS_Subset, FS_CardinalityType DEF ThreadAssumption
  <2> QED
    BY <1>1, <1>i, <2>1, <2>2 DEF Accounting
<1>3. buffer' \in [0 .. BUFFER_SIZE - 1 -> Item] /\ item' \in [Thread -> Item]
  <2>1. CASE \E c \in Consumer : Remove(c)
    <3>1. PICK c \in Consumer : Remove(c)
      BY <2>1
    <3>2. counter > 0
      BY <3>1, RoomToAct DEF Remove, Goto, Claimed
    <3> QED
      BY <3>1, <3>2, <1>i, <1>c DEF TypeOK, Remove
  <2>2. CASE ~ \E c \in Consumer : Remove(c)
    <3>1. CASE \E p \in Producer : Insert(p)
      BY <3>1, <1>i, <1>c DEF TypeOK, Insert
    <3>2. CASE \E p \in Producer : LoadCount(p)
      BY <3>2, <1>c DEF TypeOK, LoadCount
    <3>3. CASE UNCHANGED <<buffer, item>>
      BY <3>3 DEF TypeOK
    <3> QED
      BY <2>2, <3>1, <3>2, <3>3
         DEF Next, producer, consumer, StoreCount, WaitEmpty, WaitFull,
             Lock, Commit, PrintBuffer, PostFull, PostEmpty, vars
  <2> QED
    BY <2>1, <2>2
<1>4. count' \in Item
  <2>1. ASSUME NEW p \in Producer, StoreCount(p)
        PROVE  count' \in Item
    <3>1. item[p] \in Item
      BY <1>c DEF TypeOK
    <3>2. item[p] \in Nat
      BY <3>1, ValueAssumption DEF Item, ValueAssumption
    <3>3. count' = (item[p] + 1) % IntRange
      BY <2>1 DEF StoreCount
    <3>4. \A n \in Nat : n + 1 \in Nat
      OBVIOUS
    <3>5. item[p] + 1 \in Nat
      BY <3>2, <3>4
    <3> QED
      BY <3>3, <3>5, <1>i
  <2>2. CASE UNCHANGED count
    BY <2>2 DEF TypeOK
  <2> QED
    BY <2>1, <2>2
       DEF Next, producer, consumer, LoadCount, WaitEmpty, WaitFull,
           Lock, Insert, Remove, Commit, PrintBuffer, PostFull, PostEmpty, vars
<1>5. mutex' \in Thread \cup {Free}
  BY <1>c
     DEF TypeOK, Next, producer, consumer, LoadCount, StoreCount, WaitEmpty, WaitFull,
         Lock, Insert, Remove, Commit, PrintBuffer, PostFull, PostEmpty, vars
<1>6. pc' \in [Thread -> ProducerPC] /\ \A c \in Consumer : pc'[c] \in ConsumerPC
  BY <1>c
     DEF TypeOK, Next, producer, consumer, LoadCount, StoreCount, WaitEmpty, WaitFull,
         Lock, Insert, Remove, Commit, PrintBuffer, PostFull, PostEmpty, vars, Goto,
         ProducerPC, ConsumerPC
<1> QED
  BY <1>2, <1>3, <1>4, <1>5, <1>6 DEF TypeOK

(* Nobody takes an error branch in a step: the test is made by a thread    *)
(* that holds a token.                                                     *)
LEMMA NoErrorStep ==
  ASSUME IInv, [Next]_vars
  PROVE  NoError'
<1> USE DEF IInv
<1>c. Producer \subseteq Thread /\ Consumer \subseteq Thread
  BY DEF Thread
<1>1. ASSUME NEW p \in Producer, Insert(p)
      PROVE  NoError'
  <2>1. counter < BUFFER_SIZE
    BY <1>1, RoomToAct DEF Insert, Goto, Reserved
  <2> QED
    BY <1>1, <2>1, <1>c DEF Insert, Goto, NoError, TypeOK
<1>2. ASSUME NEW c \in Consumer, Remove(c)
      PROVE  NoError'
  <2>1. counter > 0
    BY <1>2, RoomToAct DEF Remove, Goto, Claimed
  <2> QED
    BY <1>2, <2>1, <1>c DEF Remove, Goto, NoError, TypeOK
<1>3. CASE ~(\E p \in Producer : Insert(p)) /\ ~(\E c \in Consumer : Remove(c))
  BY <1>3, <1>c
     DEF TypeOK, NoError, Next, producer, consumer, LoadCount, StoreCount, WaitEmpty,
         WaitFull, Lock, Commit, PrintBuffer, PostFull, PostEmpty, vars, Goto
<1> QED
  BY <1>1, <1>2, <1>3

(* The mutex keeps exactly one thread between lock and unlock.             *)
LEMMA MutualExclusionStep ==
  ASSUME IInv, [Next]_vars
  PROVE  MutualExclusion'
<1> USE DEF IInv
<1>c. /\ Producer \subseteq Thread /\ Consumer \subseteq Thread
      /\ Free \notin Thread
  BY ThreadAssumption, ValueAssumption DEF Thread, ThreadAssumption, ValueAssumption
<1>1. ASSUME NEW t \in Thread, Lock(t)
      PROVE  MutualExclusion'
  BY <1>1, <1>c DEF Lock, Goto, MutualExclusion, TypeOK
<1>2. ASSUME NEW p \in Producer, Insert(p)
      PROVE  MutualExclusion'
  BY <1>2, <1>c DEF Insert, Goto, MutualExclusion, TypeOK
<1>3. ASSUME NEW c \in Consumer, Remove(c)
      PROVE  MutualExclusion'
  BY <1>3, <1>c DEF Remove, Goto, MutualExclusion, TypeOK
<1>4. ASSUME NEW t \in Thread, Commit(t)
      PROVE  MutualExclusion'
  BY <1>4, <1>c DEF Commit, Goto, MutualExclusion, TypeOK
<1>5. ASSUME UNCHANGED mutex,
             \A t \in Thread : pc'[t] \in {"access", "commit"} <=> pc[t] \in {"access", "commit"}
      PROVE  MutualExclusion'
  BY <1>5 DEF MutualExclusion
<1>6. CASE \E p \in Producer : \/ LoadCount(p) \/ StoreCount(p) \/ WaitEmpty(p)
                               \/ PrintBuffer(p) \/ PostFull(p)
  BY <1>6, <1>5, <1>c
     DEF LoadCount, StoreCount, WaitEmpty, PrintBuffer, PostFull, Goto, TypeOK
<1>7. CASE \E c \in Consumer : WaitFull(c) \/ PrintBuffer(c) \/ PostEmpty(c)
  BY <1>7, <1>5, <1>c DEF WaitFull, PrintBuffer, PostEmpty, Goto, TypeOK
<1>8. CASE UNCHANGED vars
  BY <1>8, <1>5 DEF vars
<1> QED
  BY <1>1, <1>2, <1>3, <1>4, <1>6, <1>7, <1>8, <1>c DEF Next, producer, consumer

(* While a thread is between the array access and the counter update, the  *)
(* mutex keeps every other thread away from the array and from counter.    *)
LEMMA SlotStableStep ==
  ASSUME IInv, [Next]_vars
  PROVE  SlotStable'
<1> USE DEF IInv
<1>c. /\ Producer \subseteq Thread /\ Consumer \subseteq Thread
      /\ \A p \in Producer : p \notin Consumer
  BY ThreadAssumption, ValueAssumption DEF Thread, ThreadAssumption, ValueAssumption
<1>i. BUFFER_SIZE \in Nat \ {0} /\ counter \in 0 .. BUFFER_SIZE
  BY SizeAssumption DEF TypeOK, SizeAssumption
<1>1. ASSUME NEW p \in Producer, Insert(p)
      PROVE  SlotStable'
  <2>1. counter < BUFFER_SIZE
    BY <1>1, RoomToAct DEF Insert, Goto, Reserved
  <2>2. \A t \in Thread : pc'[t] = "commit" => t = p
    BY <1>1, <2>1, <1>c DEF Insert, Goto, MutualExclusion, TypeOK
  <2>3. buffer'[counter'] = item'[p]
    BY <1>1, <2>1, <1>i DEF Insert, TypeOK
  <2> QED
    BY <2>2, <2>3, <1>c DEF SlotStable
<1>2. ASSUME NEW c \in Consumer, Remove(c)
      PROVE  SlotStable'
  <2>1. counter > 0
    BY <1>2, RoomToAct DEF Remove, Goto, Claimed
  <2>2. \A t \in Thread : pc'[t] = "commit" => t = c
    BY <1>2, <2>1, <1>c DEF Remove, Goto, MutualExclusion, TypeOK
  <2>3. buffer'[counter' - 1] = item'[c]
    BY <1>2, <2>1, <1>c DEF Remove, TypeOK
  <2> QED
    BY <2>2, <2>3, <1>c DEF SlotStable
<1>3. ASSUME NEW t \in Thread, Commit(t)
      PROVE  SlotStable'
  <2>1. \A u \in Thread : pc'[u] # "commit"
    BY <1>3, <1>c DEF Commit, Goto, MutualExclusion, TypeOK
  <2> QED
    BY <2>1, <1>c DEF SlotStable
<1>4. ASSUME NEW p \in Producer, LoadCount(p)
      PROVE  SlotStable'
  BY <1>4, <1>c DEF LoadCount, Goto, SlotStable, TypeOK
<1>5. ASSUME UNCHANGED <<buffer, counter, item>>,
             \A t \in Thread : pc'[t] = "commit" => pc[t] = "commit"
      PROVE  SlotStable'
  BY <1>5, <1>c DEF SlotStable
<1>6. CASE \/ \E p \in Producer : \/ StoreCount(p) \/ WaitEmpty(p) \/ Lock(p)
                                  \/ PrintBuffer(p) \/ PostFull(p)
           \/ \E c \in Consumer : WaitFull(c) \/ Lock(c) \/ PrintBuffer(c) \/ PostEmpty(c)
  BY <1>6, <1>5, <1>c
     DEF StoreCount, WaitEmpty, WaitFull, Lock, PrintBuffer, PostFull, PostEmpty, Goto, TypeOK
<1>7. CASE UNCHANGED vars
  BY <1>7, <1>5 DEF vars
<1> QED
  BY <1>1, <1>2, <1>3, <1>4, <1>6, <1>7, <1>c DEF Next, producer, consumer

(* initializeData establishes the invariant: no thread holds anything, all *)
(* slots are free.                                                         *)
LEMMA InitInvariant == Init => IInv
<1> SUFFICES ASSUME Init PROVE IInv
  OBVIOUS
<1>c. /\ Producer \subseteq Thread /\ Consumer \subseteq Thread
      /\ \A p \in Producer : p \notin Consumer
      /\ Free \notin Thread
  BY ThreadAssumption, ValueAssumption DEF Thread, ThreadAssumption, ValueAssumption
<1>i. BUFFER_SIZE \in Nat \ {0} /\ \A n \in Nat : n % IntRange \in Item
  BY SizeAssumption, ValueAssumption DEF Item, SizeAssumption, ValueAssumption
<1>1. TypeOK
  BY <1>c, <1>i DEF Init, TypeOK, ProducerPC, ConsumerPC
<1>2. Reserved = {} /\ Filled = {} /\ Claimed = {} /\ Emptied = {}
  BY <1>c DEF Init, Reserved, Filled, Claimed, Emptied
<1>3. Accounting
  BY <1>2, <1>i, FS_EmptySet DEF Init, Accounting
<1>4. NoError /\ MutualExclusion /\ SlotStable
  BY <1>c DEF Init, NoError, MutualExclusion, SlotStable
<1> QED
  BY <1>1, <1>3, <1>4 DEF IInv

(* The invariant holds in every state lab2 reaches, whatever the number of *)
(* threads and the size of the buffer.                                     *)
THEOREM Invariance == Spec => []IInv
<1>1. Init => IInv
  BY InitInvariant
<1>2. IInv /\ [Next]_vars => IInv'
  BY AccountingStep, TypeStep, NoErrorStep, MutualExclusionStep, SlotStableStep DEF IInv
<1> QED
  BY <1>1, <1>2, PTL DEF Spec

(* counter stays between 0 and BUFFER_SIZE and no semaphore goes above     *)
(* what it was initialised to, whatever the threads do in what order.      *)
THEOREM CountersInRange == Spec => []TypeOK
BY Invariance, PTL DEF IInv

(* insert_item and remove_item never return an error: the semaphores keep  *)
(* a producer out of a full buffer and a consumer out of an empty one.     *)
THEOREM BufferNeverErrs == Spec => []NoError
BY Invariance, PTL DEF IInv

(* No token of the semaphores is ever lost or duplicated.                  *)
THEOREM TokensAddUp == Spec => []Accounting
BY Invariance, PTL DEF IInv

(* The mutex owner is the only thread inside an insertion or a removal,    *)
(* and it finds its slot as it left it.                                    *)
THEOREM AccessIsExclusive == Spec => [](MutualExclusion /\ SlotStable)
BY Invariance, PTL DEF IInv

-----------------------------------------------------------------------------
(* The refinement.  The abstract stack moves exactly when counter does, and *)
(* the hand of a consumer when it leaves remove_item or printBuffer.       *)
stackOf == [i \in 1 .. counter |-> buffer[i - 1]]
handOf == [c \in Consumer |-> IF pc[c] = "print" THEN item[c] ELSE Nothing]

(* counter++ makes the stored item the top of the abstract stack.          *)
LEMMA CommitPuts ==
  ASSUME IInv, NEW p \in Producer, Commit(p)
  PROVE  Stack!Put
<1> USE DEF IInv
<1>c. p \in Thread /\ p \notin Consumer /\ Consumer \subseteq Thread
  BY ThreadAssumption, ValueAssumption DEF Thread, ThreadAssumption, ValueAssumption
<1>1. counter < BUFFER_SIZE
  BY RoomToAct DEF Commit, Goto, Reserved
<1>2. BUFFER_SIZE \in Nat /\ counter \in Nat /\ buffer \in [0 .. BUFFER_SIZE - 1 -> Item]
  BY SizeAssumption DEF TypeOK, SizeAssumption
<1>3. /\ counter' = counter + 1 /\ buffer' = buffer /\ buffer[counter] = item[p]
      /\ UNCHANGED item /\ \A c \in Consumer : pc'[c] = pc[c]
  BY <1>c DEF Commit, Goto, SlotStable, TypeOK
<1>4. stackOf \in Seq(Item) /\ Len(stackOf) = counter
  BY <1>1, <1>2 DEF stackOf
<1>5. buffer[counter] \in Item
  BY <1>1, <1>2
<1>6. stackOf' = Append(stackOf, buffer[counter])
  BY <1>1, <1>2, <1>3, <1>4, <1>5 DEF stackOf
<1>7. handOf' = handOf
  BY <1>3 DEF handOf
<1> QED
  BY <1>1, <1>4, <1>5, <1>6, <1>7 DEF Stack!Put, stackOf, handOf

(* counter-- takes the top of the abstract stack into the consumer's hand. *)
LEMMA CommitTakes ==
  ASSUME IInv, NEW c \in Consumer, Commit(c)
  PROVE  Stack!Take(c)
<1> USE DEF IInv
<1>c. c \in Thread /\ c \notin Producer /\ Consumer \subseteq Thread
  BY ThreadAssumption, ValueAssumption DEF Thread, ThreadAssumption, ValueAssumption
<1>1. counter > 0
  BY RoomToAct DEF Commit, Goto, Claimed
<1>2. /\ BUFFER_SIZE \in Nat /\ counter \in 1 .. BUFFER_SIZE
      /\ buffer \in [0 .. BUFFER_SIZE - 1 -> Item]
  BY <1>1, SizeAssumption DEF TypeOK, SizeAssumption
<1>3. /\ counter' = counter - 1 /\ buffer' = buffer /\ buffer[counter - 1] = item[c]
      /\ UNCHANGED item /\ pc[c] = "commit" /\ pc' = [pc EXCEPT ![c] = "print"]
  BY <1>c DEF Commit, Goto, SlotStable
<1>4. /\ stackOf \in Seq(Item) /\ Len(stackOf) = counter /\ stackOf # << >>
      /\ stackOf[Len(stackOf)] = item[c]
  <2>1. stackOf \in Seq(Item) /\ Len(stackOf) = counter
    BY <1>2 DEF stackOf
  <2>2. stackOf[counter] = item[c]
    BY <1>2, <1>3 DEF stackOf
  <2>3. Len(<< >>) = 0 /\ counter # 0
    BY <1>2
  <2> QED
    BY <2>1, <2>2, <2>3
<1>5. stackOf' = SubSeq(stackOf, 1, Len(stackOf) - 1)
  <2>1. \A i \in 1 .. counter - 1 : stackOf[i] \in Item
    BY <1>2 DEF stackOf
  <2>n. 1 \in Int /\ counter - 1 \in Nat
    BY <1>2
  <2>2. /\ SubSeq(stackOf, 1, counter - 1) \in Seq(Item)
        /\ Len(SubSeq(stackOf, 1, counter - 1)) = counter - 1
        /\ \A i \in 1 .. counter - 1 : SubSeq(stackOf, 1, counter - 1)[i] = stackOf[i]
    BY <2>n, <2>1, SubSeqProperties
  <2>3. /\ stackOf' \in Seq(Item) /\ Len(stackOf') = counter - 1
        /\ \A i \in 1 .. counter - 1 : stackOf'[i] = stackOf[i]
    BY <1>2, <1>3 DEF stackOf
  <2>4. stackOf' = SubSeq(stackOf, 1, counter - 1)
    BY <2>2, <2>3, SeqEqual
  <2> QED
    BY <1>4, <2>4
<1>6. handOf[c] = Nothing
  BY <1>3 DEF handOf
<1>7. handOf' = [handOf EXCEPT ![c] = item[c]]
  BY <1>3, <1>c DEF handOf, TypeOK
<1> QED
  BY <1>4, <1>5, <1>6, <1>7 DEF Stack!Take, stackOf, handOf

(* Leaving printBuffer lets go of the item.                                *)
LEMMA PrintConsumes ==
  ASSUME IInv, NEW c \in Consumer, PrintBuffer(c)
  PROVE  Stack!Consume(c)
<1> USE DEF IInv
<1>c. c \in Thread /\ Consumer \subseteq Thread
  BY DEF Thread
<1>1. pc[c] = "print" /\ pc' = [pc EXCEPT ![c] = "post"]
      /\ UNCHANGED <<buffer, counter, item>>
  BY <1>c DEF PrintBuffer, NoError
<1>2. item[c] \in Item /\ Nothing \notin Item
  BY <1>c, ValueAssumption DEF TypeOK, ValueAssumption, Item
<1>3. handOf[c] # Nothing
  BY <1>1, <1>2 DEF handOf
<1>4. handOf' = [handOf EXCEPT ![c] = Nothing]
  BY <1>1, <1>c DEF handOf, TypeOK
<1>5. stackOf' = stackOf
  BY <1>1 DEF stackOf
<1> QED
  BY <1>3, <1>4, <1>5 DEF Stack!Consume, stackOf, handOf

(* Every other step is invisible: the store of insert_item lands above the *)
(* filled part, the load of remove_item is not yet a removal.              *)
LEMMA OthersStutter ==
  ASSUME IInv,
         \/ \E p \in Producer :
              \/ LoadCount(p) \/ StoreCount(p) \/ WaitEmpty(p) \/ Lock(p) \/ Insert(p)
              \/ PrintBuffer(p) \/ PostFull(p)
         \/ \E c \in Consumer : WaitFull(c) \/ Lock(c) \/ Remove(c) \/ PostEmpty(c)
         \/ UNCHANGED vars
  PROVE  UNCHANGED <<stackOf, handOf>>
<1> USE DEF IInv
<1>c. /\ Producer \subseteq Thread /\ Consumer \subseteq Thread
      /\ \A p \in Producer : p \notin Consumer
  BY ThreadAssumption, ValueAssumption DEF Thread, ThreadAssumption, ValueAssumption
<1>i. /\ BUFFER_SIZE \in Nat /\ counter \in 0 .. BUFFER_SIZE
      /\ buffer \in [0 .. BUFFER_SIZE - 1 -> Item]
  BY SizeAssumption DEF TypeOK, SizeAssumption
<1>1. stackOf' = stackOf
  <2>1. ASSUME NEW p \in Producer, Insert(p)
        PROVE  stackOf' = stackOf
    BY <2>1, <1>i DEF Insert, stackOf
  <2>2. CASE UNCHANGED <<buffer, counter>>
    BY <2>2 DEF stackOf
  <2> QED
    BY <2>1, <2>2
       DEF LoadCount, StoreCount, WaitEmpty, WaitFull, Lock, Remove, PrintBuffer,
           PostFull, PostEmpty, vars
<1>2. ASSUME NEW c \in Consumer
      PROVE  /\ (pc'[c] = "print") <=> (pc[c] = "print")
             /\ pc[c] = "print" => item'[c] = item[c]
  BY <1>c, Zenon
     DEF TypeOK, LoadCount, StoreCount, WaitEmpty, WaitFull, Lock, Insert, Remove,
         PrintBuffer, PostFull, PostEmpty, vars, Goto
<1>3. handOf' = handOf
  BY <1>2, Zenon DEF handOf
<1> QED
  BY <1>1, <1>3

(* lab2 implements the abstract stack: every item inserted is taken by one *)
(* consumer, last in first out, and never more than BUFFER_SIZE are inside. *)
THEOREM RefinesStack == Spec => ImplementsStack
<1>1. Init => Stack!Init
  <2> SUFFICES ASSUME Init PROVE Stack!Init
    OBVIOUS
  <2>1. stackOf = << >>
    BY DEF Init, stackOf
  <2>2. handOf = [c \in Consumer |-> Nothing]
    BY ThreadAssumption DEF Init, handOf, Thread, ThreadAssumption
  <2> QED
    BY <2>1, <2>2 DEF Stack!Init, stackOf, handOf
<1>2. IInv /\ [Next]_vars => [Stack!Next]_(Stack!stackVars)
  <2> SUFFICES ASSUME IInv, [Next]_vars PROVE [Stack!Next]_(Stack!stackVars)
    OBVIOUS
  <2>1. CASE \E p \in Producer : Commit(p)
    BY <2>1, CommitPuts DEF Stack!Next
  <2>2. CASE \E c \in Consumer : Commit(c)
    BY <2>2, CommitTakes DEF Stack!Next
  <2>3. CASE \E c \in Consumer : PrintBuffer(c)
    BY <2>3, PrintConsumes DEF Stack!Next
  <2>4. ASSUME UNCHANGED <<stackOf, handOf>>
        PROVE  UNCHANGED Stack!stackVars
    BY <2>4 DEF Stack!stackVars, stackOf, handOf
  <2> QED
    BY <2>1, <2>2, <2>3, <2>4, OthersStutter DEF Next, producer, consumer
<1> QED
  BY <1>1, <1>2, Invariance, PTL DEF Spec, ImplementsStack, Stack!Spec

-----------------------------------------------------------------------------
(* main_old.c                                                              *)

(* As long as producers take turns: what the one past its test has found   *)
(* stays true, since only it can fill a slot, and a stale store of a       *)
(* consumer leaves room as well.                                           *)
NeverAbove ==
  /\ old_counter <= BUFFER_SIZE
  /\ \A t \in Thread : old_pc[t] # "above" /\ loaded[t] <= BUFFER_SIZE
  /\ \A p \in Producer :
       /\ old_pc[p] # "test" => \A q \in Producer : old_pc[q] # "test" => q = p
       /\ old_pc[p] \in {"access", "load"} => old_counter < BUFFER_SIZE
       /\ old_pc[p] = "store" => loaded[p] < BUFFER_SIZE

(* And the same of consumers, of items.                                    *)
NeverBelow ==
  /\ old_counter >= 0
  /\ \A t \in Thread : old_pc[t] # "below" /\ loaded[t] >= 0
  /\ \A c \in Consumer :
       /\ old_pc[c] # "test" => \A d \in Consumer : old_pc[d] # "test" => d = c
       /\ old_pc[c] \in {"access", "load"} => old_counter > 0
       /\ old_pc[c] = "store" => loaded[c] > 0

OldInv == /\ OldTypeOK
          /\ ~producersMet => NeverAbove
          /\ ~consumersMet => NeverBelow

(* The program starts with an empty buffer and every thread at its test.   *)
LEMMA OldStarts == OldInit => OldInv
<1> SUFFICES ASSUME OldInit PROVE OldInv
  OBVIOUS
<1> USE ThreadAssumption, SizeAssumption DEF OldInit, Thread
<1>1. OldTypeOK
  <2>1. old_counter \in Int /\ loaded \in [Thread -> Int]
    BY SMT
  <2>2. old_pc \in [Thread -> {"test", "access", "load", "store", "below", "above"}]
    OBVIOUS
  <2>3. producersMet \in BOOLEAN /\ consumersMet \in BOOLEAN
    BY Zenon
  <2>4. QED
    BY <2>1, <2>2, <2>3 DEF OldTypeOK
<1>2. NeverAbove
  BY DEF NeverAbove
<1>3. NeverBelow
  BY DEF NeverBelow
<1>4. QED
  BY <1>1, <1>2, <1>3 DEF OldInv

(* Every step of a thread keeps the types.                                 *)
LEMMA OldTypes ==
  ASSUME OldTypeOK, OldNext PROVE OldTypeOK'
<1> USE DEF OldTypeOK, OldGoto
<1>1. ASSUME NEW t \in Thread, Load(t) PROVE OldTypeOK'
  BY <1>1 DEF Load
<1>2. ASSUME NEW t \in Thread, NEW value \in Int, Store(t, value) PROVE OldTypeOK'
  BY <1>2 DEF Store
<1>3. ASSUME NEW p \in Producer, old_producer(p) PROVE OldTypeOK'
  <2>0. p \in Thread /\ loaded[p] + 1 \in Int
    BY DEF Thread
  <2>1. CASE TestRoom(p)
    BY <2>0, <2>1 DEF TestRoom, PastTest
  <2>2. CASE OldInsert(p)
    BY <2>0, <2>2 DEF OldInsert, AfterAccess
  <2>3. QED
    BY <1>1, <1>2, <1>3, <2>0, <2>1, <2>2 DEF old_producer, StoreMore
<1>4. ASSUME NEW c \in Consumer, old_consumer(c) PROVE OldTypeOK'
  <2>0. c \in Thread /\ loaded[c] - 1 \in Int
    BY DEF Thread
  <2>1. CASE TestItem(c)
    BY <2>0, <2>1 DEF TestItem, PastTest
  <2>2. CASE OldRemove(c)
    BY <2>0, <2>2 DEF OldRemove, AfterAccess
  <2>3. QED
    BY <1>1, <1>2, <1>4, <2>0, <2>1, <2>2 DEF old_consumer, StoreLess
<1>5. QED
  BY <1>3, <1>4 DEF OldNext

(* While producers take turns, a step of one of them stays below the end.  *)
LEMMA ProducerBelowEnd ==
  ASSUME OldTypeOK, NeverAbove, NEW p \in Producer, old_producer(p), ~producersMet'
  PROVE  NeverAbove'
<1> USE ThreadAssumption, SizeAssumption
<1>0. p \in Thread /\ p \notin Consumer
  BY DEF Thread
<1>1. CASE TestRoom(p)
  BY <1>0, <1>1 DEF OldTypeOK, NeverAbove, TestRoom, PastTest, OldGoto, Thread
<1>2. CASE OldInsert(p)
  BY <1>0, <1>2 DEF OldTypeOK, NeverAbove, OldInsert, AfterAccess, OldGoto, Thread
<1>3. CASE Load(p)
  BY <1>0, <1>3 DEF OldTypeOK, NeverAbove, Load, OldGoto, Thread
<1>4. CASE StoreMore(p)
  BY <1>0, <1>4 DEF OldTypeOK, NeverAbove, StoreMore, Store, OldGoto, Thread
<1>5. QED
  BY <1>1, <1>2, <1>3, <1>4 DEF old_producer

(* And so does a step of any consumer.                                     *)
LEMMA ConsumerBelowEnd ==
  ASSUME OldTypeOK, NeverAbove, NEW c \in Consumer, old_consumer(c)
  PROVE  NeverAbove'
<1> USE ThreadAssumption, SizeAssumption
<1>0. c \in Thread /\ c \notin Producer
  BY DEF Thread
<1>1. CASE TestItem(c)
  BY <1>0, <1>1 DEF OldTypeOK, NeverAbove, TestItem, OldGoto, Thread
<1>2. CASE OldRemove(c)
  BY <1>0, <1>2 DEF OldTypeOK, NeverAbove, OldRemove, AfterAccess, OldGoto, Thread
<1>3. CASE Load(c)
  BY <1>0, <1>3 DEF OldTypeOK, NeverAbove, Load, OldGoto, Thread
<1>4. CASE StoreLess(c)
  BY <1>0, <1>4 DEF OldTypeOK, NeverAbove, StoreLess, Store, OldGoto, Thread
<1>5. QED
  BY <1>1, <1>2, <1>3, <1>4 DEF old_consumer

(* While consumers take turns, a step of any producer stays above the      *)
(* start.                                                                  *)
LEMMA ProducerAboveStart ==
  ASSUME OldTypeOK, NeverBelow, NEW p \in Producer, old_producer(p)
  PROVE  NeverBelow'
<1> USE ThreadAssumption, SizeAssumption
<1>0. p \in Thread /\ p \notin Consumer
  BY DEF Thread
<1>1. CASE TestRoom(p)
  BY <1>0, <1>1 DEF OldTypeOK, NeverBelow, TestRoom, OldGoto, Thread
<1>2. CASE OldInsert(p)
  BY <1>0, <1>2 DEF OldTypeOK, NeverBelow, OldInsert, AfterAccess, OldGoto, Thread
<1>3. CASE Load(p)
  BY <1>0, <1>3 DEF OldTypeOK, NeverBelow, Load, OldGoto, Thread
<1>4. CASE StoreMore(p)
  BY <1>0, <1>4 DEF OldTypeOK, NeverBelow, StoreMore, Store, OldGoto, Thread
<1>5. QED
  BY <1>1, <1>2, <1>3, <1>4 DEF old_producer

(* And so does a step of the one consumer.                                 *)
LEMMA ConsumerAboveStart ==
  ASSUME OldTypeOK, NeverBelow, NEW c \in Consumer, old_consumer(c), ~consumersMet'
  PROVE  NeverBelow'
<1> USE ThreadAssumption, SizeAssumption
<1>0. c \in Thread /\ c \notin Producer
  BY DEF Thread
<1>1. CASE TestItem(c)
  BY <1>0, <1>1 DEF OldTypeOK, NeverBelow, TestItem, PastTest, OldGoto, Thread
<1>2. CASE OldRemove(c)
  BY <1>0, <1>2 DEF OldTypeOK, NeverBelow, OldRemove, AfterAccess, OldGoto, Thread
<1>3. CASE Load(c)
  BY <1>0, <1>3 DEF OldTypeOK, NeverBelow, Load, OldGoto, Thread
<1>4. CASE StoreLess(c)
  BY <1>0, <1>4 DEF OldTypeOK, NeverBelow, StoreLess, Store, OldGoto, Thread
<1>5. QED
  BY <1>1, <1>2, <1>3, <1>4 DEF old_consumer

(* What has met stays met.                                                 *)
LEMMA MeetingsStay ==
  ASSUME OldTypeOK, OldNext
  PROVE  (producersMet => producersMet') /\ (consumersMet => consumersMet')
<1>1. ASSUME NEW p \in Producer, old_producer(p)
      PROVE  (producersMet => producersMet') /\ consumersMet' = consumersMet
  BY <1>1 DEF OldTypeOK, old_producer, TestRoom, PastTest, OldInsert, Load, StoreMore, Store
<1>2. ASSUME NEW c \in Consumer, old_consumer(c)
      PROVE  (consumersMet => consumersMet') /\ producersMet' = producersMet
  BY <1>2 DEF OldTypeOK, old_consumer, TestItem, PastTest, OldRemove, Load, StoreLess, Store
<1>3. QED
  BY <1>1, <1>2 DEF OldNext

(* Without a lock and without semaphores, and with any number of threads   *)
(* and any BUFFER_SIZE (main_old.c:107, 124, 147 and 148): the array is    *)
(* left only after two producers, or two consumers, were past their tests  *)
(* at the same time.                                                       *)
THEOREM OnlyOverlapsLeaveArray == OldSpec => [](OldTypeOK /\ InBounds)
<1>1. OldInv /\ [OldNext]_old_vars => OldInv'
  <2> SUFFICES ASSUME OldInv, [OldNext]_old_vars PROVE OldInv'
    OBVIOUS
  <2>1. CASE OldNext
    <3>1. OldTypeOK /\ OldTypeOK'
      BY <2>1, OldTypes DEF OldInv
    <3>2. ~producersMet' => NeverAbove'
      BY <2>1, <3>1, MeetingsStay, ProducerBelowEnd, ConsumerBelowEnd DEF OldNext, OldInv
    <3>3. ~consumersMet' => NeverBelow'
      BY <2>1, <3>1, MeetingsStay, ProducerAboveStart, ConsumerAboveStart
         DEF OldNext, OldInv
    <3>4. QED
      BY <3>1, <3>2, <3>3 DEF OldInv
  <2>2. CASE UNCHANGED old_vars
    BY <2>2 DEF old_vars, OldInv, OldTypeOK, NeverAbove, NeverBelow
  <2>3. QED
    BY <2>1, <2>2
<1>2. OldInv => OldTypeOK /\ InBounds
  BY DEF OldInv, OldTypeOK, NeverAbove, NeverBelow, InBounds
<1>3. QED
  BY OldStarts, <1>1, <1>2, PTL DEF OldSpec
=============================================================================
