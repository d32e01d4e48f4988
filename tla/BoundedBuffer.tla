---------------------------- MODULE BoundedBuffer ----------------------------
(***************************************************************************)
(* lab2/main.c: producers and consumers that share an array, guarded by a  *)
(* pthread mutex and two counting semaphores.  Every thread has a pc that  *)
(* names the statement it executes next; insert_item and remove_item are   *)
(* split where another thread can observe them.                            *)
(***************************************************************************)
EXTENDS BufferThreads

CONSTANTS IntRange,     \* number of values of the C int that count is kept in
          Free,         \* the mutex has no owner
          Nothing       \* an empty hand of the abstract stack

ASSUME ValueAssumption ==
  /\ IntRange \in Nat \ {0}
  /\ Free \notin Thread
  /\ Nothing \notin 0 .. IntRange - 1

VARIABLES
  buffer,   \* the array, indexed from 0
  counter,  \* number of filled slots
  count,    \* the next item, shared by the producers and not locked
  full,     \* semaphore: items that may be removed
  empty,    \* semaphore: slots that may be filled
  mutex,    \* owner of the pthread mutex, or Free
  pc,       \* next statement of each thread
  item      \* local variable item of each thread

vars == <<buffer, counter, count, full, empty, mutex, pc, item>>

Item == 0 .. IntRange - 1

(* initializeData: full = 0, empty = BUFFER_SIZE, counter = 0; the array   *)
(* holds 1, 2, ... and count the number after them.                        *)
Init ==
  /\ buffer = [i \in 0 .. BUFFER_SIZE - 1 |-> (i + 1) % IntRange]
  /\ counter = 0
  /\ count = (BUFFER_SIZE + 1) % IntRange
  /\ full = 0
  /\ empty = BUFFER_SIZE
  /\ mutex = Free
  /\ pc = [t \in Thread |-> IF t \in Producer THEN "make" ELSE "wait"]
  /\ item \in [Thread -> Item]

Goto(t, from, to) ==
  /\ pc[t] = from
  /\ pc' = [pc EXCEPT ![t] = to]

(* item = count++ is a load and a store that nothing makes atomic.         *)
LoadCount(p) ==
  /\ Goto(p, "make", "bump")
  /\ item' = [item EXCEPT ![p] = count]
  /\ UNCHANGED <<buffer, counter, count, full, empty, mutex>>

StoreCount(p) ==
  /\ Goto(p, "bump", "wait")
  /\ count' = (item[p] + 1) % IntRange
  /\ UNCHANGED <<buffer, counter, full, empty, mutex, item>>

(* Mutant: the producer of main_old.c, which has no semaphore to wait for. *)
WaitEmptyNever(p) ==
  /\ Goto(p, "wait", "lock")
  /\ UNCHANGED <<buffer, counter, count, full, empty, mutex, item>>

WaitEmpty(p) ==
  /\ empty > 0
  /\ Goto(p, "wait", "lock")
  /\ empty' = empty - 1
  /\ UNCHANGED <<buffer, counter, count, full, mutex, item>>

WaitFull(c) ==
  /\ full > 0
  /\ Goto(c, "wait", "lock")
  /\ full' = full - 1
  /\ UNCHANGED <<buffer, counter, count, empty, mutex, item>>

(* Mutant: the insertion and removal of main_old.c, which take no mutex.   *)
LockNever(t) ==
  /\ Goto(t, "lock", "access")
  /\ mutex' = t
  /\ UNCHANGED <<buffer, counter, count, full, empty, item>>

Lock(t) ==
  /\ mutex = Free
  /\ Goto(t, "lock", "access")
  /\ mutex' = t
  /\ UNCHANGED <<buffer, counter, count, full, empty, item>>

(* insert_item: store into the first unfilled slot and keep the mutex; on  *)
(* a full buffer unlock and return -1.                                     *)
Insert(p) ==
  LET room == counter < BUFFER_SIZE IN
  /\ Goto(p, "access", IF room THEN "commit" ELSE "rejected")
  /\ buffer' = IF room THEN [buffer EXCEPT ![counter] = item[p]] ELSE buffer
  /\ mutex' = IF room THEN p ELSE Free
  /\ UNCHANGED <<counter, count, full, empty, item>>

(* Mutant: the item is taken from the bottom of the array.                 *)
RemoveBottom(c) ==
  /\ counter > 0
  /\ Goto(c, "access", "commit")
  /\ item' = [item EXCEPT ![c] = buffer[0]]
  /\ UNCHANGED <<buffer, counter, count, full, empty, mutex>>

(* remove_item: load the last filled slot and keep the mutex; on an empty  *)
(* buffer unlock and return -1.                                            *)
Remove(c) ==
  LET some == counter > 0 IN
  /\ Goto(c, "access", IF some THEN "commit" ELSE "rejected")
  /\ item' = IF some THEN [item EXCEPT ![c] = buffer[counter - 1]] ELSE item
  /\ mutex' = IF some THEN c ELSE Free
  /\ UNCHANGED <<buffer, counter, count, full, empty>>

(* counter++ or counter--, unlock, return 0.                               *)
Commit(t) ==
  /\ Goto(t, "commit", "print")
  /\ counter' = IF t \in Producer THEN counter + 1 ELSE counter - 1
  /\ mutex' = Free
  /\ UNCHANGED <<buffer, count, full, empty, item>>

(* printBuffer reads the whole array with the mutex released.              *)
PrintBuffer(t) ==
  /\ pc[t] \in {"print", "rejected"}
  /\ pc' = [pc EXCEPT ![t] = "post"]
  /\ UNCHANGED <<buffer, counter, count, full, empty, mutex, item>>

PostFull(p) ==
  /\ Goto(p, "post", "make")
  /\ full' = full + 1
  /\ UNCHANGED <<buffer, counter, count, empty, mutex, item>>

(* Mutant: the consumer posts the semaphore it waited for.                 *)
PostEmptySwapped(c) ==
  /\ Goto(c, "post", "wait")
  /\ full' = full + 1
  /\ UNCHANGED <<buffer, counter, count, empty, mutex, item>>

PostEmpty(c) ==
  /\ Goto(c, "post", "wait")
  /\ empty' = empty + 1
  /\ UNCHANGED <<buffer, counter, count, full, mutex, item>>

producer(p) ==
  \/ LoadCount(p) \/ StoreCount(p) \/ WaitEmpty(p) \/ Lock(p)
  \/ Insert(p) \/ Commit(p) \/ PrintBuffer(p) \/ PostFull(p)

consumer(c) ==
  \/ WaitFull(c) \/ Lock(c) \/ Remove(c)
  \/ Commit(c) \/ PrintBuffer(c) \/ PostEmpty(c)

Next == (\E p \in Producer : producer(p)) \/ (\E c \in Consumer : consumer(c))

Spec == Init /\ [][Next]_vars

(* Every thread keeps running: no scheduler suspends one that can step.    *)
Fairness == /\ \A p \in Producer : WF_vars(producer(p))
            /\ \A c \in Consumer : WF_vars(consumer(c))

FairSpec == Spec /\ Fairness
-----------------------------------------------------------------------------
(* The threads by what they hold: a slot taken from empty and not yet      *)
(* counted, an item counted and not yet posted, an item taken from full    *)
(* and not yet uncounted, a slot uncounted and not yet posted.             *)
Reserved == {p \in Producer : pc[p] \in {"lock", "access", "commit"}}
Filled   == {p \in Producer : pc[p] \in {"print", "post"}}
Claimed  == {c \in Consumer : pc[c] \in {"lock", "access", "commit"}}
Emptied  == {c \in Consumer : pc[c] \in {"print", "post"}}

ProducerPC == {"make", "bump", "wait", "lock", "access", "commit",
               "print", "rejected", "post"}
ConsumerPC == ProducerPC \ {"make", "bump"}

(* Every variable holds a value of its C type and stays inside the ranges  *)
(* sem_init and the array declaration give it.                             *)
TypeOK ==
  /\ buffer \in [0 .. BUFFER_SIZE - 1 -> Item]
  /\ counter \in 0 .. BUFFER_SIZE
  /\ count \in Item
  /\ full \in 0 .. BUFFER_SIZE
  /\ empty \in 0 .. BUFFER_SIZE
  /\ mutex \in Thread \cup {Free}
  /\ pc \in [Thread -> ProducerPC]
  /\ \A c \in Consumer : pc[c] \in ConsumerPC
  /\ item \in [Thread -> Item]

(* The branches "Error the buffer is full" and "Error buffer empty" of     *)
(* insert_item and remove_item are dead: the semaphores let a thread in    *)
(* only when there is a slot, or an item, for it.                          *)
NoError == \A t \in Thread : pc[t] # "rejected"

(* No slot and no item is lost or counted twice between the semaphores and *)
(* counter, wherever the threads are: each side of counter is the tokens   *)
(* of a semaphore plus the threads that hold one of its tokens.            *)
Accounting ==
  /\ counter = full + Cardinality(Filled) + Cardinality(Claimed)
  /\ counter + empty + Cardinality(Reserved) + Cardinality(Emptied) = BUFFER_SIZE

(* The mutex covers the whole of an insertion or a removal: its owner is   *)
(* the one thread between lock and unlock.                                 *)
MutualExclusion ==
  \A t \in Thread : (pc[t] \in {"access", "commit"}) <=> (mutex = t)

(* Between the array access and the counter update nobody moves the slot:  *)
(* a producer's item is still just above the filled part, a consumer's is  *)
(* still the top of it.                                                    *)
SlotStable ==
  /\ \A p \in Producer : pc[p] = "commit" => buffer[counter] = item[p]
  /\ \A c \in Consumer : pc[c] = "commit" => buffer[counter - 1] = item[c]

(* Abstract view of lab2: the filled part of the array is a stack, and a   *)
(* consumer holds an item from the moment it is uncounted until it is      *)
(* printed.                                                                *)
Stack == INSTANCE BoundedStack WITH
           Capacity <- BUFFER_SIZE,
           stack <- [i \in 1 .. counter |-> buffer[i - 1]],
           hand <- [c \in Consumer |-> IF pc[c] = "print" THEN item[c] ELSE Nothing]

(* The threads of lab2 implement one bounded stack: every item put on it   *)
(* is taken by exactly one consumer, and nothing overwrites it meanwhile.  *)
ImplementsStack == Stack!Spec

(* Items keep flowing: producers and consumers cannot all end up waiting   *)
(* for each other, neither on a semaphore nor on the mutex.                *)
ItemsFlow == /\ []<>(\E p \in Producer : pc[p] = "post")
             /\ []<>(\E c \in Consumer : pc[c] = "post")
=============================================================================
