---------------------------- MODULE UnsyncBuffer ----------------------------
(***************************************************************************)
(* lab2/main_old.c: the buffer of lab2 before it had a mutex and           *)
(* semaphores.  A thread that finds the buffer full (empty) goes on and    *)
(* tries again, which is a stuttering step here.  insert_item and          *)
(* remove_item read counter three times: for the test, for the index and   *)
(* for counter++ (counter--).  Which items are in the buffer is not        *)
(* modelled: no property looks at them.  What the program does after an    *)
(* access outside the array is undefined: the model ends there.  What has  *)
(* the same name in main.c is called old here.                             *)
(***************************************************************************)
EXTENDS BufferThreads

CONSTANT MaxDrift   \* bound: how far counter leaves 0 .. BUFFER_SIZE in the model

ASSUME DriftAssumption == MaxDrift \in Nat

VARIABLES
  old_counter,   \* number of filled slots, as far as the threads know
  old_pc,        \* next statement of each thread, or where it left the array
  loaded,        \* the value of counter that a thread is about to change
  producersMet,  \* history: two producers were past their tests at once
  consumersMet   \* history: two consumers were

old_vars == <<old_counter, old_pc, loaded, producersMet, consumersMet>>

OldInit ==
  /\ old_counter = 0
  /\ old_pc = [t \in Thread |-> "test"]
  /\ loaded = [t \in Thread |-> 0]
  /\ producersMet = FALSE
  /\ consumersMet = FALSE

OldGoto(t, from, to) ==
  /\ old_pc[t] = from
  /\ old_pc' = [old_pc EXCEPT ![t] = to]

(* Whether one of the threads in S is between its test and its store.      *)
PastTest(S) == \E t \in S : old_pc[t] # "test"

(* Mutant: <= for <.                                                       *)
TestRoomOrFull(p) ==
  /\ old_counter <= BUFFER_SIZE
  /\ OldGoto(p, "test", "access")
  /\ producersMet' = (producersMet \/ PastTest(Producer))
  /\ UNCHANGED <<old_counter, loaded, consumersMet>>

(* count++ makes an item; it is dropped when the buffer is full.           *)
TestRoom(p) ==
  /\ old_counter < BUFFER_SIZE
  /\ OldGoto(p, "test", "access")
  /\ producersMet' = (producersMet \/ PastTest(Producer))
  /\ UNCHANGED <<old_counter, loaded, consumersMet>>

TestItem(c) ==
  /\ old_counter > 0
  /\ OldGoto(c, "test", "access")
  /\ consumersMet' = (consumersMet \/ PastTest(Consumer))
  /\ UNCHANGED <<old_counter, loaded, producersMet>>

(* Where the statement after an access of this slot is.                    *)
AfterAccess(slot) == IF slot < 0 THEN "below"
                     ELSE IF slot >= BUFFER_SIZE THEN "above" ELSE "load"

(* buffer[counter] = item                                                  *)
OldInsert(p) ==
  /\ OldGoto(p, "access", AfterAccess(old_counter))
  /\ UNCHANGED <<old_counter, loaded, producersMet, consumersMet>>

(* *item = buffer[counter - 1]                                             *)
OldRemove(c) ==
  /\ OldGoto(c, "access", AfterAccess(old_counter - 1))
  /\ UNCHANGED <<old_counter, loaded, producersMet, consumersMet>>

Load(t) ==
  /\ OldGoto(t, "load", "store")
  /\ loaded' = [loaded EXCEPT ![t] = old_counter]
  /\ UNCHANGED <<old_counter, producersMet, consumersMet>>

(* The end of counter++ or counter--; the register is free again.          *)
Store(t, value) ==
  /\ OldGoto(t, "store", "test")
  /\ old_counter' = value
  /\ loaded' = [loaded EXCEPT ![t] = 0]
  /\ UNCHANGED <<producersMet, consumersMet>>

StoreMore(p) == Store(p, loaded[p] + 1)

(* Mutant: remove_item leaves counter as it is.                            *)
StoreSame(c) == Store(c, loaded[c])

StoreLess(c) == Store(c, loaded[c] - 1)

old_producer(p) == TestRoom(p) \/ OldInsert(p) \/ Load(p) \/ StoreMore(p)
old_consumer(c) == TestItem(c) \/ OldRemove(c) \/ Load(c) \/ StoreLess(c)

Outside == \E t \in Thread : old_pc[t] \in {"below", "above"}

(* Lost updates can carry counter as far as the int goes.                  *)
Drifted == old_counter \notin -MaxDrift .. BUFFER_SIZE + MaxDrift

Ended == Outside \/ Drifted

OldNext ==
  /\ ~Ended
  /\ (\E p \in Producer : old_producer(p)) \/ (\E c \in Consumer : old_consumer(c))

OldSpec == OldInit /\ [][OldNext]_old_vars

(* Every thread comes back from its sleep.                                 *)
OldFairness == /\ \A p \in Producer : WF_old_vars(~Ended /\ old_producer(p))
               /\ \A c \in Consumer : WF_old_vars(~Ended /\ old_consumer(c))

OldFairSpec == OldSpec /\ OldFairness
-----------------------------------------------------------------------------
OldTypeOK ==
  /\ old_counter \in Int
  /\ old_pc \in [Thread -> {"test", "access", "load", "store", "below", "above"}]
  /\ loaded \in [Thread -> Int]
  /\ producersMet \in BOOLEAN
  /\ consumersMet \in BOOLEAN

(* main_old.c:107 and 124: an item is added when the buffer is not full,   *)
(* and removed when it is not empty; so every access is to a slot of the   *)
(* array.  There is one way past its end, and one before its start: two    *)
(* producers, or two consumers, between test and update at the same time.  *)
(* However many there are, a producer and any number of consumers never    *)
(* bring counter above the size together, however stale their values are,  *)
(* nor a consumer and any number of producers bring it below 0.            *)
InBounds ==
  /\ ~producersMet => /\ old_counter <= BUFFER_SIZE
                      /\ \A t \in Thread : old_pc[t] # "above"
  /\ ~consumersMet => /\ old_counter >= 0
                      /\ \A t \in Thread : old_pc[t] # "below"

(* As long as the array is not left (nor the model's bound), lost updates  *)
(* and retries never stop one side: some producer and some consumer go on  *)
(* for ever, though one of them may find the buffer full (empty) always.   *)
BothGoOn == \/ <>Ended
            \/ /\ []<>(\E p \in Producer : old_pc[p] = "store")
               /\ []<>(\E c \in Consumer : old_pc[c] = "store")
=============================================================================
