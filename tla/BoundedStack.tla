---------------------------- MODULE BoundedStack ----------------------------
(***************************************************************************)
(* What the producer/consumer program of lab2 promises its threads: one    *)
(* bounded last-in-first-out buffer.  An item is put on top when there is  *)
(* room, and a consumer that takes the top item is the only one to get it. *)
(***************************************************************************)
EXTENDS Naturals, Sequences

CONSTANTS Item,       \* the items that can be buffered
          Consumer,   \* the threads that take items
          Capacity,   \* how many items fit
          Nothing     \* an empty hand

VARIABLES stack,      \* the buffered items, the top one last
          hand        \* hand[c]: the item consumer c has taken and still handles

stackVars == <<stack, hand>>

Init ==
  /\ stack = << >>
  /\ hand = [c \in Consumer |-> Nothing]

(* Some producer puts an item on top of a stack that is not full.          *)
Put ==
  /\ Len(stack) < Capacity
  /\ \E i \in Item : stack' = Append(stack, i)
  /\ UNCHANGED hand

(* Consumer c takes the top item.                                          *)
Take(c) ==
  /\ stack # << >>
  /\ hand[c] = Nothing
  /\ hand' = [hand EXCEPT ![c] = stack[Len(stack)]]
  /\ stack' = SubSeq(stack, 1, Len(stack) - 1)

(* Consumer c is done with the item it took.                               *)
Consume(c) ==
  /\ hand[c] # Nothing
  /\ hand' = [hand EXCEPT ![c] = Nothing]
  /\ UNCHANGED stack

Next == Put \/ \E c \in Consumer : Take(c) \/ Consume(c)

Spec == Init /\ [][Next]_stackVars
=============================================================================
