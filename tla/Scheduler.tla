------------------------------ MODULE Scheduler ------------------------------
(***************************************************************************)
(* lab4/main.c: the scheduler simulator.  Each cycle of main wakes tasks   *)
(* up, selects one and dispatches it for one quantum.  The linked queues   *)
(* are sequences; a task keeps the address of the node that holds it,      *)
(* since the dispatcher compares addresses and every move of a task to     *)
(* another queue frees one node and allocates another.                     *)
(***************************************************************************)
EXTENDS Integers, FiniteSets, FiniteSetsExt, Sequences, SequencesExt

CONSTANTS NumTasks,    \* tasks in taskset.txt
          Policies,    \* values of sched_type
          Periods, ReleaseTimes, Priorities, Quanta,  \* values in taskset.txt
          MaxCycles    \* bound: cycles of main that are simulated

ASSUME SchedulerAssumption ==
  /\ NumTasks \in Nat /\ MaxCycles \in Nat
  /\ Policies \subseteq {"RR", "SJF", "MQ"}
  /\ Periods \subseteq Nat /\ ReleaseTimes \subseteq Nat
  /\ Priorities \subseteq Nat /\ Quanta \subseteq Int

Task == 1 .. NumTasks

(* free keeps nodes for the next malloc: one more than the tasks is enough.*)
Addr == 1 .. NumTasks + 1
idle_task == 0
NoAddr == -1

VARIABLES
  sched_type,
  ready_queue, waiting_queue,  \* sequences of tasks
  OS_cycles,
  pc,          \* the call of main that is next
  cursor,      \* temp of OS_wakeup_n: a place in waiting_queue, or behind it
  exec,        \* address that scheduler_n returned
  exec_task,   \* address of the task dispatched last
  context_switches,
  turns        \* history: dispatches since a ready task became ready or was dispatched

queues == <<ready_queue, waiting_queue>>
vars == <<sched_type, queues, OS_cycles, pc, cursor, exec, exec_task, context_switches, turns>>

(* readTaskset_n: all tasks wait, in the order of the file.                *)
Init ==
  /\ sched_type \in Policies
  /\ ready_queue = << >>
  /\ \E per \in [Task -> Periods], rel \in [Task -> ReleaseTimes],
        pri \in [Task -> Priorities], qua \in [Task -> Quanta] :
       waiting_queue = [i \in Task |->
         [ID |-> i, period |-> per[i], release_time |-> rel[i], priority |-> pri[i],
          quantum |-> qua[i], addr |-> i]]
  /\ OS_cycles = 0
  /\ pc = "wakeup" /\ cursor = 1
  /\ exec = NoAddr /\ exec_task = NoAddr
  /\ context_switches = 0
  /\ turns = [t \in Task |-> 0]

AddrsOf(q) == {q[i].addr : i \in DOMAIN q}
IDsOf(q) == {q[i].ID : i \in DOMAIN q}

(* push: append a copy of a task in a node that malloc returns; if malloc  *)
(* fails the simulation ends, which is not modelled.                       *)
push(q, task, a) == Append(q, [task EXCEPT !.addr = a])

(* Mutant: the first node stays where it is.                               *)
stays_first(q) == q

first_to_last(q) == IF q = << >> THEN q ELSE Append(Tail(q), Head(q))

(* pop of the last node, in front of the others.                           *)
last_to_first(q) == IF q = << >> THEN q ELSE <<Last(q)>> \o Front(q)

(* Mutant: the node is copied and not removed.                             *)
remove_none(q, i) == q

remove_node(q, i) == RemoveAt(q, i)

(* Addresses that malloc can return while q1 and q2 hold the tasks.        *)
malloc(q1, q2) == Addr \ (AddrsOf(q1) \cup AddrsOf(q2))

-----------------------------------------------------------------------------
(* OS_wakeup_n walks along the waiting queue.                              *)
Due == {i \in DOMAIN waiting_queue : OS_cycles >= waiting_queue[i].release_time}

(* The task at the cursor becomes ready and its node is freed.             *)
MoveDue ==
  /\ pc = "wakeup" /\ cursor \in Due
  /\ \E a \in malloc(ready_queue, waiting_queue) :
       ready_queue' = push(ready_queue, waiting_queue[cursor], a)
  /\ waiting_queue' = remove_node(waiting_queue, cursor)
  /\ turns' = [turns EXCEPT ![waiting_queue[cursor].ID] = 0]
  /\ UNCHANGED <<sched_type, OS_cycles, pc, exec, exec_task, context_switches>>

(* Mutant: from the new head the walk steps on, as if that had been seen.  *)
WakeAndStepOn == MoveDue /\ cursor' = 2

(* A task whose time has come is moved, and the walk starts over.          *)
WakeOne == MoveDue /\ cursor' = 1

WakeNext ==
  /\ pc = "wakeup" /\ cursor \in DOMAIN waiting_queue \ Due
  /\ cursor' = cursor + 1
  /\ UNCHANGED <<sched_type, queues, OS_cycles, pc, exec, exec_task, context_switches, turns>>

WakeDone ==
  /\ pc = "wakeup" /\ cursor \notin DOMAIN waiting_queue
  /\ pc' = "schedule" /\ cursor' = 1
  /\ UNCHANGED <<sched_type, queues, OS_cycles, exec, exec_task, context_switches, turns>>

-----------------------------------------------------------------------------
(* scheduler_n                                                             *)

(* Mutant: the comparison is the wrong way round.                          *)
LongerThanPrevious ==
  {i \in 2 .. Len(ready_queue) : ready_queue[i].quantum > ready_queue[i - 1].quantum}

(* SJF moves the last task that is shorter than the one before it.         *)
ShorterThanPrevious ==
  {i \in 2 .. Len(ready_queue) : ready_queue[i].quantum < ready_queue[i - 1].quantum}

toMove == IF ShorterThanPrevious = {} THEN 1 ELSE Max(ShorterThanPrevious)

(* Priorities 1, 2 and 4 start the quanta of three levels, 7 the last one. *)
middleOfQueue(task) == task.priority \notin {1, 2, 4, 7}

MidLevel == {i \in DOMAIN ready_queue : middleOfQueue(ready_queue[i])}

(* Mutant: nodeCompare without its first two tests.                        *)
taskOfSmallestPriority ==
  Min({i \in DOMAIN ready_queue :
         \A j \in DOMAIN ready_queue : ready_queue[i].priority <= ready_queue[j].priority})

(* nodeCompare folded over the queue: the first task in the middle of its  *)
(* level, or else the first of the smallest priority.                      *)
taskToRun ==
  IF MidLevel # {} THEN Min(MidLevel)
  ELSE Min({i \in DOMAIN ready_queue :
              \A j \in DOMAIN ready_queue : ready_queue[i].priority <= ready_queue[j].priority})

(* The task to run sinks by one priority with each quantum.                *)
sunk(task) == [task EXCEPT !.priority = @ + 1]

(* remove_node, push and last_to_first: task comes to the front, and the   *)
(* front of the queue is returned.                                         *)
MoveToFront(i, task) ==
  LET rest == remove_node(ready_queue, i) IN
  /\ \E a \in malloc(rest, waiting_queue) : ready_queue' = last_to_first(push(rest, task, a))
  /\ exec' = Head(ready_queue').addr

Schedule ==
  /\ pc = "schedule"
  /\ pc' = "dispatch"
  /\ \/ ready_queue = << >> /\ exec' = idle_task /\ UNCHANGED ready_queue
     \/ /\ ready_queue # << >> /\ sched_type = "RR"
        /\ exec' = Head(ready_queue).addr /\ UNCHANGED ready_queue
     \/ /\ ready_queue # << >> /\ sched_type = "SJF"
        /\ MoveToFront(toMove, ready_queue[toMove])
     \/ /\ ready_queue # << >> /\ sched_type = "MQ"
        /\ MoveToFront(taskToRun, sunk(ready_queue[taskToRun]))
  /\ UNCHANGED <<sched_type, waiting_queue, OS_cycles, cursor, exec_task, context_switches, turns>>

-----------------------------------------------------------------------------
(* dispatch_n and OS_cycles++.  The task that is finished is taken from    *)
(* the head of ready_queue, not from exec.                                 *)
Dispatch ==
  /\ pc = "dispatch" /\ OS_cycles < MaxCycles
  /\ pc' = "wakeup"
  /\ OS_cycles' = OS_cycles + 1
  /\ context_switches' = IF exec # exec_task THEN context_switches + 1 ELSE context_switches
  /\ exec_task' = exec
  /\ \/ /\ exec = idle_task
        /\ ready_queue' = first_to_last(ready_queue)
        /\ UNCHANGED <<waiting_queue, turns>>
     \/ \E i \in DOMAIN ready_queue :
          LET task == [ready_queue[i] EXCEPT !.quantum = @ - 1]
              q == [ready_queue EXCEPT ![i] = task]
              next == [Head(q) EXCEPT !.release_time = @ + Head(q).period]
          IN /\ task.addr = exec
             /\ turns' = [t \in Task |-> IF t = task.ID THEN 0
                                         ELSE IF t \in IDsOf(q) THEN turns[t] + 1 ELSE turns[t]]
             /\ \/ /\ task.quantum > 0
                   /\ ready_queue' = first_to_last(q)
                   /\ UNCHANGED waiting_queue
                \/ /\ task.quantum <= 0
                   /\ \E a \in malloc(q, waiting_queue) :
                        waiting_queue' = push(waiting_queue, next, a)
                   /\ ready_queue' = first_to_last(Tail(q))
  /\ UNCHANGED <<sched_type, cursor, exec>>

(* The end of the simulated time.                                          *)
Horizon == pc = "dispatch" /\ OS_cycles = MaxCycles /\ UNCHANGED vars

Next == WakeOne \/ WakeNext \/ WakeDone \/ Schedule \/ Dispatch \/ Horizon

Spec == Init /\ [][Next]_vars
-----------------------------------------------------------------------------
IsTask(t) ==
  /\ t.ID \in Task /\ t.addr \in Addr
  /\ t.period \in Periods /\ t.release_time \in Nat
  /\ t.priority \in Nat /\ t.quantum \in Int

(* Queues hold tasks; main goes round its three calls.                     *)
TypeOK ==
  /\ sched_type \in {"RR", "SJF", "MQ"}
  /\ \A i \in DOMAIN ready_queue : IsTask(ready_queue[i])
  /\ \A i \in DOMAIN waiting_queue : IsTask(waiting_queue[i])
  /\ OS_cycles \in 0 .. MaxCycles
  /\ pc \in {"wakeup", "schedule", "dispatch"}
  /\ cursor \in 1 .. NumTasks + 1
  /\ exec \in Addr \cup {idle_task, NoAddr} /\ exec_task \in Addr \cup {idle_task, NoAddr}
  /\ context_switches \in 0 .. OS_cycles
  /\ turns \in [Task -> Nat]

(* Wakeup, selection and dispatch move tasks between the queues and within *)
(* them, by copying and freeing nodes, and lose or double none.            *)
EachTaskOnce ==
  /\ TypeOK
  /\ Len(ready_queue) + Len(waiting_queue) = NumTasks
  /\ IDsOf(ready_queue) \cup IDsOf(waiting_queue) = Task
  /\ Cardinality(AddrsOf(ready_queue) \cup AddrsOf(waiting_queue)) = NumTasks

(* A task whose time has come is ready when scheduler_n chooses: the walk, *)
(* which removes nodes from the queue it goes along, passes no task by.    *)
NoneOversleeps == pc # "wakeup" => Due = {}

(* SJF compares neighbours only, so the task it runs need not be the       *)
(* shortest; but it is never the one task that is longer than all others,  *)
(* and of two ready tasks it is the shorter.                               *)
LongestWaits ==
  pc = "dispatch" /\ sched_type = "SJF" /\ Len(ready_queue) > 1 =>
    \E i \in 2 .. Len(ready_queue) : ready_queue[i].quantum >= Head(ready_queue).quantum

(* No task has finished: the quanta of a task are not set again when it is *)
(* released again.                                                         *)
NoneFinished ==
  /\ \A i \in DOMAIN ready_queue : ready_queue[i].quantum > 0
  /\ \A i \in DOMAIN waiting_queue : waiting_queue[i].quantum > 0

(* The multilevel queue does not preempt a task within the quanta of its   *)
(* level, so two tasks are never both part way through a level; until some *)
(* task finishes part way and comes back with the priority it had.         *)
OneMidLevel == sched_type = "MQ" /\ NoneFinished => Cardinality(MidLevel) <= 1

(* RR gives every ready task its turn before any has a second one, while   *)
(* tasks wake up at the end of the queue; until a task finishes, and the   *)
(* one behind it is moved to the end without having run.                   *)
RoundRobin ==
  sched_type = "RR" /\ NoneFinished =>
    \A i \in DOMAIN ready_queue : turns[ready_queue[i].ID] < NumTasks
=============================================================================
