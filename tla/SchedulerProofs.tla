--------------------------- MODULE SchedulerProofs ---------------------------
(***************************************************************************)
(* Proofs about lab4/main.c for every number of tasks and every task set.  *)
(* What a queue holds is said by position, so that each operation on a     *)
(* queue has one lemma about positions and one about the tasks and nodes   *)
(* in it.  EachTaskOnce counts nodes and is not inductive: the invariant   *)
(* says instead that the two queues are tidy, that no task and no node is  *)
(* in them twice, and the counts follow.                                   *)
(***************************************************************************)
EXTENDS Scheduler, FiniteSetTheorems, SequenceTheorems, WellFoundedInduction,
        NaturalsInduction, TLAPS

(* The records that the queues hold.                                       *)
TaskRec == [ID : Task, period : Periods, release_time : Nat, priority : Nat,
            quantum : Int, addr : Addr]

(* No task and no node is twice in a queue.                                *)
Distinct(q) ==
  \A i, j \in DOMAIN q : i # j => q[i].ID # q[j].ID /\ q[i].addr # q[j].addr

(* No task and no node is in both queues.                                  *)
Apart(q1, q2) ==
  \A i \in DOMAIN q1, j \in DOMAIN q2 :
    q1[i].ID # q2[j].ID /\ q1[i].addr # q2[j].addr

Tidy(q1, q2) ==
  /\ q1 \in Seq(TaskRec) /\ q2 \in Seq(TaskRec)
  /\ Distinct(q1) /\ Distinct(q2) /\ Apart(q1, q2)

(* Task t is in neither queue.                                             *)
Absent(t, q1, q2) == t \notin IDsOf(q1) \cup IDsOf(q2)

-----------------------------------------------------------------------------
(* A set of natural numbers that is not empty has a least element: a       *)
(* minimal one for the well-founded order of the natural numbers.          *)
LEMMA LeastNat ==
  ASSUME NEW S \in SUBSET Nat, S # {}
  PROVE  \E x \in S : \A y \in S : x <= y
<1> DEFINE R == OpToRel(<, Nat)
<1>1. IsWellFoundedOn(R, Nat)
  BY NatLessThanWellFounded
<1>2. \E x \in S : \A y \in S : ~(<<y, x>> \in R)
  BY <1>1, WFMin
<1>3. \A x, y \in Nat : x < y => <<x, y>> \in R
  BY DEF OpToRel
<1> HIDE DEF R
<1>4. \A x, y \in Nat : ~(x <= y) => y < x
  OBVIOUS
<1> QED
  BY <1>2, <1>3, <1>4

(* Min chooses the least element.                                          *)
LEMMA MinLeast ==
  ASSUME NEW S \in SUBSET Nat, S # {}
  PROVE  Min(S) \in S /\ \A y \in S : Min(S) <= y
BY LeastNat DEF Min

(* Max chooses the greatest element of a set that has a bound.             *)
LEMMA MaxGreatest ==
  ASSUME NEW S \in SUBSET Nat, S # {}, NEW n \in Nat, \A x \in S : x <= n
  PROVE  Max(S) \in S /\ \A y \in S : Max(S) >= y
<1> DEFINE T == {k \in Nat : \A x \in S : x <= k}
<1>1. PICK m \in T : \A k \in T : m <= k
  BY LeastNat
<1>2. m \in S
  <2>1. SUFFICES ASSUME m \notin S PROVE FALSE
    OBVIOUS
  <2>2. \A x \in S : x <= m - 1
    BY <2>1, <1>1
  <2>3. PICK x \in S : TRUE
    OBVIOUS
  <2> QED
    BY <2>2, <2>3, <1>1
<1> QED
  BY <1>1, <1>2 DEF Max

-----------------------------------------------------------------------------
(* What the queue operations do, element by element: push adds at the end. *)
LEMMA PushElements ==
  ASSUME NEW q \in Seq(TaskRec), NEW task \in TaskRec, NEW a \in Addr
  PROVE  /\ push(q, task, a) \in Seq(TaskRec)
         /\ Len(push(q, task, a)) = Len(q) + 1
         /\ \A k \in 1 .. Len(q) : push(q, task, a)[k] = q[k]
         /\ push(q, task, a)[Len(q) + 1] = [task EXCEPT !.addr = a]
<1>1. [task EXCEPT !.addr = a] \in TaskRec
  BY DEF TaskRec
<1> QED
  BY <1>1, AppendProperties DEF push

(* remove_node closes the gap.                                             *)
LEMMA RemoveElements ==
  ASSUME NEW S, NEW q \in Seq(S), NEW i \in DOMAIN q
  PROVE  /\ remove_node(q, i) \in Seq(S)
         /\ Len(remove_node(q, i)) = Len(q) - 1
         /\ \A k \in 1 .. Len(q) - 1 :
              remove_node(q, i)[k] = IF k < i THEN q[k] ELSE q[k + 1]
<1> DEFINE s1 == SubSeq(q, 1, i - 1)
           s2 == SubSeq(q, i + 1, Len(q))
<1>0. /\ Len(q) \in Nat /\ i \in 1 .. Len(q) /\ DOMAIN q = 1 .. Len(q)
      /\ \A k \in 1 .. Len(q) : q[k] \in S
  BY LenProperties
<1>1. /\ s1 \in Seq(S) /\ Len(s1) = i - 1
      /\ \A k \in 1 .. i - 1 : s1[k] = q[k]
  BY <1>0, SubSeqProperties
<1>2. /\ s2 \in Seq(S) /\ Len(s2) = Len(q) - i
      /\ \A k \in 1 .. Len(q) - i : s2[k] = q[i + k]
  BY <1>0, SubSeqProperties
<1> HIDE DEF s1, s2
<1>3. /\ s1 \o s2 \in Seq(S) /\ Len(s1 \o s2) = Len(q) - 1
      /\ \A k \in 1 .. Len(q) - 1 :
           (s1 \o s2)[k] = IF k <= i - 1 THEN s1[k] ELSE s2[k - (i - 1)]
  <2>1. /\ s1 \o s2 \in Seq(S) /\ Len(s1 \o s2) = Len(s1) + Len(s2)
        /\ \A k \in 1 .. Len(s1) + Len(s2) :
             (s1 \o s2)[k] = IF k <= Len(s1) THEN s1[k] ELSE s2[k - Len(s1)]
    BY <1>1, <1>2, ConcatProperties
  <2>2. Len(s1) + Len(s2) = Len(q) - 1
    BY <1>0, <1>1, <1>2
  <2> QED
    BY <1>1, <2>1, <2>2
<1>4. \A k \in 1 .. Len(q) - 1 : (s1 \o s2)[k] = IF k < i THEN q[k] ELSE q[k + 1]
  <2> TAKE k \in 1 .. Len(q) - 1
  <2>1. CASE k < i
    BY <2>1, <1>0, <1>1, <1>3
  <2>2. CASE ~(k < i)
    <3>1. k - (i - 1) \in 1 .. Len(q) - i /\ i + (k - (i - 1)) = k + 1
      BY <2>2, <1>0
    <3>2. (s1 \o s2)[k] = s2[k - (i - 1)]
      BY <2>2, <1>0, <1>3
    <3>3. s2[k - (i - 1)] = q[i + (k - (i - 1))]
      BY <3>1, <1>2
    <3> QED
      BY <3>1, <3>2, <3>3, <2>2
  <2> QED
    BY <2>1, <2>2
<1> QED
  BY <1>3, <1>4 DEF remove_node, RemoveAt, s1, s2

(* first_to_last moves every node but the first one place forward.         *)
LEMMA RotateElements ==
  ASSUME NEW S, NEW q \in Seq(S)
  PROVE  /\ first_to_last(q) \in Seq(S)
         /\ Len(first_to_last(q)) = Len(q)
         /\ \A k \in 1 .. Len(q) :
              first_to_last(q)[k] = IF k < Len(q) THEN q[k + 1] ELSE q[1]
<1>1. CASE q = << >>
  BY <1>1 DEF first_to_last
<1>2. CASE q # << >>
  <2>1. /\ Tail(q) \in Seq(S) /\ Len(Tail(q)) = Len(q) - 1 /\ Len(q) \in Nat \ {0}
        /\ \A k \in 1 .. Len(q) - 1 : Tail(q)[k] = q[k + 1]
        /\ Head(q) = q[1] /\ Head(q) \in S
    BY <1>2, HeadTailProperties, LenProperties, EmptySeq
  <2> DEFINE r == Append(Tail(q), q[1])
  <2>2. first_to_last(q) = r
    BY <1>2, <2>1 DEF first_to_last
  <2>3. /\ r \in Seq(S) /\ Len(r) = Len(Tail(q)) + 1
        /\ \A k \in 1 .. Len(Tail(q)) : r[k] = Tail(q)[k]
        /\ r[Len(Tail(q)) + 1] = q[1]
    BY <2>1, AppendProperties
  <2> HIDE DEF r
  <2>4. Len(r) = Len(q) /\ r[Len(q)] = q[1]
    BY <2>1, <2>3
  <2>5. \A k \in 1 .. Len(q) : k < Len(q) => r[k] = q[k + 1]
    BY <2>1, <2>3
  <2>6. \A k \in 1 .. Len(q) : ~(k < Len(q)) => k = Len(q)
    <3>1. Len(q) \in Nat
      BY LenProperties
    <3> QED
      BY <3>1
  <2> QED
    BY <2>2, <2>3, <2>4, <2>5, <2>6
<1> QED
  BY <1>1, <1>2

(* last_to_first moves every node but the last one place back.             *)
LEMMA RotateBackElements ==
  ASSUME NEW S, NEW q \in Seq(S)
  PROVE  /\ last_to_first(q) \in Seq(S)
         /\ Len(last_to_first(q)) = Len(q)
         /\ \A k \in 1 .. Len(q) :
              last_to_first(q)[k] = IF k = 1 THEN q[Len(q)] ELSE q[k - 1]
<1>1. CASE q = << >>
  BY <1>1 DEF last_to_first
<1>2. CASE q # << >>
  <2>0. /\ Len(q) \in Nat \ {0}
        /\ \A k \in 1 .. Len(q) : q[k] \in S
    BY <1>2, LenProperties, EmptySeq
  <2>1. /\ Front(q) \in Seq(S) /\ Len(Front(q)) = Len(q) - 1
        /\ \A k \in 1 .. Len(q) - 1 : Front(q)[k] = q[k]
    <3>1. PICK n \in Nat : n = Len(q) - 1
      BY <2>0
    <3>2. \A k \in 1 .. n : q[k] \in S
      BY <2>0, <3>1
    <3>3. /\ SubSeq(q, 1, n) \in Seq(S) /\ Len(SubSeq(q, 1, n)) = n
          /\ \A k \in 1 .. n : SubSeq(q, 1, n)[k] = q[k]
      BY <3>2, SubSeqProperties
    <3> QED
      BY <3>1, <3>3 DEF Front
  <2>2. <<Last(q)>> \in Seq(S) /\ Len(<<Last(q)>>) = 1 /\ <<Last(q)>>[1] = q[Len(q)]
    BY <2>0 DEF Last
  <2>3. last_to_first(q) = <<Last(q)>> \o Front(q)
    BY <1>2 DEF last_to_first
  <2> QED
    BY <2>0, <2>1, <2>2, <2>3, ConcatProperties
<1> QED
  BY <1>1, <1>2
-----------------------------------------------------------------------------
(* The operations keep the queues tidy, whichever queue is named first.    *)
LEMMA TidySwap ==
  ASSUME NEW q1, NEW q2, Tidy(q1, q2)
  PROVE  Tidy(q2, q1)
BY DEF Tidy, Apart

(* A task that is in neither queue is pushed in a node that neither uses.  *)
LEMMA PushTidy ==
  ASSUME NEW q1, NEW q2, Tidy(q1, q2), NEW task \in TaskRec, Absent(task.ID, q1, q2),
         NEW a \in malloc(q1, q2)
  PROVE  Tidy(push(q1, task, a), q2)
<1> DEFINE q == push(q1, task, a)
           new == [task EXCEPT !.addr = a]
<1>0. q1 \in Seq(TaskRec) /\ q2 \in Seq(TaskRec) /\ a \in Addr
  BY DEF Tidy, malloc
<1>1. /\ q \in Seq(TaskRec) /\ Len(q) = Len(q1) + 1 /\ Len(q1) \in Nat
      /\ \A k \in 1 .. Len(q1) : q[k] = q1[k]
      /\ q[Len(q1) + 1] = new
  BY <1>0, PushElements, LenProperties
<1>2. new.ID = task.ID /\ new.addr = a
  BY DEF TaskRec
<1>3. DOMAIN q1 = 1 .. Len(q1) /\ DOMAIN q = 1 .. Len(q1) + 1
  BY <1>0, <1>1, LenProperties
<1>4. /\ \A k \in DOMAIN q1 : q1[k].ID # task.ID /\ q1[k].addr # a
      /\ \A k \in DOMAIN q2 : q2[k].ID # task.ID /\ q2[k].addr # a
  BY DEF Absent, IDsOf, malloc, AddrsOf
<1> HIDE DEF q, new
<1>5. \A k \in DOMAIN q :
        (k \in DOMAIN q1 /\ q[k] = q1[k]) \/ (k = Len(q1) + 1 /\ q[k] = new)
  BY <1>1, <1>3
<1>6. Len(q1) + 1 \notin DOMAIN q1
  BY <1>1, <1>3
<1>7. Distinct(q)
  BY <1>2, <1>4, <1>5 DEF Distinct, Tidy
<1>8. Apart(q, q2)
  BY <1>2, <1>4, <1>5 DEF Apart, Tidy
<1> QED
  BY <1>0, <1>1, <1>7, <1>8 DEF Tidy, q

(* The task that is removed is in neither queue then.                      *)
LEMMA RemoveTidy ==
  ASSUME NEW q1, NEW q2, Tidy(q1, q2), NEW i \in DOMAIN q1
  PROVE  /\ Tidy(remove_node(q1, i), q2)
         /\ Absent(q1[i].ID, remove_node(q1, i), q2)
<1> DEFINE q == remove_node(q1, i)
           from(k) == IF k < i THEN k ELSE k + 1
<1>0. q1 \in Seq(TaskRec) /\ q2 \in Seq(TaskRec)
  BY DEF Tidy
<1>1. /\ q \in Seq(TaskRec) /\ Len(q) = Len(q1) - 1
      /\ \A k \in 1 .. Len(q1) - 1 : q[k] = IF k < i THEN q1[k] ELSE q1[k + 1]
  BY <1>0, RemoveElements
<1>2. DOMAIN q1 = 1 .. Len(q1) /\ DOMAIN q = 1 .. Len(q1) - 1 /\ Len(q1) \in Nat
  BY <1>0, <1>1, LenProperties
<1> HIDE DEF q
<1>3. \A k \in DOMAIN q : from(k) \in DOMAIN q1 /\ from(k) # i /\ q[k] = q1[from(k)]
  BY <1>1, <1>2
<1>4. \A k, m \in DOMAIN q : k # m => from(k) # from(m)
  BY <1>2
<1> HIDE DEF from
<1>5. Distinct(q)
  BY <1>3, <1>4 DEF Distinct, Tidy
<1>6. Apart(q, q2)
  BY <1>3 DEF Apart, Tidy
<1>7. Absent(q1[i].ID, q, q2)
  BY <1>3 DEF Absent, IDsOf, Tidy, Apart, Distinct
<1> QED
  BY <1>0, <1>1, <1>5, <1>6, <1>7 DEF Tidy, q

(* first_to_last keeps the queues tidy.                                    *)
LEMMA RotateTidy ==
  ASSUME NEW q1, NEW q2, Tidy(q1, q2)
  PROVE  Tidy(first_to_last(q1), q2)
<1> DEFINE q == first_to_last(q1)
           from(k) == IF k < Len(q1) THEN k + 1 ELSE 1
<1>0. q1 \in Seq(TaskRec) /\ q2 \in Seq(TaskRec)
  BY DEF Tidy
<1>1. /\ q \in Seq(TaskRec) /\ Len(q) = Len(q1)
      /\ \A k \in 1 .. Len(q1) : q[k] = IF k < Len(q1) THEN q1[k + 1] ELSE q1[1]
  BY <1>0, RotateElements
<1>2. DOMAIN q1 = 1 .. Len(q1) /\ DOMAIN q = 1 .. Len(q1) /\ Len(q1) \in Nat
  BY <1>0, <1>1, LenProperties
<1> HIDE DEF q
<1>3. \A k \in DOMAIN q : from(k) \in DOMAIN q1 /\ q[k] = q1[from(k)]
  BY <1>1, <1>2
<1>4. \A k, m \in DOMAIN q : k # m => from(k) # from(m)
  BY <1>2
<1> HIDE DEF from
<1> QED
  BY <1>0, <1>1, <1>3, <1>4 DEF Tidy, Distinct, Apart, q

(* So does last_to_first.                                                  *)
LEMMA RotateBackTidy ==
  ASSUME NEW q1, NEW q2, Tidy(q1, q2)
  PROVE  Tidy(last_to_first(q1), q2)
<1> DEFINE q == last_to_first(q1)
           from(k) == IF k = 1 THEN Len(q1) ELSE k - 1
<1>0. q1 \in Seq(TaskRec) /\ q2 \in Seq(TaskRec)
  BY DEF Tidy
<1>1. /\ q \in Seq(TaskRec) /\ Len(q) = Len(q1)
      /\ \A k \in 1 .. Len(q1) : q[k] = IF k = 1 THEN q1[Len(q1)] ELSE q1[k - 1]
  BY <1>0, RotateBackElements
<1>2. DOMAIN q1 = 1 .. Len(q1) /\ DOMAIN q = 1 .. Len(q1) /\ Len(q1) \in Nat
  BY <1>0, <1>1, LenProperties
<1> HIDE DEF q
<1>3. \A k \in DOMAIN q : from(k) \in DOMAIN q1 /\ q[k] = q1[from(k)]
  BY <1>1, <1>2
<1>4. \A k, m \in DOMAIN q : k # m => from(k) # from(m)
  BY <1>2
<1> HIDE DEF from
<1> QED
  BY <1>0, <1>1, <1>3, <1>4 DEF Tidy, Distinct, Apart, q

(* A task may change in its node.                                          *)
LEMMA AgeTidy ==
  ASSUME NEW q1, NEW q2, Tidy(q1, q2), NEW i \in DOMAIN q1,
         NEW task \in TaskRec, task.ID = q1[i].ID, task.addr = q1[i].addr
  PROVE  /\ Tidy([q1 EXCEPT ![i] = task], q2)
         /\ Len([q1 EXCEPT ![i] = task]) = Len(q1)
<1> DEFINE q == [q1 EXCEPT ![i] = task]
<1>0. q1 \in Seq(TaskRec) /\ q2 \in Seq(TaskRec)
  BY DEF Tidy
<1>1. DOMAIN q1 = 1 .. Len(q1)
  BY <1>0, LenProperties
<1>2. q \in Seq(TaskRec) /\ Len(q) = Len(q1)
  BY <1>0, <1>1, ExceptSeq
<1>3. DOMAIN q = DOMAIN q1
  OBVIOUS
<1>4. \A k \in DOMAIN q1 : q[k].ID = q1[k].ID /\ q[k].addr = q1[k].addr
  OBVIOUS
<1> HIDE DEF q
<1>5. Distinct(q) /\ Apart(q, q2)
  BY <1>3, <1>4 DEF Distinct, Apart, Tidy
<1> QED
  BY <1>0, <1>2, <1>5 DEF Tidy, q

(* The first task is in neither queue after pop.                           *)
LEMMA TailTidy ==
  ASSUME NEW q1, NEW q2, Tidy(q1, q2), q1 # << >>
  PROVE  /\ Tidy(Tail(q1), q2) /\ Len(Tail(q1)) = Len(q1) - 1
         /\ Absent(Head(q1).ID, Tail(q1), q2)
<1>0. q1 \in Seq(TaskRec)
  BY DEF Tidy
<1>1. Len(q1) \in Nat \ {0} /\ DOMAIN q1 = 1 .. Len(q1)
  BY <1>0, LenProperties, EmptySeq
<1>2. /\ Tail(q1) \in Seq(TaskRec) /\ Len(Tail(q1)) = Len(q1) - 1 /\ Head(q1) = q1[1]
      /\ \A k \in 1 .. Len(q1) - 1 : Tail(q1)[k] = q1[k + 1]
  BY <1>0, HeadTailProperties
<1>3. DOMAIN Tail(q1) = 1 .. Len(q1) - 1
  BY <1>2, LenProperties
<1> DEFINE q == Tail(q1)
<1>4. q \in Seq(TaskRec) /\ \A k \in DOMAIN q : q[k] = q1[k + 1]
  BY <1>2, <1>3
<1>5. \A k \in DOMAIN q : k + 1 \in DOMAIN q1 /\ k + 1 # 1
  BY <1>1, <1>3
<1>6. \A k, m \in DOMAIN q : k # m => k + 1 # m + 1
  BY <1>3
<1>7. 1 \in DOMAIN q1
  BY <1>1
<1> HIDE DEF q
<1>8. Distinct(q) /\ Apart(q, q2)
  BY <1>4, <1>5, <1>6 DEF Distinct, Apart, Tidy
<1>9. Absent(q1[1].ID, q, q2)
  BY <1>4, <1>5, <1>7 DEF Absent, IDsOf, Tidy, Distinct, Apart
<1> QED
  BY <1>2, <1>4, <1>8, <1>9 DEF Tidy, q

-----------------------------------------------------------------------------
(* A function that is one-to-one on 1 .. n has n values.                   *)
LEMMA CountValues ==
  ASSUME NEW n \in Nat, NEW f, f = [k \in 1 .. n |-> f[k]],
         \A k, m \in 1 .. n : f[k] = f[m] => k = m
  PROVE  Cardinality({f[k] : k \in 1 .. n}) = n
<1> DEFINE V == {f[k] : k \in 1 .. n}
<1>1. f \in Bijection(1 .. n, V)
  BY DEF Bijection, Injection, Surjection, IsInjective
<1>2. ExistsBijection(1 .. n, V)
  BY <1>1 DEF ExistsBijection
<1> HIDE DEF V
<1>3. Cardinality(V) = n
  BY <1>2, FS_CountingElements
<1> QED
  BY <1>3 DEF V

(* Tidy queues of NumTasks entries hold every task and NumTasks nodes.     *)
LEMMA TidyHoldsAll ==
  ASSUME NEW q1, NEW q2, Tidy(q1, q2), Len(q1) + Len(q2) = NumTasks
  PROVE  /\ IDsOf(q1) \cup IDsOf(q2) = Task
         /\ Cardinality(AddrsOf(q1) \cup AddrsOf(q2)) = NumTasks
<1> DEFINE at(k) == IF k <= Len(q1) THEN q1[k] ELSE q2[k - Len(q1)]
           ids == [k \in 1 .. NumTasks |-> at(k).ID]
           addrs == [k \in 1 .. NumTasks |-> at(k).addr]
<1>0. /\ q1 \in Seq(TaskRec) /\ q2 \in Seq(TaskRec)
      /\ Len(q1) \in Nat /\ Len(q2) \in Nat /\ NumTasks \in Nat
      /\ DOMAIN q1 = 1 .. Len(q1) /\ DOMAIN q2 = 1 .. Len(q2)
  BY LenProperties, SchedulerAssumption DEF Tidy
<1>1. \A k \in 1 .. NumTasks :
        \/ k \in DOMAIN q1 /\ at(k) = q1[k]
        \/ /\ ~(k <= Len(q1)) /\ k - Len(q1) \in DOMAIN q2
           /\ at(k) = q2[k - Len(q1)]
  BY <1>0
<1>2. /\ \A k \in DOMAIN q1 : k \in 1 .. NumTasks /\ at(k) = q1[k]
      /\ \A k \in DOMAIN q2 : k + Len(q1) \in 1 .. NumTasks /\ at(k + Len(q1)) = q2[k]
  <2>1. \A k \in DOMAIN q2 : ~(k + Len(q1) <= Len(q1)) /\ k + Len(q1) - Len(q1) = k
    BY <1>0
  <2> QED
    BY <2>1, <1>0
<1>3. \A k, m \in 1 .. NumTasks :
        k # m /\ ~(k <= Len(q1)) /\ ~(m <= Len(q1)) => k - Len(q1) # m - Len(q1)
  BY <1>0
<1>3a. \A k \in DOMAIN q1 : k <= Len(q1)
  BY <1>0
<1> HIDE DEF at
<1>4. \A k, m \in 1 .. NumTasks :
        k # m => at(k).ID # at(m).ID /\ at(k).addr # at(m).addr
  <2> SUFFICES ASSUME NEW k \in 1 .. NumTasks, NEW m \in 1 .. NumTasks, k # m
               PROVE  at(k).ID # at(m).ID /\ at(k).addr # at(m).addr
    OBVIOUS
  <2>1. CASE k \in DOMAIN q1 /\ m \in DOMAIN q1
    BY <2>1, <1>2 DEF Tidy, Distinct
  <2>2. CASE k \in DOMAIN q1 /\ m \notin DOMAIN q1
    BY <2>2, <1>1, <1>2 DEF Tidy, Apart
  <2>3. CASE k \notin DOMAIN q1 /\ m \in DOMAIN q1
    BY <2>3, <1>1, <1>2 DEF Tidy, Apart
  <2>4. CASE k \notin DOMAIN q1 /\ m \notin DOMAIN q1
    BY <2>4, <1>1, <1>3 DEF Tidy, Distinct
  <2> QED
    BY <2>1, <2>2, <2>3, <2>4
<1>5. \A k \in 1 .. NumTasks : at(k) \in TaskRec
  BY <1>0, <1>1, ElementOfSeq
<1>6. /\ {at(k).ID : k \in 1 .. NumTasks} = IDsOf(q1) \cup IDsOf(q2)
      /\ {at(k).addr : k \in 1 .. NumTasks} = AddrsOf(q1) \cup AddrsOf(q2)
  <2>1. \A k \in 1 .. NumTasks : /\ at(k).ID \in IDsOf(q1) \cup IDsOf(q2)
                                /\ at(k).addr \in AddrsOf(q1) \cup AddrsOf(q2)
    BY <1>1 DEF IDsOf, AddrsOf
  <2>2. \A x \in IDsOf(q1) \cup IDsOf(q2) : \E k \in 1 .. NumTasks : x = at(k).ID
    BY <1>2 DEF IDsOf
  <2>3. \A x \in AddrsOf(q1) \cup AddrsOf(q2) : \E k \in 1 .. NumTasks : x = at(k).addr
    BY <1>2 DEF AddrsOf
  <2> QED
    BY <2>1, <2>2, <2>3
<1>7. Cardinality({addrs[k] : k \in 1 .. NumTasks}) = NumTasks
  <2>1. addrs = [k \in 1 .. NumTasks |-> addrs[k]]
    OBVIOUS
  <2>2. \A k, m \in 1 .. NumTasks : addrs[k] = addrs[m] => k = m
    BY <1>4
  <2> HIDE DEF addrs
  <2> QED
    BY <1>0, <2>1, <2>2, CountValues
<1>8. Cardinality({ids[k] : k \in 1 .. NumTasks}) = NumTasks
  <2>1. ids = [k \in 1 .. NumTasks |-> ids[k]]
    OBVIOUS
  <2>2. \A k, m \in 1 .. NumTasks : ids[k] = ids[m] => k = m
    BY <1>4
  <2> HIDE DEF ids
  <2> QED
    BY <1>0, <2>1, <2>2, CountValues
<1>9. {ids[k] : k \in 1 .. NumTasks} \subseteq Task
  BY <1>5 DEF TaskRec
<1>10. IsFiniteSet(Task) /\ Cardinality(Task) = NumTasks
  BY <1>0, FS_Interval DEF Task
<1>11. {ids[k] : k \in 1 .. NumTasks} = Task
  BY <1>8, <1>9, <1>10, FS_Subset
<1> QED
  BY <1>6, <1>7, <1>11

-----------------------------------------------------------------------------
Scalars ==
  /\ sched_type \in {"RR", "SJF", "MQ"}
  /\ OS_cycles \in 0 .. MaxCycles
  /\ pc \in {"wakeup", "schedule", "dispatch"}
  /\ cursor \in 1 .. NumTasks + 1
  /\ exec \in Addr \cup {idle_task, NoAddr} /\ exec_task \in Addr \cup {idle_task, NoAddr}
  /\ context_switches \in 0 .. OS_cycles
  /\ turns \in [Task -> Nat]

QueuesTidy ==
  /\ Tidy(ready_queue, waiting_queue)
  /\ Len(ready_queue) + Len(waiting_queue) = NumTasks

(* scheduler_n has returned the head of the queue, or the idle task.       *)
Returned ==
  pc = "dispatch" => IF ready_queue = << >> THEN exec = idle_task
                     ELSE exec = Head(ready_queue).addr

(* The inductive invariant.                                                *)
IInv == Scalars /\ QueuesTidy /\ Returned

-----------------------------------------------------------------------------
(* The queues have lengths, and their domains are intervals.               *)
LEMMA QueueDomains ==
  ASSUME QueuesTidy
  PROVE  /\ ready_queue \in Seq(TaskRec) /\ waiting_queue \in Seq(TaskRec)
         /\ Len(ready_queue) \in 0 .. NumTasks /\ DOMAIN ready_queue = 1 .. Len(ready_queue)
         /\ Len(waiting_queue) \in 0 .. NumTasks
         /\ DOMAIN waiting_queue = 1 .. Len(waiting_queue)
         /\ \A i \in DOMAIN ready_queue : ready_queue[i] \in TaskRec
         /\ \A i \in DOMAIN waiting_queue : waiting_queue[i] \in TaskRec
         /\ ready_queue # << >> <=> Len(ready_queue) > 0
<1>1. ready_queue \in Seq(TaskRec) /\ waiting_queue \in Seq(TaskRec)
  BY DEF QueuesTidy, Tidy
<1>2. /\ Len(ready_queue) \in Nat /\ DOMAIN ready_queue = 1 .. Len(ready_queue)
      /\ Len(waiting_queue) \in Nat /\ DOMAIN waiting_queue = 1 .. Len(waiting_queue)
  BY <1>1, LenProperties
<1>3. Len(ready_queue) \in 0 .. NumTasks /\ Len(waiting_queue) \in 0 .. NumTasks
  BY <1>2, SchedulerAssumption DEF QueuesTidy
<1>4. ready_queue # << >> <=> Len(ready_queue) > 0
  BY <1>1, EmptySeq, <1>2
<1> QED
  BY <1>1, <1>2, <1>3, <1>4, ElementOfSeq

(* The task that SJF moves is in the ready queue: the first one, if no     *)
(* task is shorter than the one before it, or the last that is.            *)
LEMMA ToMoveFacts ==
  ASSUME QueuesTidy, ready_queue # << >>
  PROVE  /\ toMove \in DOMAIN ready_queue
         /\ ShorterThanPrevious = {} => toMove = 1
         /\ ShorterThanPrevious # {} => toMove \in ShorterThanPrevious
<1>1. /\ ShorterThanPrevious \in SUBSET Nat
      /\ \A x \in ShorterThanPrevious : x <= Len(ready_queue)
      /\ ShorterThanPrevious \subseteq DOMAIN ready_queue
      /\ 1 \in DOMAIN ready_queue
      /\ Len(ready_queue) \in Nat
  BY QueueDomains DEF ShorterThanPrevious
<1>2. ShorterThanPrevious # {} => Max(ShorterThanPrevious) \in ShorterThanPrevious
  BY <1>1, MaxGreatest
<1> QED
  BY <1>1, <1>2 DEF toMove

(* The task that MQ runs is in the ready queue; it is in the middle of its *)
(* level if some task is.                                                  *)
LEMMA TaskToRunFacts ==
  ASSUME QueuesTidy, ready_queue # << >>
  PROVE  /\ taskToRun \in DOMAIN ready_queue
         /\ MidLevel # {} => taskToRun \in MidLevel
<1>1. /\ DOMAIN ready_queue \in SUBSET Nat /\ 1 \in DOMAIN ready_queue
      /\ \A i \in DOMAIN ready_queue : ready_queue[i].priority \in Nat
  BY QueueDomains DEF TaskRec
<1>2. CASE MidLevel # {}
  <2>1. MidLevel \in SUBSET Nat /\ MidLevel \subseteq DOMAIN ready_queue
    BY <1>1 DEF MidLevel
  <2> QED
    BY <1>2, <2>1, MinLeast DEF taskToRun
<1>3. CASE MidLevel = {}
  <2> DEFINE P == {ready_queue[i].priority : i \in DOMAIN ready_queue}
             S == {i \in DOMAIN ready_queue :
                    \A j \in DOMAIN ready_queue :
                      ready_queue[i].priority <= ready_queue[j].priority}
  <2>1. P \in SUBSET Nat /\ P # {}
    BY <1>1
  <2>2. PICK p \in P : \A o \in P : p <= o
    BY <2>1, LeastNat
  <2>3. PICK i \in DOMAIN ready_queue : p = ready_queue[i].priority
    BY <2>2
  <2>4. i \in S
    BY <2>2, <2>3
  <2>5. S \in SUBSET Nat /\ S # {}
    BY <1>1, <2>4
  <2>6. Min(S) \in S
    BY <2>5, MinLeast
  <2> QED
    BY <1>3, <2>6 DEF taskToRun
<1> QED
  BY <1>2, <1>3

(* MoveToFront keeps the queues tidy, and puts the task before the others. *)
LEMMA MoveFacts ==
  ASSUME QueuesTidy, NEW i \in DOMAIN ready_queue,
         NEW task \in TaskRec, task.ID = ready_queue[i].ID, MoveToFront(i, task),
         UNCHANGED waiting_queue
  PROVE  /\ QueuesTidy' /\ Len(ready_queue') = Len(ready_queue)
         /\ exec' \in Addr
         /\ ready_queue'[1] = [task EXCEPT !.addr = exec']
         /\ \A k \in 2 .. Len(ready_queue) :
              ready_queue'[k] = IF k <= i THEN ready_queue[k - 1] ELSE ready_queue[k]
<1> DEFINE rest == remove_node(ready_queue, i)
           pushed(a) == push(rest, task, a)
<1>0. Tidy(ready_queue, waiting_queue)
  BY DEF QueuesTidy
<1>1. Tidy(rest, waiting_queue) /\ Absent(task.ID, rest, waiting_queue)
  BY <1>0, RemoveTidy
<1>2. PICK a \in malloc(rest, waiting_queue) : ready_queue' = last_to_first(pushed(a))
  BY DEF MoveToFront
<1>3. Tidy(pushed(a), waiting_queue)
  BY <1>1, PushTidy
<1>4. Tidy(ready_queue', waiting_queue')
  BY <1>2, <1>3, RotateBackTidy
<1>5. a \in Addr
  BY DEF malloc
<1>6. /\ Len(ready_queue) \in Nat /\ i \in 1 .. Len(ready_queue)
      /\ ready_queue \in Seq(TaskRec)
  BY QueueDomains
<1>7. /\ rest \in Seq(TaskRec) /\ Len(rest) = Len(ready_queue) - 1
      /\ \A k \in 1 .. Len(ready_queue) - 1 :
           rest[k] = IF k < i THEN ready_queue[k] ELSE ready_queue[k + 1]
  BY <1>6, RemoveElements
<1> HIDE DEF rest
<1>8. /\ pushed(a) \in Seq(TaskRec) /\ Len(pushed(a)) = Len(rest) + 1
      /\ \A k \in 1 .. Len(rest) : pushed(a)[k] = rest[k]
      /\ pushed(a)[Len(rest) + 1] = [task EXCEPT !.addr = a]
  BY <1>5, <1>7, PushElements
<1> HIDE DEF pushed
<1>9. /\ Len(ready_queue') = Len(pushed(a))
      /\ \A k \in 1 .. Len(pushed(a)) :
           ready_queue'[k] = IF k = 1 THEN pushed(a)[Len(pushed(a))] ELSE pushed(a)[k - 1]
  BY <1>2, <1>8, RotateBackElements
<1>10. Len(pushed(a)) = Len(ready_queue)
  BY <1>6, <1>7, <1>8
<1>11. ready_queue'[1] = [task EXCEPT !.addr = a]
  <2>1. 1 \in 1 .. Len(pushed(a))
    BY <1>6, <1>10
  <2>2. ready_queue'[1] = pushed(a)[Len(pushed(a))]
    BY <2>1, <1>9
  <2> QED
    BY <2>2, <1>8
<1>12. \A k \in 2 .. Len(ready_queue) :
         ready_queue'[k] = IF k <= i THEN ready_queue[k - 1] ELSE ready_queue[k]
  <2> TAKE k \in 2 .. Len(ready_queue)
  <2>1. ready_queue'[k] = pushed(a)[k - 1]
    BY <1>6, <1>9, <1>10
  <2>2. pushed(a)[k - 1] = rest[k - 1]
    BY <1>6, <1>7, <1>8
  <2>3. rest[k - 1] = IF k - 1 < i THEN ready_queue[k - 1] ELSE ready_queue[k - 1 + 1]
    BY <1>6, <1>7
  <2> QED
    BY <1>6, <2>1, <2>2, <2>3
<1>13. Len(ready_queue') + Len(waiting_queue') = NumTasks
  BY <1>9, <1>10 DEF QueuesTidy
<1>14. exec' = a
  <2>1. ready_queue' \in Seq(TaskRec) /\ Len(ready_queue') > 0
    BY <1>4, <1>6, <1>9, <1>10 DEF Tidy
  <2>2. Head(ready_queue') = ready_queue'[1]
    BY <2>1
  <2>3. [task EXCEPT !.addr = a].addr = a
    BY DEF TaskRec
  <2> QED
    BY <1>11, <2>2, <2>3 DEF MoveToFront
<1> QED
  BY <1>4, <1>5, <1>9, <1>10, <1>11, <1>12, <1>13, <1>14 DEF QueuesTidy

(* The task that is dispatched is the head of the ready queue, because a   *)
(* node holds one task; and what dispatch_n does with the queues.          *)
LEMMA DispatchFacts ==
  ASSUME IInv, Dispatch
  PROVE  \/ /\ ready_queue = << >> /\ UNCHANGED <<queues, turns>>
         \/ /\ ready_queue # << >>
            /\ LET task == [ready_queue[1] EXCEPT !.quantum = @ - 1]
                   q == [ready_queue EXCEPT ![1] = task]
               IN  /\ turns' = [t \in Task |->
                                 IF t = task.ID THEN 0
                                 ELSE IF t \in IDsOf(q) THEN turns[t] + 1 ELSE turns[t]]
                   /\ \/ /\ task.quantum > 0
                         /\ ready_queue' = first_to_last(q)
                         /\ UNCHANGED waiting_queue
                      \/ /\ task.quantum <= 0
                         /\ \E a \in malloc(q, waiting_queue) :
                              waiting_queue' =
                                push(waiting_queue,
                                     [Head(q) EXCEPT !.release_time = @ + Head(q).period], a)
                         /\ ready_queue' = first_to_last(Tail(q))
<1>0. /\ \A i \in DOMAIN ready_queue : ready_queue[i] \in TaskRec
      /\ DOMAIN ready_queue = 1 .. Len(ready_queue) /\ Len(ready_queue) \in Nat
      /\ ready_queue # << >> <=> Len(ready_queue) > 0
  BY QueueDomains DEF IInv
<1>1. \A i \in DOMAIN ready_queue : ready_queue[i].addr # idle_task
  BY <1>0, SchedulerAssumption DEF TaskRec, Addr, idle_task
<1>2. IF ready_queue = << >> THEN exec = idle_task ELSE exec = ready_queue[1].addr
  BY DEF IInv, Returned, Dispatch
<1>3. CASE ready_queue = << >>
  <2>1. DOMAIN ready_queue = {}
    BY <1>3, <1>0
  <2>2. ready_queue' = first_to_last(ready_queue) /\ UNCHANGED <<waiting_queue, turns>>
    BY <2>1 DEF Dispatch
  <2> QED
    BY <1>3, <2>2 DEF first_to_last, queues
<1>4. CASE ready_queue # << >>
  <2>1. 1 \in DOMAIN ready_queue /\ exec = ready_queue[1].addr
    BY <1>0, <1>2, <1>4
  <2>2. \A i \in DOMAIN ready_queue : ready_queue[i].addr = exec => i = 1
    BY <2>1 DEF IInv, QueuesTidy, Tidy, Distinct
  <2>3. exec # idle_task
    BY <2>1, <1>1
  <2>4. PICK i \in DOMAIN ready_queue :
          LET task == [ready_queue[i] EXCEPT !.quantum = @ - 1]
              q == [ready_queue EXCEPT ![i] = task]
              next == [Head(q) EXCEPT !.release_time = @ + Head(q).period]
          IN /\ task.addr = exec
             /\ turns' = [t \in Task |-> IF t = task.ID THEN 0
                                         ELSE IF t \in IDsOf(q) THEN turns[t] + 1 ELSE turns[t]]
             /\ \/ /\ task.quantum > 0
                   /\ ready_queue' = first_to_last(q)
                   /\ UNCHANGED waiting_queue
                \/ /\ task.quantum <= 0
                   /\ \E a \in malloc(q, waiting_queue) :
                        waiting_queue' = push(waiting_queue, next, a)
                   /\ ready_queue' = first_to_last(Tail(q))
    BY <2>3, Zenon DEF Dispatch
  <2>5. [ready_queue[i] EXCEPT !.quantum = @ - 1].addr = ready_queue[i].addr
    BY <1>0 DEF TaskRec
  <2>6. i = 1
    BY <2>2, <2>4, <2>5, Zenon
  <2> QED
    BY <1>4, <2>4, <2>6, Zenon
<1> QED
  BY <1>3, <1>4

-----------------------------------------------------------------------------
(* All tasks wait at first, each in a node of its own.                     *)
LEMMA InitIInv == Init => IInv
<1> SUFFICES ASSUME Init PROVE IInv
  OBVIOUS
<1>1. PICK per \in [Task -> Periods], rel \in [Task -> ReleaseTimes],
           pri \in [Task -> Priorities], qua \in [Task -> Quanta] :
        waiting_queue = [i \in Task |->
          [ID |-> i, period |-> per[i], release_time |-> rel[i], priority |-> pri[i],
           quantum |-> qua[i], addr |-> i]]
  BY DEF Init
<1>2. NumTasks \in Nat
  BY SchedulerAssumption
<1>3. waiting_queue \in [1 .. NumTasks -> TaskRec]
  <2>1. ASSUME NEW i \in Task
        PROVE  /\ i \in Addr /\ per[i] \in Periods /\ rel[i] \in Nat
               /\ pri[i] \in Nat /\ qua[i] \in Int
    <3>1. i \in Addr
      BY <1>2 DEF Task, Addr
    <3>2. /\ per[i] \in Periods /\ rel[i] \in ReleaseTimes
          /\ pri[i] \in Priorities /\ qua[i] \in Quanta
      OBVIOUS
    <3> QED
      BY <3>1, <3>2, SchedulerAssumption
  <2>2. \A i \in Task :
          [ID |-> i, period |-> per[i], release_time |-> rel[i], priority |-> pri[i],
           quantum |-> qua[i], addr |-> i] \in TaskRec
    BY <2>1 DEF TaskRec
  <2> QED
    BY <1>1, <2>2 DEF Task
<1>4. waiting_queue \in Seq(TaskRec)
  BY <1>2, <1>3, SeqDef
<1>5. DOMAIN waiting_queue = 1 .. NumTasks
  BY <1>3
<1>6. Len(waiting_queue) = NumTasks
  <2>1. /\ Len(waiting_queue) \in Nat
        /\ 1 .. Len(waiting_queue) = 1 .. NumTasks
    BY <1>4, <1>5, LenProperties
  <2> QED
    BY <2>1, <1>2
<1>7. \A i \in 1 .. NumTasks : waiting_queue[i].ID = i /\ waiting_queue[i].addr = i
  BY <1>1 DEF Task
<1>8. Distinct(waiting_queue)
  BY <1>5, <1>7 DEF Distinct
<1>9. /\ ready_queue = << >> /\ ready_queue \in Seq(TaskRec) /\ Len(ready_queue) = 0
      /\ DOMAIN ready_queue = {}
  BY EmptySeq DEF Init
<1>10. QueuesTidy
  BY <1>2, <1>4, <1>6, <1>8, <1>9 DEF QueuesTidy, Tidy, Distinct, Apart
<1>11. Scalars
  BY SchedulerAssumption DEF Init, Scalars
<1>12. Returned
  BY DEF Init, Returned
<1> QED
  BY <1>10, <1>11, <1>12 DEF IInv

(* A task that wakes up is appended to the ready queue in a new node.      *)
LEMMA WakeOneIInv ==
  ASSUME IInv, WakeOne
  PROVE  IInv'
<1> DEFINE i == cursor
           rest == remove_node(waiting_queue, i)
<1>0. Tidy(ready_queue, waiting_queue) /\ i \in DOMAIN waiting_queue
  BY DEF IInv, QueuesTidy, WakeOne, MoveDue, Due
<1>1. PICK a \in malloc(ready_queue, waiting_queue) :
        ready_queue' = push(ready_queue, waiting_queue[i], a)
  BY DEF WakeOne, MoveDue
<1>2. waiting_queue' = rest /\ turns' = [turns EXCEPT ![waiting_queue[i].ID] = 0]
  BY DEF WakeOne, MoveDue
<1>3. /\ waiting_queue \in Seq(TaskRec) /\ ready_queue \in Seq(TaskRec)
      /\ Len(waiting_queue) \in Nat /\ Len(ready_queue) \in Nat
      /\ DOMAIN waiting_queue = 1 .. Len(waiting_queue)
      /\ waiting_queue[i] \in TaskRec
  BY <1>0, QueueDomains DEF IInv
<1> HIDE DEF i
<1>4. Tidy(ready_queue, rest) /\ Absent(waiting_queue[i].ID, ready_queue, rest)
  <2>1. Tidy(rest, ready_queue) /\ Absent(waiting_queue[i].ID, rest, ready_queue)
    BY <1>0, TidySwap, RemoveTidy
  <2> QED
    BY <2>1, TidySwap DEF Absent
<1>5. /\ Len(rest) = Len(waiting_queue) - 1
      /\ \A k \in 1 .. Len(waiting_queue) - 1 :
           rest[k] = IF k < i THEN waiting_queue[k] ELSE waiting_queue[k + 1]
      /\ rest \in Seq(TaskRec)
  BY <1>0, <1>3, RemoveElements
<1>6. DOMAIN rest = 1 .. Len(waiting_queue) - 1
  BY <1>5, LenProperties
<1> HIDE DEF rest
<1>7. a \in malloc(ready_queue, rest) /\ a \in Addr
  <2>1. \A k \in DOMAIN rest : \E m \in DOMAIN waiting_queue : rest[k] = waiting_queue[m]
    <3> TAKE k \in DOMAIN rest
    <3>1. CASE k < i
      BY <3>1, <1>3, <1>5, <1>6
    <3>2. CASE ~(k < i)
      <4>1. rest[k] = waiting_queue[k + 1] /\ k + 1 \in DOMAIN waiting_queue
        BY <3>2, <1>3, <1>5, <1>6
      <4> QED
        BY <4>1
    <3> QED
      BY <3>1, <3>2
  <2>2. AddrsOf(rest) \subseteq AddrsOf(waiting_queue)
    BY <2>1 DEF AddrsOf
  <2> QED
    BY <2>2 DEF malloc
<1>8. Tidy(ready_queue', waiting_queue')
  BY <1>1, <1>2, <1>3, <1>4, <1>7, PushTidy
<1>9. Len(ready_queue') = Len(ready_queue) + 1
  BY <1>1, <1>3, <1>7, PushElements
<1>10. Len(ready_queue') + Len(waiting_queue') = NumTasks
  BY <1>2, <1>3, <1>5, <1>9 DEF IInv, QueuesTidy
<1>11. turns' \in [Task -> Nat]
  BY <1>2, <1>3 DEF TaskRec, IInv, Scalars
<1>12. Scalars'
  BY <1>11, SchedulerAssumption DEF WakeOne, MoveDue, IInv, Scalars
<1>13. Returned'
  BY DEF WakeOne, MoveDue, Returned
<1> QED
  BY <1>8, <1>10, <1>12, <1>13 DEF IInv, QueuesTidy

(* Under each policy the task that is returned is the head of the queue.   *)
LEMMA ScheduleIInv ==
  ASSUME IInv, Schedule
  PROVE  IInv'
<1> USE DEF IInv
<1>1. ready_queue \in Seq(TaskRec) /\ \A i \in DOMAIN ready_queue : ready_queue[i] \in TaskRec
  BY QueueDomains
<1>2. /\ pc' = "dispatch" /\ waiting_queue' = waiting_queue
      /\ UNCHANGED <<sched_type, OS_cycles, cursor, exec_task, context_switches, turns>>
  BY DEF Schedule
<1>3. CASE ready_queue = << >>
  <2>1. exec' = idle_task /\ ready_queue' = ready_queue
    BY <1>3 DEF Schedule, MoveToFront
  <2> QED
    BY <1>2, <1>3, <2>1 DEF Scalars, QueuesTidy, Returned
<1>4. CASE ready_queue # << >> /\ sched_type = "RR"
  <2>1. exec' = Head(ready_queue).addr /\ ready_queue' = ready_queue
    BY <1>4 DEF Schedule, MoveToFront
  <2>2. Head(ready_queue) \in TaskRec
    BY <1>1, <1>4, HeadTailProperties
  <2>3. exec' \in Addr
    BY <2>1, <2>2 DEF TaskRec
  <2> QED
    BY <1>2, <1>4, <2>1, <2>3 DEF Scalars, QueuesTidy, Returned
<1>5. ASSUME NEW i \in DOMAIN ready_queue, NEW task \in TaskRec,
             task.ID = ready_queue[i].ID, MoveToFront(i, task)
      PROVE  IInv'
  <2>1. QueuesTidy' /\ exec' \in Addr /\ ready_queue'[1] = [task EXCEPT !.addr = exec']
    BY <1>2, <1>5, MoveFacts
  <2>2. [task EXCEPT !.addr = exec'].addr = exec'
    BY DEF TaskRec
  <2>3. Len(ready_queue') = Len(ready_queue)
    BY <1>2, <1>5, MoveFacts
  <2>4. Len(ready_queue) > 0
    BY <1>5, QueueDomains
  <2>5. ready_queue' \in Seq(TaskRec)
    BY <2>1 DEF QueuesTidy, Tidy
  <2>6. ready_queue' # << >>
    BY <2>3, <2>4
  <2>7. Head(ready_queue').addr = exec'
    <3>1. Head(ready_queue') = ready_queue'[1]
      BY <2>5, <2>6
    <3> QED
      BY <3>1, <2>1, <2>2, Zenon
  <2> QED
    BY <1>2, <2>1, <2>6, <2>7 DEF Scalars, Returned
<1>6. CASE ready_queue # << >> /\ sched_type = "SJF"
  <2>1. toMove \in DOMAIN ready_queue
    BY <1>6, ToMoveFacts
  <2>2. MoveToFront(toMove, ready_queue[toMove])
    BY <1>6 DEF Schedule
  <2> QED
    BY <1>1, <1>5, <2>1, <2>2
<1>7. CASE ready_queue # << >> /\ sched_type = "MQ"
  <2>1. taskToRun \in DOMAIN ready_queue
    BY <1>7, TaskToRunFacts
  <2>2. MoveToFront(taskToRun, sunk(ready_queue[taskToRun]))
    BY <1>7 DEF Schedule
  <2>3. /\ sunk(ready_queue[taskToRun]) \in TaskRec
        /\ sunk(ready_queue[taskToRun]).ID = ready_queue[taskToRun].ID
    <3>1. ready_queue[taskToRun] \in TaskRec
      BY <1>1, <2>1
    <3> QED
      BY <3>1 DEF sunk, TaskRec
  <2> QED
    BY <1>5, <2>1, <2>2, <2>3
<1> QED
  BY <1>3, <1>4, <1>6, <1>7 DEF Scalars

(* A task that runs goes to the end of the queue; one that finishes goes   *)
(* to the waiting queue in a new node, and the next one goes to the end.   *)
LEMMA DispatchQueues ==
  ASSUME IInv, Dispatch
  PROVE  QueuesTidy' /\ turns' \in [Task -> Nat]
<1>0. Tidy(ready_queue, waiting_queue) /\ turns \in [Task -> Nat]
  BY DEF IInv, QueuesTidy, Scalars
<1>1. CASE ready_queue = << >> /\ UNCHANGED <<queues, turns>>
  BY <1>0, <1>1 DEF IInv, QueuesTidy, queues
<1>2. CASE ready_queue # << >> /\ ~UNCHANGED <<queues, turns>>
  <2> DEFINE task == [ready_queue[1] EXCEPT !.quantum = @ - 1]
             q == [ready_queue EXCEPT ![1] = task]
             next == [Head(q) EXCEPT !.release_time = @ + Head(q).period]
  <2>1. 1 \in DOMAIN ready_queue /\ ready_queue[1] \in TaskRec /\ Len(ready_queue) \in Nat \ {0}
    BY <1>2, QueueDomains DEF IInv
  <2>2. task \in TaskRec /\ task.ID = ready_queue[1].ID /\ task.addr = ready_queue[1].addr
    BY <2>1 DEF TaskRec
  <2> HIDE DEF task
  <2>3. Tidy(q, waiting_queue) /\ Len(q) = Len(ready_queue) /\ q[1] = task
    BY <1>0, <2>1, <2>2, AgeTidy
  <2>4. q \in Seq(TaskRec)
    BY <2>3 DEF Tidy
  <2> HIDE DEF q
  <2>5. q # << >> /\ Head(q) = task
    BY <2>1, <2>3, <2>4
  <2>6. /\ turns' = [t \in Task |-> IF t = task.ID THEN 0
                                   ELSE IF t \in IDsOf(q) THEN turns[t] + 1 ELSE turns[t]]
        /\ \/ ready_queue' = first_to_last(q) /\ UNCHANGED waiting_queue
           \/ /\ \E a \in malloc(q, waiting_queue) : waiting_queue' = push(waiting_queue, next, a)
              /\ ready_queue' = first_to_last(Tail(q))
    BY <1>2, DispatchFacts, Zenon DEF task, q
  <2>7. turns' \in [Task -> Nat]
    BY <1>0, <2>6
  <2>8. CASE ready_queue' = first_to_last(q) /\ UNCHANGED waiting_queue
    <3>1. Tidy(ready_queue', waiting_queue')
      BY <2>3, <2>8, RotateTidy
    <3>2. Len(ready_queue') = Len(ready_queue)
      BY <2>3, <2>4, <2>8, RotateElements
    <3> QED
      BY <2>7, <2>8, <3>1, <3>2 DEF IInv, QueuesTidy
  <2>9. ASSUME NEW a \in malloc(q, waiting_queue),
               waiting_queue' = push(waiting_queue, next, a),
               ready_queue' = first_to_last(Tail(q))
        PROVE  QueuesTidy'
    <3>1. /\ Tidy(Tail(q), waiting_queue) /\ Len(Tail(q)) = Len(q) - 1
          /\ Absent(task.ID, Tail(q), waiting_queue)
      BY <2>3, <2>5, TailTidy
    <3>2. Periods \subseteq Nat
      BY SchedulerAssumption
    <3>3. next \in TaskRec /\ next.ID = task.ID
      BY <2>2, <2>5, <3>2 DEF TaskRec
    <3> HIDE DEF next
    <3>4. a \in malloc(waiting_queue, Tail(q)) /\ a \in Addr
      <4>1. q \in Seq(TaskRec) /\ q # << >>
        BY <2>4, <2>5
      <4>2. /\ Tail(q) \in Seq(TaskRec) /\ Len(Tail(q)) = Len(q) - 1
            /\ \A k \in 1 .. Len(Tail(q)) : Tail(q)[k] = q[k + 1]
        BY <4>1, HeadTailProperties
      <4>3. /\ DOMAIN q = 1 .. Len(q) /\ DOMAIN Tail(q) = 1 .. Len(Tail(q))
            /\ Len(q) \in Nat
        BY <4>1, <4>2, LenProperties
      <4>4. \A k \in DOMAIN Tail(q) : k + 1 \in DOMAIN q /\ Tail(q)[k] = q[k + 1]
        BY <4>2, <4>3
      <4>5. AddrsOf(Tail(q)) \subseteq AddrsOf(q)
        BY <4>4 DEF AddrsOf
      <4> QED
        BY <4>5 DEF malloc
    <3>5. Tidy(waiting_queue, Tail(q)) /\ Absent(next.ID, waiting_queue, Tail(q))
      BY <3>1, <3>3, TidySwap DEF Absent
    <3>6. Tidy(waiting_queue', Tail(q))
      BY <2>9, <3>3, <3>4, <3>5, PushTidy
    <3>7. Tidy(ready_queue', waiting_queue')
      BY <2>9, <3>6, TidySwap, RotateTidy
    <3>8. waiting_queue \in Seq(TaskRec) /\ Tail(q) \in Seq(TaskRec)
      BY <3>1 DEF Tidy
    <3>9. Len(waiting_queue') = Len(waiting_queue) + 1 /\ Len(ready_queue') = Len(Tail(q))
      BY <2>9, <3>3, <3>4, <3>8, PushElements, RotateElements
    <3>10. Len(waiting_queue) \in Nat /\ Len(ready_queue) + Len(waiting_queue) = NumTasks
      BY <3>8, LenProperties DEF IInv, QueuesTidy
    <3>11. Len(ready_queue') + Len(waiting_queue') = NumTasks
      <4>1. Len(ready_queue) \in Nat /\ Len(Tail(q)) = Len(ready_queue) - 1
        BY <2>1, <2>3, <3>1
      <4>2. Len(waiting_queue') = Len(waiting_queue) + 1 /\ Len(ready_queue') = Len(ready_queue) - 1
        BY <4>1, <3>9
      <4>3. \A m, n, N \in Nat : n + m = N => (n - 1) + (m + 1) = N
        OBVIOUS
      <4>4. NumTasks \in Nat
        BY SchedulerAssumption
      <4> QED
        BY <4>1, <4>2, <4>3, <4>4, <3>10
    <3> QED
      BY <3>7, <3>11 DEF QueuesTidy
  <2> QED
    BY <2>6, <2>7, <2>8, <2>9
<1>3. CASE ready_queue # << >> /\ UNCHANGED <<queues, turns>>
  BY <1>0, <1>3 DEF IInv, QueuesTidy, queues
<1> QED
  BY <1>1, <1>2, <1>3, DispatchFacts

(* Every call of the dispatcher keeps the invariant.                       *)
LEMMA DispatchIInv ==
  ASSUME IInv, Dispatch
  PROVE  IInv'
<1>1. QueuesTidy' /\ turns' \in [Task -> Nat]
  BY DispatchQueues
<1>2. /\ pc' = "wakeup" /\ OS_cycles' = OS_cycles + 1 /\ exec_task' = exec /\ exec' = exec
      /\ cursor' = cursor
      /\ sched_type' = sched_type /\ OS_cycles < MaxCycles
      /\ context_switches' = context_switches \/ context_switches' = context_switches + 1
  BY DEF Dispatch
<1>3. MaxCycles \in Nat
  BY SchedulerAssumption
<1>4. OS_cycles' \in 0 .. MaxCycles /\ context_switches' \in 0 .. OS_cycles'
  BY <1>2, <1>3 DEF IInv, Scalars
<1> QED
  BY <1>1, <1>2, <1>4 DEF IInv, Scalars, Returned

(* Every step of main does.                                                *)
LEMMA NextIInv ==
  ASSUME IInv, [Next]_vars
  PROVE  IInv'
<1>1. CASE WakeDone
  BY <1>1, SchedulerAssumption DEF WakeDone, queues, IInv, Scalars, QueuesTidy, Returned
<1>3. CASE WakeNext
  <2>1. cursor' \in 1 .. NumTasks + 1
    BY <1>3, QueueDomains, SchedulerAssumption DEF WakeNext, IInv
  <2> QED
    BY <1>3, <2>1 DEF WakeNext, queues, IInv, Scalars, QueuesTidy, Returned
<1>2. CASE UNCHANGED vars
  BY <1>2 DEF vars, queues, IInv, Scalars, QueuesTidy, Returned
<1> QED
  BY <1>1, <1>2, <1>3, WakeOneIInv, ScheduleIInv, DispatchIInv DEF Next, Horizon

(* The invariant holds in every reachable state.                           *)
LEMMA SpecIInv == Spec => []IInv
BY InitIInv, NextIInv, PTL DEF Spec

(* The inductive invariant says more than EachTaskOnce: not only how many  *)
(* tasks and nodes there are, but that no two entries share one.           *)
LEMMA IInvEachTaskOnce ==
  ASSUME IInv
  PROVE  EachTaskOnce
<1>1. TypeOK
  BY QueueDomains DEF IInv, Scalars, TypeOK, IsTask, TaskRec
<1> QED
  BY <1>1, TidyHoldsAll DEF IInv, QueuesTidy, EachTaskOnce

(* Whatever tasks wake up, finish or move to the front, every task is in   *)
(* one queue, once, in a node of its own (main.c:258, 297 and 356).        *)
THEOREM NoTaskLost == Spec => []EachTaskOnce
BY SpecIInv, IInvEachTaskOnce, PTL

(* What the walk of OS_wakeup_n has seen: no task before the cursor is     *)
(* due, for a walk that has moved one starts over; and the end of the walk *)
(* is the end of the queue.                                                *)
Walked ==
  IF pc = "wakeup" THEN \A i \in DOMAIN waiting_queue : i < cursor => i \notin Due
  ELSE cursor = 1 /\ Due = {}

(* Every step of main keeps to it; the clock moves after the dispatch.     *)
LEMMA NextWalked ==
  ASSUME IInv, Walked, [Next]_vars
  PROVE  Walked'
<1>0. /\ DOMAIN waiting_queue = 1 .. Len(waiting_queue) /\ Len(waiting_queue) \in Nat
      /\ cursor \in Nat \ {0}
  BY QueueDomains, SchedulerAssumption DEF IInv, Scalars
<1>1. CASE UNCHANGED vars
  BY <1>1 DEF vars, queues, Walked, Due
<1>2. CASE WakeOne
  <2>1. pc' = "wakeup" /\ cursor' = 1
    BY <1>2 DEF WakeOne, MoveDue
  <2>2. DOMAIN waiting_queue' = 1 .. Len(waiting_queue') /\ Len(waiting_queue') \in Nat
    <3>1. QueuesTidy'
      BY <1>2, WakeOneIInv DEF IInv
    <3>2. waiting_queue' \in Seq(TaskRec)
      BY <3>1 DEF QueuesTidy, Tidy
    <3> QED
      BY <3>2, LenProperties
  <2>3. \A i \in DOMAIN waiting_queue' : ~(i < cursor')
    BY <2>1, <2>2
  <2> QED
    BY <2>1, <2>3 DEF Walked
<1>3. CASE WakeNext
  <2>1. /\ pc = "wakeup" /\ pc' = "wakeup" /\ cursor' = cursor + 1 /\ cursor \notin Due
        /\ waiting_queue' = waiting_queue /\ Due' = Due
    BY <1>3 DEF WakeNext, queues, Due
  <2>2. \A i \in DOMAIN waiting_queue : i < cursor => i \notin Due
    BY <2>1 DEF Walked
  <2>3. \A i \in DOMAIN waiting_queue : i < cursor + 1 => i < cursor \/ i = cursor
    BY <1>0
  <2> QED
    BY <2>1, <2>2, <2>3 DEF Walked
<1>4. CASE WakeDone
  <2>1. /\ pc = "wakeup" /\ pc' = "schedule" /\ cursor' = 1 /\ cursor \notin DOMAIN waiting_queue
        /\ waiting_queue' = waiting_queue /\ Due' = Due
    BY <1>4 DEF WakeDone, queues, Due
  <2>2. \A i \in DOMAIN waiting_queue : i < cursor
    BY <1>0, <2>1
  <2>3. Due \subseteq DOMAIN waiting_queue
    BY DEF Due
  <2>4. Due = {}
    BY <2>1, <2>2, <2>3 DEF Walked
  <2> QED
    BY <2>1, <2>4 DEF Walked
<1>5. CASE Schedule
  <2>1. /\ pc = "schedule" /\ pc' = "dispatch" /\ cursor' = cursor
        /\ waiting_queue' = waiting_queue /\ Due' = Due
    BY <1>5 DEF Schedule, Due
  <2> QED
    BY <2>1 DEF Walked
<1>6. CASE Dispatch
  <2>1. pc = "dispatch" /\ pc' = "wakeup" /\ cursor' = cursor
    BY <1>6 DEF Dispatch
  <2>2. cursor' = 1
    BY <2>1 DEF Walked
  <2>3. DOMAIN waiting_queue' = 1 .. Len(waiting_queue') /\ Len(waiting_queue') \in Nat
    <3>1. QueuesTidy'
      BY <1>6, DispatchIInv DEF IInv
    <3>2. waiting_queue' \in Seq(TaskRec)
      BY <3>1 DEF QueuesTidy, Tidy
    <3> QED
      BY <3>2, LenProperties
  <2>4. \A i \in DOMAIN waiting_queue' : ~(i < cursor')
    BY <2>2, <2>3
  <2> QED
    BY <2>1, <2>4 DEF Walked
<1> QED
  BY <1>1, <1>2, <1>3, <1>4, <1>5, <1>6 DEF Next, Horizon

(* OS_wakeup_n takes nodes out of the queue it walks along and leaves no   *)
(* task behind whose time has come: every task that is due at a cycle is   *)
(* ready when scheduler_n chooses (main.c:258).                            *)
THEOREM NobodyOversleeps == Spec => []NoneOversleeps
<1>1. Init => Walked
  <2> SUFFICES ASSUME Init PROVE Walked
    OBVIOUS
  <2>1. QueuesTidy /\ pc = "wakeup" /\ cursor = 1
    BY InitIInv DEF IInv, Init
  <2>2. \A i \in DOMAIN waiting_queue : ~(i < 1)
    BY <2>1, QueueDomains
  <2> QED
    BY <2>1, <2>2 DEF Walked
<1>2. IInv /\ Walked /\ [Next]_vars => Walked'
  BY NextWalked
<1>3. Walked => NoneOversleeps
  BY DEF Walked, NoneOversleeps
<1> QED
  BY <1>1, <1>2, <1>3, SpecIInv, PTL DEF Spec

-----------------------------------------------------------------------------
(* SJF: the first task has been put before a longer one, or there was no   *)
(* task shorter than the one before it.                                    *)
LEMMA ScheduleLongestWaits ==
  ASSUME IInv, Schedule
  PROVE  LongestWaits'
<1> SUFFICES ASSUME sched_type' = "SJF", Len(ready_queue') > 1
             PROVE  \E i \in 2 .. Len(ready_queue') :
                      ready_queue'[i].quantum >= Head(ready_queue').quantum
  BY DEF LongestWaits
<1>0. QueuesTidy
  BY DEF IInv
<1>1. sched_type = "SJF" /\ UNCHANGED waiting_queue
  BY DEF Schedule
<1>2. CASE ready_queue = << >>
  <2>1. ready_queue' = << >>
    BY <1>1, <1>2 DEF Schedule
  <2>2. Len(ready_queue') = 0
    BY <2>1
  <2> QED
    BY <2>2
<1>3. CASE ready_queue # << >>
  <2> DEFINE m == toMove
  <2>1. MoveToFront(m, ready_queue[m])
    BY <1>1, <1>3 DEF Schedule
  <2>2. m \in DOMAIN ready_queue
    BY <1>0, <1>3, ToMoveFacts
  <2> HIDE DEF m
  <2>3. /\ \A i \in DOMAIN ready_queue : ready_queue[i] \in TaskRec
        /\ Len(ready_queue) \in Nat /\ DOMAIN ready_queue = 1 .. Len(ready_queue)
    BY <1>0, QueueDomains
  <2>4. /\ QueuesTidy' /\ Len(ready_queue') = Len(ready_queue)
        /\ ready_queue'[1] = [ready_queue[m] EXCEPT !.addr = exec']
        /\ \A k \in 2 .. Len(ready_queue) :
             ready_queue'[k] = IF k <= m THEN ready_queue[k - 1] ELSE ready_queue[k]
    BY <1>0, <1>1, <2>1, <2>2, <2>3, MoveFacts
  <2>5. ready_queue'[1].quantum = ready_queue[m].quantum
    BY <2>2, <2>3, <2>4 DEF TaskRec
  <2>6. Head(ready_queue') = ready_queue'[1]
    <3>1. ready_queue' \in Seq(TaskRec)
      BY <2>4 DEF QueuesTidy, Tidy
    <3>2. ready_queue' # << >>
      BY <2>3, <2>4
    <3> QED
      BY <3>1, <3>2
  <2>7. \A i \in DOMAIN ready_queue : ready_queue[i].quantum \in Int
    BY <2>3 DEF TaskRec
  <2>8. CASE ShorterThanPrevious = {}
    <3>1. m = 1
      BY <1>0, <1>3, <2>8, ToMoveFacts DEF m
    <3>2. 2 \in 2 .. Len(ready_queue) /\ 2 \in DOMAIN ready_queue /\ 1 \in DOMAIN ready_queue
      BY <2>3, <2>4
    <3>3. ~(ready_queue[2].quantum < ready_queue[2 - 1].quantum)
      BY <2>8, <3>2 DEF ShorterThanPrevious
    <3>4. ready_queue[2].quantum >= ready_queue[1].quantum
      BY <2>7, <3>2, <3>3
    <3>5. ready_queue'[2] = ready_queue[2]
      BY <2>4, <3>1, <3>2
    <3> QED
      BY <2>4, <2>5, <2>6, <3>1, <3>2, <3>4, <3>5
  <2>9. CASE ShorterThanPrevious # {}
    <3>1. m \in ShorterThanPrevious
      BY <1>0, <1>3, <2>9, ToMoveFacts DEF m
    <3>2. /\ m \in 2 .. Len(ready_queue) /\ m - 1 \in DOMAIN ready_queue
          /\ ready_queue[m].quantum < ready_queue[m - 1].quantum
      BY <2>3, <3>1 DEF ShorterThanPrevious
    <3>3. ready_queue[m - 1].quantum >= ready_queue[m].quantum
      BY <2>2, <2>7, <3>2
    <3>4. ready_queue'[m] = ready_queue[m - 1]
      BY <2>4, <3>2
    <3> QED
      BY <2>4, <2>5, <2>6, <3>2, <3>3, <3>4
  <2> QED
    BY <2>8, <2>9
<1> QED
  BY <1>2, <1>3

(* Under SJF the task that runs is never longer than every other: of two   *)
(* ready tasks it is the shorter (main.c:312).                             *)
THEOREM ShorterFirst == Spec => []LongestWaits
<1>1. Init => LongestWaits
  BY DEF Init, LongestWaits
<1>2. IInv /\ LongestWaits /\ [Next]_vars => LongestWaits'
  <2> SUFFICES ASSUME IInv, LongestWaits, [Next]_vars PROVE LongestWaits'
    OBVIOUS
  <2>1. CASE Schedule
    BY <2>1, ScheduleLongestWaits
  <2>2. CASE Dispatch
    BY <2>2 DEF Dispatch, LongestWaits
  <2>3. CASE WakeOne
    BY <2>3 DEF WakeOne, MoveDue, LongestWaits
  <2>4. CASE WakeNext \/ WakeDone
    BY <2>4 DEF WakeNext, WakeDone, queues, LongestWaits
  <2>5. CASE UNCHANGED vars
    BY <2>5 DEF vars, queues, LongestWaits
  <2> QED
    BY <2>1, <2>2, <2>3, <2>4, <2>5 DEF Next, Horizon
<1> QED
  BY <1>1, <1>2, SpecIInv, PTL DEF Spec

-----------------------------------------------------------------------------
(* What RR and MQ keep to until a task finishes.  A ready task has fewer   *)
(* dispatches behind it than places after it in the queue of all tasks:    *)
(* each dispatch moves it one place forward.                               *)
TurnsLeft ==
  sched_type = "RR" /\ NoneFinished =>
    \A i \in DOMAIN ready_queue : turns[ready_queue[i].ID] + i <= NumTasks

(* At most one ready task is part way through a level, and none that       *)
(* waits: it would come back next to the one that is.                      *)
OneMid ==
  sched_type = "MQ" /\ NoneFinished =>
    /\ \A i, j \in MidLevel : i = j
    /\ \A k \in DOMAIN waiting_queue : ~middleOfQueue(waiting_queue[k])

(* The tasks of the file are at the start of a level, as those of          *)
(* taskset.txt are.                                                        *)
StartOfLevel == Priorities \subseteq {1, 2, 4, 7}

(* What OS_wakeup_n does with one task.                                    *)
LEMMA WakeFacts ==
  ASSUME IInv, WakeOne
  PROVE  \E i \in DOMAIN waiting_queue :
           /\ DOMAIN ready_queue' = 1 .. Len(ready_queue) + 1
           /\ \A k \in DOMAIN ready_queue : ready_queue'[k] = ready_queue[k]
           /\ LET new == ready_queue'[Len(ready_queue) + 1]
              IN  /\ new.ID = waiting_queue[i].ID
                  /\ new.quantum = waiting_queue[i].quantum
                  /\ new.priority = waiting_queue[i].priority
           /\ turns' = [turns EXCEPT ![waiting_queue[i].ID] = 0]
           /\ \A k \in DOMAIN waiting_queue' :
                \E m \in DOMAIN waiting_queue : waiting_queue'[k] = waiting_queue[m]
           /\ \A m \in DOMAIN waiting_queue :
                m = i \/ \E k \in DOMAIN waiting_queue' : waiting_queue'[k] = waiting_queue[m]
<1> DEFINE i == cursor
<1>0. i \in DOMAIN waiting_queue
  BY DEF WakeOne, MoveDue, Due
<1>1. PICK a \in malloc(ready_queue, waiting_queue) :
        ready_queue' = push(ready_queue, waiting_queue[i], a)
  BY DEF WakeOne, MoveDue
<1>2. /\ waiting_queue' = remove_node(waiting_queue, i)
      /\ turns' = [turns EXCEPT ![waiting_queue[i].ID] = 0]
  BY DEF WakeOne, MoveDue
<1> HIDE DEF i
<1>3. /\ waiting_queue \in Seq(TaskRec) /\ ready_queue \in Seq(TaskRec)
      /\ Len(waiting_queue) \in Nat /\ Len(ready_queue) \in Nat
      /\ DOMAIN waiting_queue = 1 .. Len(waiting_queue)
      /\ DOMAIN ready_queue = 1 .. Len(ready_queue)
      /\ waiting_queue[i] \in TaskRec
  BY <1>0, QueueDomains DEF IInv
<1>4. a \in Addr
  BY DEF malloc
<1>5. /\ ready_queue' \in Seq(TaskRec) /\ Len(ready_queue') = Len(ready_queue) + 1
      /\ \A k \in 1 .. Len(ready_queue) : ready_queue'[k] = ready_queue[k]
      /\ ready_queue'[Len(ready_queue) + 1] = [waiting_queue[i] EXCEPT !.addr = a]
  BY <1>1, <1>3, <1>4, PushElements
<1>6. DOMAIN ready_queue' = 1 .. Len(ready_queue) + 1
  BY <1>5, LenProperties
<1>7. LET new == ready_queue'[Len(ready_queue) + 1]
      IN  /\ new.ID = waiting_queue[i].ID
          /\ new.quantum = waiting_queue[i].quantum
          /\ new.priority = waiting_queue[i].priority
  BY <1>3, <1>5 DEF TaskRec
<1>8. /\ waiting_queue' \in Seq(TaskRec) /\ Len(waiting_queue') = Len(waiting_queue) - 1
      /\ \A k \in 1 .. Len(waiting_queue) - 1 :
           waiting_queue'[k] = IF k < i THEN waiting_queue[k] ELSE waiting_queue[k + 1]
  BY <1>0, <1>2, <1>3, RemoveElements
<1>9. DOMAIN waiting_queue' = 1 .. Len(waiting_queue) - 1
  BY <1>8, LenProperties
<1>10. ASSUME NEW k \in DOMAIN waiting_queue'
       PROVE  \E m \in DOMAIN waiting_queue : waiting_queue'[k] = waiting_queue[m]
  <2>1. k \in DOMAIN waiting_queue /\ k + 1 \in DOMAIN waiting_queue
    BY <1>3, <1>9
  <2>2. waiting_queue'[k] = waiting_queue[k] \/ waiting_queue'[k] = waiting_queue[k + 1]
    BY <1>8, <1>9
  <2> QED
    BY <2>1, <2>2
<1>11. ASSUME NEW m \in DOMAIN waiting_queue, m # i
       PROVE  \E k \in DOMAIN waiting_queue' : waiting_queue'[k] = waiting_queue[m]
  <2>1. CASE m < i
    <3>1. m \in DOMAIN waiting_queue' /\ waiting_queue'[m] = waiting_queue[m]
      BY <2>1, <1>0, <1>3, <1>8, <1>9
    <3> QED
      BY <3>1
  <2>2. CASE ~(m < i)
    <3>1. m - 1 \in 1 .. Len(waiting_queue) - 1 /\ ~(m - 1 < i) /\ m - 1 + 1 = m
      BY <2>2, <1>0, <1>3, <1>11
    <3>2. waiting_queue'[m - 1] = waiting_queue[m]
      BY <3>1, <1>8
    <3> QED
      BY <3>1, <3>2, <1>9
  <2> QED
    BY <2>1, <2>2
<1>12. \A k \in DOMAIN ready_queue : ready_queue'[k] = ready_queue[k]
  BY <1>3, <1>5
<1> QED
  BY <1>0, <1>2, <1>6, <1>7, <1>10, <1>11, <1>12, Zenon

(* What dispatch_n does when the task that runs does not finish.           *)
LEMMA RunFacts ==
  ASSUME IInv, Dispatch, ready_queue # << >>, NoneFinished'
  PROVE  /\ waiting_queue' = waiting_queue /\ sched_type' = sched_type
         /\ DOMAIN ready_queue' = DOMAIN ready_queue
         /\ \A k \in DOMAIN ready_queue :
              k < Len(ready_queue) => ready_queue'[k] = ready_queue[k + 1]
         /\ LET last == ready_queue'[Len(ready_queue)]
            IN  /\ last.ID = ready_queue[1].ID
                /\ last.priority = ready_queue[1].priority
                /\ last.quantum = ready_queue[1].quantum - 1
         /\ turns'[ready_queue[1].ID] = 0
         /\ \A k \in DOMAIN ready_queue :
              k # 1 => turns'[ready_queue[k].ID] = turns[ready_queue[k].ID] + 1
<1> DEFINE task == [ready_queue[1] EXCEPT !.quantum = @ - 1]
           q == [ready_queue EXCEPT ![1] = task]
           next == [Head(q) EXCEPT !.release_time = @ + Head(q).period]
<1>0. Tidy(ready_queue, waiting_queue)
  BY DEF IInv, QueuesTidy
<1>1. /\ 1 \in DOMAIN ready_queue /\ ready_queue[1] \in TaskRec
      /\ Len(ready_queue) \in Nat \ {0} /\ ready_queue \in Seq(TaskRec)
      /\ DOMAIN ready_queue = 1 .. Len(ready_queue)
      /\ \A k \in DOMAIN ready_queue : ready_queue[k] \in TaskRec
      /\ waiting_queue \in Seq(TaskRec) /\ Len(waiting_queue) \in Nat
  BY QueueDomains DEF IInv
<1>2. /\ task \in TaskRec /\ task.ID = ready_queue[1].ID /\ task.addr = ready_queue[1].addr
      /\ task.priority = ready_queue[1].priority /\ task.quantum = ready_queue[1].quantum - 1
      /\ task.quantum \in Int
  <2>1. ready_queue[1] \in TaskRec
    BY <1>1
  <2> QED
    BY <2>1 DEF TaskRec
<1>3. /\ turns' = [t \in Task |-> IF t = task.ID THEN 0
                                 ELSE IF t \in IDsOf(q) THEN turns[t] + 1 ELSE turns[t]]
      /\ \/ ready_queue' = first_to_last(q) /\ UNCHANGED waiting_queue
         \/ /\ task.quantum <= 0
            /\ \E a \in malloc(q, waiting_queue) : waiting_queue' = push(waiting_queue, next, a)
            /\ ready_queue' = first_to_last(Tail(q))
  BY DispatchFacts, Zenon
<1> HIDE DEF task
<1>4. q \in Seq(TaskRec) /\ Len(q) = Len(ready_queue) /\ q[1] = task
  BY <1>0, <1>1, <1>2, AgeTidy DEF Tidy
<1>5. \A k \in DOMAIN ready_queue : k # 1 => q[k] = ready_queue[k]
  OBVIOUS
<1>6. DOMAIN q = DOMAIN ready_queue
  OBVIOUS
<1>7. \A k \in DOMAIN ready_queue : ready_queue[k].ID \in IDsOf(q)
  BY <1>1, <1>2, <1>4, <1>5, <1>6 DEF IDsOf
<1> HIDE DEF q
<1>8. Head(q) = task
  <2>1. q # << >>
    BY <1>1, <1>4
  <2> QED
    BY <1>4, <2>1
<1>9. ready_queue' = first_to_last(q) /\ UNCHANGED waiting_queue
  <2>1. SUFFICES ASSUME NEW a \in malloc(q, waiting_queue), task.quantum <= 0,
                        waiting_queue' = push(waiting_queue, next, a)
                 PROVE  FALSE
    BY <1>3
  <2>2. Periods \subseteq Nat
    BY SchedulerAssumption
  <2>3. next \in TaskRec /\ next.quantum = task.quantum
    BY <1>2, <1>8, <2>2 DEF TaskRec
  <2> HIDE DEF next
  <2>4. a \in Addr
    BY DEF malloc
  <2>5. /\ waiting_queue' \in Seq(TaskRec) /\ Len(waiting_queue') = Len(waiting_queue) + 1
        /\ waiting_queue'[Len(waiting_queue) + 1] = [next EXCEPT !.addr = a]
    BY <1>1, <2>1, <2>3, <2>4, PushElements
  <2>6. Len(waiting_queue) + 1 \in DOMAIN waiting_queue'
    BY <1>1, <2>5, LenProperties
  <2>7. waiting_queue'[Len(waiting_queue) + 1].quantum = task.quantum
    BY <2>3, <2>5 DEF TaskRec
  <2>8. ~(task.quantum > 0)
    BY <1>2, <2>1
  <2> QED
    BY <2>6, <2>7, <2>8 DEF NoneFinished
<1>10. /\ ready_queue' \in Seq(TaskRec) /\ Len(ready_queue') = Len(ready_queue)
       /\ \A k \in 1 .. Len(ready_queue) :
            ready_queue'[k] = IF k < Len(ready_queue) THEN q[k + 1] ELSE q[1]
  BY <1>4, <1>9, RotateElements
<1>11. DOMAIN ready_queue' = DOMAIN ready_queue
  BY <1>1, <1>10, LenProperties
<1>12. ASSUME NEW k \in DOMAIN ready_queue, k < Len(ready_queue)
       PROVE  ready_queue'[k] = ready_queue[k + 1]
  <2>1. k + 1 \in DOMAIN ready_queue /\ k + 1 # 1
    BY <1>1, <1>12
  <2>2. ready_queue'[k] = q[k + 1]
    BY <1>1, <1>10, <1>12
  <2> QED
    BY <1>5, <2>1, <2>2
<1>13. ready_queue'[Len(ready_queue)] = task
  BY <1>1, <1>4, <1>10
<1>14. \A k \in DOMAIN ready_queue : ready_queue[k].ID \in Task
  BY <1>1 DEF TaskRec
<1>15. turns'[ready_queue[1].ID] = 0
  BY <1>1, <1>2, <1>3, <1>14
<1>16. \A k \in DOMAIN ready_queue : k # 1 => ready_queue[k].ID # task.ID
  BY <1>0, <1>1, <1>2 DEF Tidy, Distinct
<1>17. \A k \in DOMAIN ready_queue :
         k # 1 => turns'[ready_queue[k].ID] = turns[ready_queue[k].ID] + 1
  BY <1>3, <1>7, <1>14, <1>16
<1>18. sched_type' = sched_type
  BY DEF Dispatch
<1> QED
  BY <1>2, <1>9, <1>11, <1>12, <1>13, <1>15, <1>17, <1>18

(* Scheduling under RR leaves the queue alone; under MQ it puts the task   *)
(* to run in front, sunk by one priority.                                  *)
LEMMA MQFacts ==
  ASSUME IInv, Schedule, sched_type = "MQ", ready_queue # << >>
  PROVE  /\ taskToRun \in DOMAIN ready_queue
         /\ DOMAIN ready_queue' = DOMAIN ready_queue
         /\ ready_queue'[1].quantum = ready_queue[taskToRun].quantum
         /\ \A k \in DOMAIN ready_queue :
              k # 1 => ready_queue'[k] = IF k <= taskToRun THEN ready_queue[k - 1]
                                         ELSE ready_queue[k]
         /\ \A k \in DOMAIN ready_queue :
              k < taskToRun => ready_queue'[k + 1] = ready_queue[k]
<1> DEFINE m == taskToRun
<1>0. QueuesTidy /\ UNCHANGED waiting_queue
  BY DEF IInv, Schedule
<1>1. m \in DOMAIN ready_queue
  BY <1>0, TaskToRunFacts
<1>2. MoveToFront(m, sunk(ready_queue[m]))
  BY DEF Schedule
<1>3. /\ \A i \in DOMAIN ready_queue : ready_queue[i] \in TaskRec
      /\ Len(ready_queue) \in Nat /\ DOMAIN ready_queue = 1 .. Len(ready_queue)
  BY <1>0, QueueDomains
<1> HIDE DEF m
<1>4. /\ sunk(ready_queue[m]) \in TaskRec /\ sunk(ready_queue[m]).ID = ready_queue[m].ID
      /\ sunk(ready_queue[m]).quantum = ready_queue[m].quantum
  <2>1. ready_queue[m] \in TaskRec
    BY <1>1, <1>3
  <2> QED
    BY <2>1 DEF sunk, TaskRec
<1>5. /\ QueuesTidy' /\ Len(ready_queue') = Len(ready_queue)
      /\ ready_queue'[1] = [sunk(ready_queue[m]) EXCEPT !.addr = exec']
      /\ \A k \in 2 .. Len(ready_queue) :
           ready_queue'[k] = IF k <= m THEN ready_queue[k - 1] ELSE ready_queue[k]
  BY <1>0, <1>1, <1>2, <1>4, MoveFacts
<1>6. DOMAIN ready_queue' = DOMAIN ready_queue
  BY <1>3, <1>5, LenProperties DEF QueuesTidy, Tidy
<1>7. ready_queue'[1].quantum = ready_queue[m].quantum
  BY <1>4, <1>5 DEF TaskRec
<1>8. \A k \in DOMAIN ready_queue :
        k # 1 => ready_queue'[k] = IF k <= m THEN ready_queue[k - 1] ELSE ready_queue[k]
  BY <1>3, <1>5
<1>9. ASSUME NEW k \in DOMAIN ready_queue, k < m
      PROVE  ready_queue'[k + 1] = ready_queue[k]
  <2>1. k + 1 \in 2 .. Len(ready_queue) /\ k + 1 <= m /\ k + 1 - 1 = k
    BY <1>1, <1>3, <1>9
  <2>2. ready_queue'[k + 1] = ready_queue[k + 1 - 1]
    BY <1>5, <2>1
  <2> QED
    BY <2>1, <2>2
<1> QED
  BY <1>1, <1>6, <1>7, <1>8, <1>9 DEF m

(* A task that has finished stays so: its quanta are not set again.        *)
LEMMA FinishedStays ==
  ASSUME IInv, Next, sched_type # "SJF", NoneFinished'
  PROVE  NoneFinished
<1>0. /\ \A i \in DOMAIN ready_queue : ready_queue[i] \in TaskRec
      /\ Len(ready_queue) \in Nat /\ DOMAIN ready_queue = 1 .. Len(ready_queue)
      /\ ready_queue # << >> <=> Len(ready_queue) > 0
  BY QueueDomains DEF IInv
<1>1. CASE WakeOne
  <2>1. PICK i \in DOMAIN waiting_queue :
           /\ DOMAIN ready_queue' = 1 .. Len(ready_queue) + 1
           /\ \A k \in DOMAIN ready_queue : ready_queue'[k] = ready_queue[k]
           /\ ready_queue'[Len(ready_queue) + 1].quantum = waiting_queue[i].quantum
           /\ \A m \in DOMAIN waiting_queue :
                m = i \/ \E k \in DOMAIN waiting_queue' : waiting_queue'[k] = waiting_queue[m]
    BY <1>1, WakeFacts
  <2>2. DOMAIN ready_queue \subseteq DOMAIN ready_queue'
    BY <2>1, <1>0
  <2>3. Len(ready_queue) + 1 \in DOMAIN ready_queue'
    BY <2>1, <1>0
  <2> QED
    BY <2>1, <2>2, <2>3 DEF NoneFinished
<1>2. CASE WakeNext \/ WakeDone \/ Horizon
  BY <1>2 DEF WakeNext, WakeDone, Horizon, vars, queues, NoneFinished
<1>3. CASE Schedule
  <2>1. UNCHANGED <<waiting_queue, sched_type>>
    BY <1>3 DEF Schedule
  <2>2. CASE ready_queue = << >> \/ sched_type = "RR"
    <3>1. UNCHANGED ready_queue
      BY <1>3, <2>2 DEF Schedule
    <3> QED
      BY <2>1, <3>1 DEF NoneFinished
  <2>3. CASE ready_queue # << >> /\ sched_type = "MQ"
    <3> DEFINE m == taskToRun
    <3>1. /\ m \in DOMAIN ready_queue
          /\ DOMAIN ready_queue' = DOMAIN ready_queue
          /\ ready_queue'[1].quantum = ready_queue[m].quantum
          /\ \A k \in DOMAIN ready_queue :
               k # 1 => ready_queue'[k] = IF k <= m THEN ready_queue[k - 1] ELSE ready_queue[k]
          /\ \A k \in DOMAIN ready_queue : k < m => ready_queue'[k + 1] = ready_queue[k]
      BY <1>3, <2>3, MQFacts
    <3> HIDE DEF m
    <3>2. ASSUME NEW k \in DOMAIN ready_queue
          PROVE  ready_queue[k].quantum > 0
      <4>1. CASE k = m
        BY <4>1, <1>0, <3>1 DEF NoneFinished
      <4>2. CASE k < m
        <5>1. k + 1 \in DOMAIN ready_queue
          BY <4>2, <1>0, <3>1
        <5>2. ready_queue'[k + 1] = ready_queue[k]
          BY <4>2, <3>1
        <5> QED
          BY <5>1, <5>2, <3>1 DEF NoneFinished
      <4>3. CASE k > m
        <5>1. k # 1 /\ ~(k <= m)
          BY <4>3, <1>0, <3>1
        <5>2. ready_queue'[k] = ready_queue[k]
          BY <5>1, <3>1
        <5> QED
          BY <5>2, <3>1 DEF NoneFinished
      <4> QED
        BY <4>1, <4>2, <4>3, <1>0, <3>1
    <3> QED
      BY <2>1, <3>2 DEF NoneFinished
  <2> QED
    BY <2>2, <2>3 DEF IInv, Scalars
<1>4. CASE Dispatch /\ ready_queue = << >>
  <2>1. UNCHANGED queues
    BY <1>4, DispatchFacts
  <2> QED
    BY <2>1 DEF queues, NoneFinished
<1>5. CASE Dispatch /\ ready_queue # << >>
  <2>1. /\ waiting_queue' = waiting_queue /\ DOMAIN ready_queue' = DOMAIN ready_queue
        /\ \A k \in DOMAIN ready_queue :
             k < Len(ready_queue) => ready_queue'[k] = ready_queue[k + 1]
        /\ ready_queue'[Len(ready_queue)].quantum = ready_queue[1].quantum - 1
    BY <1>5, RunFacts
  <2>2. ASSUME NEW k \in DOMAIN ready_queue
        PROVE  ready_queue[k].quantum > 0
    <3>1. CASE k = 1
      <4>1. Len(ready_queue) \in DOMAIN ready_queue' /\ ready_queue[1].quantum \in Int
        BY <1>0, <1>5, <2>1, <3>1 DEF TaskRec
      <4>2. ready_queue[1].quantum - 1 > 0
        BY <4>1, <2>1 DEF NoneFinished
      <4> QED
        BY <3>1, <4>1, <4>2
    <3>2. CASE k # 1
      <4>1. /\ k - 1 \in DOMAIN ready_queue /\ k - 1 < Len(ready_queue)
            /\ k - 1 + 1 = k
        BY <1>0, <3>2
      <4>2. ready_queue'[k - 1] = ready_queue[k]
        BY <4>1, <2>1
      <4> QED
        BY <4>1, <4>2, <2>1 DEF NoneFinished
    <3> QED
      BY <3>1, <3>2
  <2> QED
    BY <2>1, <2>2 DEF NoneFinished
<1> QED
  BY <1>1, <1>2, <1>3, <1>4, <1>5 DEF Next

(* Every step keeps what is left of the turns of each ready task.          *)
LEMMA NextTurnsLeft ==
  ASSUME IInv, TurnsLeft, [Next]_vars
  PROVE  TurnsLeft'
<1>1. CASE UNCHANGED vars
  BY <1>1 DEF vars, queues, TurnsLeft, NoneFinished
<1>2. CASE Next
  <2> SUFFICES ASSUME sched_type' = "RR", NoneFinished'
               PROVE  \A i \in DOMAIN ready_queue' :
                        turns'[ready_queue'[i].ID] + i <= NumTasks
    BY DEF TurnsLeft
  <2>0. sched_type = "RR"
    BY <1>2 DEF Next, WakeOne, MoveDue, WakeNext, WakeDone, Schedule, Dispatch, Horizon,
                  vars
  <2>1. NoneFinished
    BY <1>2, <2>0, FinishedStays
  <2>2. \A i \in DOMAIN ready_queue : turns[ready_queue[i].ID] + i <= NumTasks
    BY <2>0, <2>1 DEF TurnsLeft
  <2>3. /\ \A i \in DOMAIN ready_queue : ready_queue[i].ID \in Task
        /\ \A i \in DOMAIN waiting_queue : waiting_queue[i].ID \in Task
        /\ DOMAIN ready_queue = 1 .. Len(ready_queue) /\ Len(ready_queue) \in Nat
        /\ DOMAIN waiting_queue = 1 .. Len(waiting_queue) /\ Len(waiting_queue) \in Nat
        /\ Len(ready_queue) + Len(waiting_queue) = NumTasks
        /\ ready_queue # << >> <=> Len(ready_queue) > 0
    BY QueueDomains DEF TaskRec, IInv, QueuesTidy
  <2>4. turns \in [Task -> Nat] /\ NumTasks \in Nat
    BY SchedulerAssumption DEF IInv, Scalars
  <2>5. CASE WakeOne
    <3>1. PICK i \in DOMAIN waiting_queue :
            /\ DOMAIN ready_queue' = 1 .. Len(ready_queue) + 1
            /\ \A k \in DOMAIN ready_queue : ready_queue'[k] = ready_queue[k]
            /\ ready_queue'[Len(ready_queue) + 1].ID = waiting_queue[i].ID
            /\ turns' = [turns EXCEPT ![waiting_queue[i].ID] = 0]
      BY <2>5, WakeFacts
    <3>2. \A k \in DOMAIN ready_queue : ready_queue[k].ID # waiting_queue[i].ID
      BY DEF IInv, QueuesTidy, Tidy, Apart
    <3>3. Len(waiting_queue) > 0 /\ Len(ready_queue) + 1 <= NumTasks
      BY <2>3
    <3> TAKE k \in DOMAIN ready_queue'
    <3>4. CASE k \in DOMAIN ready_queue
      <4>1. ready_queue'[k] = ready_queue[k]
        BY <3>1, <3>4
      <4>2. turns'[ready_queue[k].ID] = turns[ready_queue[k].ID]
        BY <2>3, <2>4, <3>1, <3>2, <3>4
      <4> QED
        BY <2>2, <3>4, <4>1, <4>2
    <3>5. CASE k \notin DOMAIN ready_queue
      <4>1. k = Len(ready_queue) + 1
        BY <2>3, <3>1, <3>5
      <4>2. turns'[ready_queue'[k].ID] = 0
        BY <2>3, <2>4, <3>1, <4>1
      <4> QED
        BY <2>3, <3>3, <4>1, <4>2
    <3> QED
      BY <3>4, <3>5
  <2>6. CASE WakeNext \/ WakeDone \/ Horizon
    BY <2>2, <2>6 DEF WakeNext, WakeDone, Horizon, vars, queues
  <2>7. CASE Schedule
    <3>1. UNCHANGED <<ready_queue, turns>>
      BY <2>0, <2>7 DEF Schedule
    <3> QED
      BY <2>2, <3>1
  <2>8. CASE Dispatch /\ ready_queue = << >>
    <3>1. UNCHANGED <<ready_queue, turns>>
      BY <2>8, DispatchFacts DEF queues
    <3> QED
      BY <2>2, <3>1
  <2>9. CASE Dispatch /\ ready_queue # << >>
    <3>1. /\ DOMAIN ready_queue' = DOMAIN ready_queue
          /\ \A k \in DOMAIN ready_queue :
               k < Len(ready_queue) => ready_queue'[k] = ready_queue[k + 1]
          /\ ready_queue'[Len(ready_queue)].ID = ready_queue[1].ID
          /\ turns'[ready_queue[1].ID] = 0
          /\ \A k \in DOMAIN ready_queue :
               k # 1 => turns'[ready_queue[k].ID] = turns[ready_queue[k].ID] + 1
      BY <2>9, RunFacts
    <3> TAKE k \in DOMAIN ready_queue'
    <3>2. CASE k < Len(ready_queue)
      <4>1. k + 1 \in DOMAIN ready_queue /\ k + 1 # 1 /\ k \in Nat
        BY <2>3, <3>1, <3>2
      <4>2. PICK j \in DOMAIN ready_queue : j = k + 1 /\ j # 1
        BY <4>1
      <4>3. turns'[ready_queue'[k].ID] = turns[ready_queue[j].ID] + 1
        BY <3>1, <3>2, <4>2
      <4>4. turns[ready_queue[j].ID] + j <= NumTasks /\ turns[ready_queue[j].ID] \in Nat
        BY <2>2, <2>3, <2>4, <4>2
      <4> QED
        BY <2>4, <4>1, <4>2, <4>3, <4>4
    <3>3. CASE ~(k < Len(ready_queue))
      <4>1. k = Len(ready_queue) /\ k <= NumTasks
        BY <2>3, <2>4, <3>1, <3>3
      <4>2. turns'[ready_queue'[k].ID] = 0
        BY <3>1, <4>1
      <4> QED
        BY <2>3, <4>1, <4>2
    <3> QED
      BY <3>2, <3>3
  <2> QED
    BY <1>2, <2>5, <2>6, <2>7, <2>8, <2>9 DEF Next
<1> QED
  BY <1>1, <1>2

(* Every step leaves at most one ready task part way through a level.      *)
LEMMA NextOneMid ==
  ASSUME IInv, OneMid, [Next]_vars
  PROVE  OneMid'
<1>1. CASE UNCHANGED vars
  BY <1>1 DEF vars, queues, OneMid, NoneFinished, MidLevel
<1>2. CASE Next
  <2> SUFFICES ASSUME sched_type' = "MQ", NoneFinished'
               PROVE  /\ \A i, j \in MidLevel' : i = j
                      /\ \A k \in DOMAIN waiting_queue' : ~middleOfQueue(waiting_queue'[k])
    BY DEF OneMid
  <2>0. sched_type = "MQ"
    BY <1>2 DEF Next, WakeOne, MoveDue, WakeNext, WakeDone, Schedule, Dispatch, Horizon,
                  vars
  <2>1. NoneFinished
    BY <1>2, <2>0, FinishedStays
  <2>2. /\ \A i, j \in MidLevel : i = j
        /\ \A k \in DOMAIN waiting_queue : ~middleOfQueue(waiting_queue[k])
    BY <2>0, <2>1 DEF OneMid
  <2>3. /\ DOMAIN ready_queue = 1 .. Len(ready_queue) /\ Len(ready_queue) \in Nat
        /\ ready_queue # << >> <=> Len(ready_queue) > 0
    BY QueueDomains DEF IInv
  <2>4. MidLevel' = {i \in DOMAIN ready_queue' : middleOfQueue(ready_queue'[i])}
    BY DEF MidLevel, middleOfQueue
  <2>5. CASE WakeOne
    <3>1. PICK i \in DOMAIN waiting_queue :
            /\ DOMAIN ready_queue' = 1 .. Len(ready_queue) + 1
            /\ \A k \in DOMAIN ready_queue : ready_queue'[k] = ready_queue[k]
            /\ ready_queue'[Len(ready_queue) + 1].priority = waiting_queue[i].priority
            /\ \A k \in DOMAIN waiting_queue' :
                 \E m \in DOMAIN waiting_queue : waiting_queue'[k] = waiting_queue[m]
      BY <2>5, WakeFacts
    <3>2. ~middleOfQueue(ready_queue'[Len(ready_queue) + 1])
      BY <2>2, <3>1 DEF middleOfQueue
    <3>3. \A k \in DOMAIN ready_queue' : k \in DOMAIN ready_queue \/ k = Len(ready_queue) + 1
      BY <2>3, <3>1
    <3>4. MidLevel' \subseteq MidLevel
      BY <2>4, <3>1, <3>2, <3>3 DEF MidLevel
    <3> QED
      BY <2>2, <3>1, <3>4
  <2>6. CASE WakeNext \/ WakeDone \/ Horizon
    BY <2>2, <2>6 DEF WakeNext, WakeDone, Horizon, vars, queues, MidLevel
  <2>7. CASE Schedule
    <3>1. waiting_queue' = waiting_queue
      BY <2>7 DEF Schedule
    <3>2. CASE ready_queue = << >>
      <4>1. ready_queue' = ready_queue
        BY <2>7, <3>2 DEF Schedule
      <4> QED
        BY <2>2, <2>4, <3>1, <4>1 DEF MidLevel
    <3>3. CASE ready_queue # << >>
      <4> DEFINE m == taskToRun
      <4>1. /\ m \in DOMAIN ready_queue /\ DOMAIN ready_queue' = DOMAIN ready_queue
            /\ \A k \in DOMAIN ready_queue :
                 k # 1 => ready_queue'[k] = IF k <= m THEN ready_queue[k - 1] ELSE ready_queue[k]
        BY <2>0, <2>7, <3>3, MQFacts
      <4>2. MidLevel # {} => m \in MidLevel
        BY <3>3, TaskToRunFacts DEF IInv
      <4> HIDE DEF m
      <4>3. \A k \in DOMAIN ready_queue : k # m => ~middleOfQueue(ready_queue[k])
        BY <2>2, <4>2 DEF MidLevel
      <4>4. ASSUME NEW k \in DOMAIN ready_queue, k # 1
            PROVE  ~middleOfQueue(ready_queue'[k])
        <5>1. CASE k <= m
          <6>1. k - 1 \in DOMAIN ready_queue /\ k - 1 # m
            BY <2>3, <4>1, <4>4, <5>1
          <6>2. ready_queue'[k] = ready_queue[k - 1]
            BY <4>1, <4>4, <5>1
          <6> QED
            BY <4>3, <6>1, <6>2
        <5>2. CASE ~(k <= m)
          <6>1. k # m
            BY <2>3, <4>1, <5>2
          <6>2. ready_queue'[k] = ready_queue[k]
            BY <4>1, <4>4, <5>2
          <6> QED
            BY <4>3, <6>1, <6>2
        <5> QED
          BY <5>1, <5>2
      <4>5. MidLevel' \subseteq {1}
        BY <2>4, <4>1, <4>4
      <4> QED
        BY <2>2, <3>1, <4>5
    <3> QED
      BY <3>2, <3>3
  <2>8. CASE Dispatch /\ ready_queue = << >>
    <3>1. UNCHANGED queues
      BY <2>8, DispatchFacts
    <3> QED
      BY <2>2, <2>4, <3>1 DEF queues, MidLevel
  <2>9. CASE Dispatch /\ ready_queue # << >>
    <3> DEFINE from(k) == IF k < Len(ready_queue) THEN k + 1 ELSE 1
    <3>1. /\ waiting_queue' = waiting_queue /\ DOMAIN ready_queue' = DOMAIN ready_queue
          /\ \A k \in DOMAIN ready_queue :
               k < Len(ready_queue) => ready_queue'[k] = ready_queue[k + 1]
          /\ ready_queue'[Len(ready_queue)].priority = ready_queue[1].priority
      BY <2>9, RunFacts
    <3>2. ASSUME NEW k \in DOMAIN ready_queue
          PROVE  /\ from(k) \in DOMAIN ready_queue
                 /\ ready_queue'[k].priority = ready_queue[from(k)].priority
      <4>1. CASE k < Len(ready_queue)
        BY <2>3, <3>1, <4>1
      <4>2. CASE ~(k < Len(ready_queue))
        <5>1. k = Len(ready_queue) /\ 1 \in DOMAIN ready_queue
          BY <2>3, <4>2
        <5> QED
          BY <3>1, <4>2, <5>1
      <4> QED
        BY <4>1, <4>2
    <3>3. \A j, k \in DOMAIN ready_queue : from(j) = from(k) => j = k
      BY <2>3
    <3> HIDE DEF from
    <3>4. \A k \in MidLevel' : k \in DOMAIN ready_queue /\ from(k) \in MidLevel
      BY <2>4, <3>1, <3>2 DEF MidLevel, middleOfQueue
    <3> QED
      BY <2>2, <3>1, <3>3, <3>4
  <2> QED
    BY <1>2, <2>5, <2>6, <2>7, <2>8, <2>9 DEF Next
<1> QED
  BY <1>1, <1>2

(* Under RR no ready task has to wait for as many dispatches as there are  *)
(* tasks, as long as none has finished (main.c:387).                       *)
THEOREM RoundRobinTurns == Spec => []RoundRobin
<1>1. Init => TurnsLeft
  <2>1. DOMAIN << >> = {}
    OBVIOUS
  <2> QED
    BY <2>1 DEF Init, TurnsLeft
<1>2. IInv /\ TurnsLeft => RoundRobin
  <2> SUFFICES ASSUME IInv, TurnsLeft, sched_type = "RR", NoneFinished,
                      NEW i \in DOMAIN ready_queue
               PROVE  turns[ready_queue[i].ID] < NumTasks
    BY DEF RoundRobin
  <2>1. ready_queue[i] \in TaskRec /\ i \in Nat \ {0}
    BY QueueDomains DEF IInv
  <2>2. turns[ready_queue[i].ID] \in Nat /\ NumTasks \in Nat
    BY <2>1, SchedulerAssumption DEF IInv, Scalars, TaskRec
  <2>3. turns[ready_queue[i].ID] + i <= NumTasks
    BY DEF TurnsLeft
  <2> QED
    BY <2>1, <2>2, <2>3
<1>3. IInv /\ TurnsLeft /\ [Next]_vars => TurnsLeft'
  BY NextTurnsLeft
<1> QED
  BY <1>1, <1>2, <1>3, SpecIInv, PTL DEF Spec

(* Under MQ no two ready tasks are both part way through a level, as long  *)
(* as none has finished: nodeCompare goes on with the one that is          *)
(* (main.c:287).  The tasks start at the start of a level.                 *)
THEOREM LevelsNotPreempted == StartOfLevel /\ Spec => []OneMidLevel
<1>1. StartOfLevel /\ Init => OneMid
  <2> SUFFICES ASSUME StartOfLevel, Init PROVE OneMid
    OBVIOUS
  <2>1. MidLevel = {}
    BY DEF Init, MidLevel
  <2>2. PICK per \in [Task -> Periods], rel \in [Task -> ReleaseTimes],
             pri \in [Task -> Priorities], qua \in [Task -> Quanta] :
          waiting_queue = [i \in Task |->
            [ID |-> i, period |-> per[i], release_time |-> rel[i], priority |-> pri[i],
             quantum |-> qua[i], addr |-> i]]
    BY DEF Init
  <2>3. \A k \in DOMAIN waiting_queue : waiting_queue[k].priority \in Priorities
    BY <2>2
  <2>4. \A k \in DOMAIN waiting_queue : ~middleOfQueue(waiting_queue[k])
    BY <2>3 DEF StartOfLevel, middleOfQueue
  <2> QED
    BY <2>1, <2>4 DEF OneMid
<1>2. IInv /\ OneMid => OneMidLevel
  <2> SUFFICES ASSUME IInv, \A i, j \in MidLevel : i = j
               PROVE  Cardinality(MidLevel) <= 1
    BY DEF OneMid, OneMidLevel
  <2>1. CASE MidLevel = {}
    BY <2>1, FS_EmptySet
  <2>2. CASE MidLevel # {}
    <3>1. PICK i : MidLevel = {i}
      BY <2>2
    <3>2. Cardinality(MidLevel) = 1
      BY <3>1, FS_Singleton, Zenon
    <3> QED
      BY <3>2
  <2> QED
    BY <2>1, <2>2
<1>3. IInv /\ OneMid /\ [Next]_vars => OneMid'
  BY NextOneMid
<1> QED
  BY <1>1, <1>2, <1>3, SpecIInv, PTL DEF Spec
=============================================================================
