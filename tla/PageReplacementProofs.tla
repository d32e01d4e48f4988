------------------------ MODULE PageReplacementProofs ------------------------
(***************************************************************************)
(* The simulator of Lab_5/main.c for any number of frames and any          *)
(* reference string.  The last part proves OPT optimal: FewestFrom does    *)
(* satisfy its equations, one page that differs is worth one fault at the  *)
(* most, and what has been paid with the least still to be paid is kept.   *)
(***************************************************************************)
EXTENDS PageReplacement, FiniteSetTheorems, WellFoundedInduction, TLAPS

(* No fresh frame holds a page number of the reference string by chance.   *)
FreshUnreferenced == FreshPage \cap Page = {}

FrameRec == [page : Page \cup {NoPage}, time : Nat, free : BOOLEAN,
             timeSinceSwitch : Nat, timesUsed : Nat]

Seen == {refs[j] : j \in 1 .. i}

FreshFree == \A f \in FreeFrames : frames[f].page \notin Page

PagesApart == \A f, g \in Occupied : frames[f].page = frames[g].page => f = g

(* What is in memory has been referenced, and until memory is full nothing *)
(* that has been referenced is missing.                                    *)
NoneForgotten ==
  /\ InMemory \subseteq Seen
  /\ FreeFrames # {} => Seen \subseteq InMemory

IInv == TypeOK /\ FreshFree /\ PagesApart /\ NoneForgotten

(* The page loaded earlier has aged more, except that a hit may have aged  *)
(* the later one alone, in a frame that comes before.                      *)
OlderAged ==
  \A f, g \in Frame :
    loaded[g] < loaded[f] /\ (g < f \/ \A h \in hits : h <= loaded[f]) =>
      frames[g].timeSinceSwitch > frames[f].timeSinceSwitch
-----------------------------------------------------------------------------
(* A set of naturals that is not empty has a least element.                *)
LEMMA LeastNat ==
  ASSUME NEW S \in SUBSET Nat, S # {}
  PROVE  \E x \in S : \A y \in S : x <= y
<1> DEFINE R == OpToRel(<, Nat)
<1>1. IsWellFoundedOn(R, Nat)
  BY NatLessThanWellFounded
<1>2. \E x \in S : \A y \in S : ~(<<y, x>> \in R)
  BY <1>1, WFMin
<1>3. \A x, y \in Nat : x < y => <<x, y>> \in R
  BY DEF OpToRel
<1> HIDE DEF R
<1>4. \A x, y \in Nat : ~(x <= y) => y < x
  OBVIOUS
<1> QED
  BY <1>2, <1>3, <1>4

(* Min chooses the least element.                                          *)
LEMMA MinLeast ==
  ASSUME NEW S \in SUBSET Nat, S # {}
  PROVE  Min(S) \in S /\ \A y \in S : Min(S) <= y
BY LeastNat DEF Min

(* The scans for the least and the greatest key name a frame that has it.  *)
LEMMA FirstMinIsLeast ==
  ASSUME NEW key \in [Frame -> Nat]
  PROVE  FirstMin(key) \in Frame /\ \A g \in Frame : key[FirstMin(key)] <= key[g]
<1> DEFINE S == {f \in Frame : \A g \in Frame : key[f] <= key[g]}
           K == {key[f] : f \in Frame}
<1>1. Frame \subseteq Nat /\ 0 \in Frame
  BY PageAssumption DEF PageAssumption, Frame
<1>2. PICK m \in K : \A k \in K : m <= k
  <2>1. K \in SUBSET Nat /\ K # {}
    BY <1>1
  <2> QED
    BY <2>1, LeastNat
<1>3. S \in SUBSET Nat /\ S # {}
  <2>1. PICK f \in Frame : m = key[f]
    BY <1>2
  <2> QED
    BY <1>1, <1>2, <2>1
<1> HIDE DEF S
<1>4. Min(S) \in S
  BY <1>3, MinLeast
<1> QED
  BY <1>4 DEF FirstMin, S

LEMMA FirstMaxIsGreatest ==
  ASSUME NEW key \in [Frame -> Nat], NEW b \in Nat, \A f \in Frame : key[f] <= b
  PROVE  FirstMax(key) \in Frame /\ \A g \in Frame : key[FirstMax(key)] >= key[g]
<1> DEFINE S == {f \in Frame : \A g \in Frame : key[f] >= key[g]}
           K == {b - key[f] : f \in Frame}
<1>1. Frame \subseteq Nat /\ 0 \in Frame
  BY PageAssumption DEF PageAssumption, Frame
<1>2. PICK m \in K : \A k \in K : m <= k
  <2>1. K \in SUBSET Nat /\ K # {}
    BY <1>1
  <2> QED
    BY <2>1, LeastNat
<1>3. S \in SUBSET Nat /\ S # {}
  <2>1. PICK f \in Frame : m = b - key[f]
    BY <1>2
  <2>2. \A g \in Frame : key[f] >= key[g]
    BY <1>2, <2>1
  <2> QED
    BY <1>1, <2>2
<1> HIDE DEF S
<1>4. Min(S) \in S
  BY <1>3, MinLeast
<1> QED
  BY <1>4 DEF FirstMax, S

-----------------------------------------------------------------------------
(* The fields of a frame have their types.                                 *)
LEMMA FieldTypes ==
  ASSUME TypeOK
  PROVE  /\ i \in Nat /\ counter = i /\ i \in Int
         /\ \A f \in Frame :
              /\ frames[f].page \in Page \cup {NoPage} /\ frames[f].free \in BOOLEAN
              /\ frames[f].time \in 0 .. i
              /\ frames[f].timeSinceSwitch \in 0 .. i /\ frames[f].timesUsed \in 0 .. i
              /\ loaded[f] \in 0 .. i
         /\ Frame \subseteq Nat
<1>1. i \in Nat /\ counter = i /\ Frame \subseteq Nat
  BY PageAssumption DEF TypeOK, PageAssumption, Frame
<1>2. ASSUME NEW f \in Frame
      PROVE  /\ frames[f] \in [page : Page \cup {NoPage}, time : 0 .. i, free : BOOLEAN,
                               timeSinceSwitch : 0 .. i, timesUsed : 0 .. i]
             /\ loaded[f] \in 0 .. i
  BY DEF TypeOK
<1> QED
  BY <1>1, <1>2

(* Ageing changes one field of a record.                                   *)
LEMMA RecordFields ==
  ASSUME NEW r \in FrameRec
  PROVE  \A x : x = [r EXCEPT !.timeSinceSwitch = @ + 1] =>
           /\ x \in FrameRec
           /\ x.page = r.page /\ x.free = r.free /\ x.time = r.time
           /\ x.timeSinceSwitch = r.timeSinceSwitch + 1
           /\ x.timesUsed = r.timesUsed
<1>1. r.timeSinceSwitch + 1 \in Nat
  <2>1. r.timeSinceSwitch \in Nat
    BY DEF FrameRec
  <2> QED
    BY <2>1
<1> QED
  BY <1>1 DEF FrameRec

(* A hit changes neither the pages nor which frames are free; the frames   *)
(* before the one that is hit age.                                         *)
LEMMA HitFacts ==
  ASSUME TypeOK, Hit
  PROVE  \E m \in Frame :
           /\ frames[m].page = ref
           /\ \A f \in Frame :
                /\ frames'[f].page = frames[f].page
                /\ frames'[f].free = frames[f].free
                /\ frames'[f].time = IF f = m THEN i + 1 ELSE frames[f].time
                /\ frames'[f].timeSinceSwitch =
                     IF f < m THEN frames[f].timeSinceSwitch + 1
                     ELSE frames[f].timeSinceSwitch
                /\ frames'[f].timesUsed \in {frames[f].timesUsed, frames[f].timesUsed + 1}
           /\ frames' \in [Frame -> FrameRec]
<1> DEFINE m == Min(Matching)
<1>1. m \in Matching
  <2>1. Matching \in SUBSET Nat /\ Matching # {}
    BY FieldTypes DEF Matching, Hit
  <2> QED
    BY <2>1, MinLeast
<1>2. m \in Frame /\ frames[m].page = ref
  BY <1>1 DEF Matching
<1> HIDE DEF m
<1>3. /\ \A f \in Frame : frames[f] \in FrameRec
      /\ counter = i /\ counter + 1 \in Nat
      /\ \A f \in Frame : frames[f].timeSinceSwitch + 1 \in Nat /\ frames[f].timesUsed + 1 \in Nat
  BY FieldTypes DEF TypeOK, FrameRec
<1>4. frames' = [f \in Frame |->
                  IF f < m THEN [frames[f] EXCEPT !.timeSinceSwitch = @ + 1]
                  ELSE IF f = m THEN stamped(frames[f])
                  ELSE frames[f]]
  BY DEF Hit, m
<1>5. \A f \in Frame : f = m => ~(f < m)
  BY <1>2, FieldTypes
<1>6. \A f \in Frame :
        /\ f < m => frames'[f] = [frames[f] EXCEPT !.timeSinceSwitch = @ + 1]
        /\ f = m => frames'[f] = [frames[f] EXCEPT !.time = counter + 1, !.timesUsed = @ + 1]
        /\ ~(f < m) /\ f # m => frames'[f] = frames[f]
  BY <1>4, <1>5, Zenon DEF stamped
<1>7. \A f \in Frame :
        /\ frames'[f] \in FrameRec
        /\ frames'[f].page = frames[f].page
        /\ frames'[f].free = frames[f].free
        /\ frames'[f].time = IF f = m THEN i + 1 ELSE frames[f].time
        /\ frames'[f].timeSinceSwitch =
             IF f < m THEN frames[f].timeSinceSwitch + 1 ELSE frames[f].timeSinceSwitch
        /\ frames'[f].timesUsed \in {frames[f].timesUsed, frames[f].timesUsed + 1}
  <2> SUFFICES ASSUME NEW f \in Frame
      PROVE  /\ frames'[f] \in FrameRec
             /\ frames'[f].page = frames[f].page
             /\ frames'[f].free = frames[f].free
             /\ frames'[f].time = IF f = m THEN i + 1 ELSE frames[f].time
             /\ frames'[f].timeSinceSwitch =
                  IF f < m THEN frames[f].timeSinceSwitch + 1 ELSE frames[f].timeSinceSwitch
             /\ frames'[f].timesUsed \in {frames[f].timesUsed, frames[f].timesUsed + 1}
    OBVIOUS
  <2>1. CASE f < m
    <3>1. f # m /\ frames'[f] = [frames[f] EXCEPT !.timeSinceSwitch = @ + 1]
      BY <1>6, <1>5, <2>1
    <3> QED
      BY <1>3, <2>1, <3>1, RecordFields
  <2>2. CASE f = m
    <3>1. ~(f < m) /\ frames'[f] = [frames[f] EXCEPT !.time = i + 1, !.timesUsed = @ + 1]
      BY <1>3, <1>6, <1>5, <2>2
    <3>2. frames[f] \in FrameRec /\ i + 1 \in Nat
      BY <1>3
    <3>3. /\ frames'[f] \in FrameRec
          /\ frames'[f].page = frames[f].page
          /\ frames'[f].free = frames[f].free
          /\ frames'[f].time = i + 1
          /\ frames'[f].timeSinceSwitch = frames[f].timeSinceSwitch
          /\ frames'[f].timesUsed = frames[f].timesUsed + 1
      BY <1>3, <3>1, <3>2 DEF FrameRec
    <3> QED
      BY <2>2, <3>1, <3>3
  <2>3. CASE ~(f < m) /\ f # m
    BY <1>3, <1>6, <2>3
  <2> QED
    BY <2>1, <2>2, <2>3
<1>8. frames' \in [Frame -> FrameRec]
  <2>1. frames' = [f \in Frame |-> frames'[f]]
    BY <1>4
  <2> QED
    BY <2>1, <1>7
<1> QED
  BY <1>2, <1>7, <1>8

(* A load puts the page in one frame, and all the others age.              *)
Replaces(pos) ==
  /\ \A f \in Frame : f = pos =>
       /\ frames'[f].page = ref
       /\ frames'[f].free = FALSE
       /\ frames'[f].time = i + 1
       /\ frames'[f].timeSinceSwitch = 0
       /\ frames'[f].timesUsed = frames[f].timesUsed + 1
       /\ loaded'[f] = i + 1
  /\ \A f \in Frame : f # pos =>
       /\ frames'[f].page = frames[f].page
       /\ frames'[f].free = frames[f].free
       /\ frames'[f].time = frames[f].time
       /\ frames'[f].timeSinceSwitch = frames[f].timeSinceSwitch + 1
       /\ frames'[f].timesUsed = frames[f].timesUsed
       /\ loaded'[f] = loaded[f]
  /\ frames' \in [Frame -> FrameRec]
  /\ loaded' \in [Frame -> 0 .. i + 1]

(* A load is such a replacement.                                           *)
LEMMA LoadFacts ==
  ASSUME TypeOK, Step, NEW pos, Load(pos)
  PROVE  Replaces(pos)
<1>1. /\ \A f \in Frame : frames[f] \in FrameRec
      /\ counter = i /\ i + 1 \in Nat
      /\ \A f \in Frame : frames[f].timesUsed + 1 \in Nat
  BY FieldTypes DEF TypeOK, FrameRec
<1>2. ref \in Page
  <2>1. i + 1 \in 1 .. no_of_references
    BY FieldTypes, PageAssumption DEF Step, PageAssumption
  <2> QED
    BY <2>1 DEF TypeOK, ref
<1>3. \A f \in Frame :
        IF f = pos
        THEN frames'[f] = [page |-> ref, time |-> i + 1, free |-> FALSE,
                           timeSinceSwitch |-> 0, timesUsed |-> frames[f].timesUsed + 1]
        ELSE frames'[f] = [frames[f] EXCEPT !.timeSinceSwitch = @ + 1]
  BY <1>1 DEF Load
<1>4. \A f \in Frame : frames'[f] \in FrameRec
  <2> SUFFICES ASSUME NEW f \in Frame PROVE frames'[f] \in FrameRec
    OBVIOUS
  <2>1. CASE f = pos
    <3>0. frames[f].timesUsed + 1 \in Nat
      BY <1>1
    <3>1. \A n \in Nat, u \in Nat :
            [page |-> ref, time |-> n, free |-> FALSE, timeSinceSwitch |-> 0,
             timesUsed |-> u] \in FrameRec
      BY <1>2 DEF FrameRec
    <3> QED
      <4>1. frames'[f] = [page |-> ref, time |-> i + 1, free |-> FALSE,
                          timeSinceSwitch |-> 0, timesUsed |-> frames[f].timesUsed + 1]
        BY <1>3, <2>1
      <4>2. i + 1 \in Nat
        BY <1>1
      <4> QED
        BY <3>0, <3>1, <4>1, <4>2
  <2>2. CASE f # pos
    <3>1. frames[f] \in FrameRec
      BY <1>1
    <3> QED
      BY <1>3, <2>2, <3>1, RecordFields
  <2> QED
    BY <2>1, <2>2
<1>5. frames' \in [Frame -> FrameRec]
  <2>1. frames' = [f \in Frame |-> frames'[f]]
    BY DEF Load
  <2> QED
    BY <2>1, <1>4
<1>6. loaded' = [loaded EXCEPT ![pos] = i + 1] /\ loaded \in [Frame -> 0 .. i]
  BY DEF Load, TypeOK
<1>7. loaded' \in [Frame -> 0 .. i + 1]
  <2>1. 0 .. i \subseteq 0 .. i + 1 /\ i + 1 \in 0 .. i + 1
    BY FieldTypes
  <2> QED
    BY <1>6, <2>1
<1>8. \A f \in Frame : f = pos => frames'[f] = [page |-> ref, time |-> i + 1, free |-> FALSE,
                                 timeSinceSwitch |-> 0, timesUsed |-> frames[f].timesUsed + 1]
  BY <1>3
<1>9. ASSUME NEW f \in Frame, f # pos
      PROVE  /\ frames'[f].page = frames[f].page
             /\ frames'[f].free = frames[f].free
             /\ frames'[f].time = frames[f].time
             /\ frames'[f].timeSinceSwitch = frames[f].timeSinceSwitch + 1
             /\ frames'[f].timesUsed = frames[f].timesUsed
             /\ loaded'[f] = loaded[f]
  BY <1>9, <1>1, <1>3, <1>6, RecordFields
<1> QED
  BY <1>5, <1>6, <1>7, <1>8, <1>9 DEF Replaces
-----------------------------------------------------------------------------
(* An eviction names a frame: the first one with the least or greatest key.*)
LEMMA VictimFacts ==
  ASSUME TypeOK, i < no_of_references
  PROVE  /\ findPageToEvict \in Frame
         /\ ALGORITHM = "FIFO" =>
              \A g \in Frame : frames[findPageToEvict].timeSinceSwitch
                                 >= frames[g].timeSinceSwitch
         /\ ALGORITHM = "LRU" =>
              \A g \in Frame : frames[findPageToEvict].time <= frames[g].time
         /\ ALGORITHM = "OPT" =>
              \A g \in Frame : nextUse(findPageToEvict) >= nextUse(g)
<1> DEFINE stamp == [f \in Frame |-> frames[f].time]
           age == [f \in Frame |-> frames[f].timeSinceSwitch]
           used == [f \in Frame |-> frames[f].timesUsed]
           next == [f \in Frame |-> nextUse(f)]
<1>1. /\ stamp \in [Frame -> Nat] /\ used \in [Frame -> Nat]
      /\ age \in [Frame -> Nat] /\ i \in Nat /\ \A f \in Frame : age[f] <= i
  BY FieldTypes
<1>2. ASSUME NEW f \in Frame PROVE nextUse(f) \in Nat /\ nextUse(f) <= no_of_references
  <2> DEFINE uses == {j \in i + 2 .. no_of_references : refs[j] = frames[f].page}
  <2>1. no_of_references \in Nat
    BY PageAssumption DEF PageAssumption
  <2>2. CASE uses # {}
    <3>1. uses \in SUBSET Nat
      BY <1>1, <2>1
    <3>2. Min(uses) \in uses
      BY <2>2, <3>1, MinLeast
    <3>3. Min(uses) \in i + 2 .. no_of_references
      BY <3>2
    <3>4. Min(uses) - (i + 1) \in Nat /\ Min(uses) - (i + 1) <= no_of_references
      BY <1>1, <2>1, <3>3
    <3> QED
      BY <2>2, <3>4 DEF nextUse
  <2>3. CASE uses = {}
    BY <2>1, <2>3 DEF nextUse
  <2> QED
    BY <2>2, <2>3
<1>3. next \in [Frame -> Nat] /\ \A f \in Frame : next[f] <= no_of_references
  BY <1>2
<1>4. no_of_references \in Nat
  BY PageAssumption DEF PageAssumption
<1> HIDE DEF stamp, age, used, next
<1>5. CASE ALGORITHM = "LRU"
  <2>1. findPageToEvict = FirstMin(stamp)
    BY <1>5 DEF findPageToEvict, leastRecent, stamp
  <2> QED
    BY <1>1, <1>5, <2>1, FirstMinIsLeast DEF stamp
<1>6. CASE ALGORITHM = "FIFO"
  <2>1. findPageToEvict = FirstMax(age)
    BY <1>6 DEF findPageToEvict, age
  <2> QED
    BY <1>1, <1>6, <2>1, FirstMaxIsGreatest DEF age
<1>7. CASE ALGORITHM = "LFU"
  <2>1. findPageToEvict = FirstMin(used)
    BY <1>7 DEF findPageToEvict, used
  <2> QED
    BY <1>1, <1>7, <2>1, FirstMinIsLeast
<1>8. CASE ALGORITHM = "OPT"
  <2>1. findPageToEvict = FirstMax(next)
    BY <1>8 DEF findPageToEvict, next
  <2> QED
    BY <1>3, <1>4, <1>8, <2>1, FirstMaxIsGreatest DEF next
<1>9. ALGORITHM \in {"LRU", "FIFO", "LFU", "OPT"}
  BY PageAssumption DEF PageAssumption, TypeOK
<1> QED
  BY <1>5, <1>6, <1>7, <1>8, <1>9
-----------------------------------------------------------------------------
(* The program starts with types in order, and every step keeps them.      *)
LEMMA InitTypes == Init => TypeOK
<1> SUFFICES ASSUME Init PROVE TypeOK
  OBVIOUS
<1>1. /\ 0 \in 0 .. 0 /\ 0 \in 0 .. no_of_references /\ 1 .. 0 = {} /\ 0 + 0 = 0
  BY PageAssumption DEF PageAssumption
<1>2. PICK fresh \in [Frame -> FreshPage] :
        frames = [f \in Frame |-> [page |-> fresh[f], time |-> 0, free |-> TRUE,
                                   timeSinceSwitch |-> 0, timesUsed |-> 0]]
  BY DEF Init
<1>3. \A f \in Frame : fresh[f] \in Page \cup {NoPage}
  BY PageAssumption DEF PageAssumption
<1>4. Cardinality(hits) = 0
  BY FS_EmptySet DEF Init
<1>5. frames \in [Frame -> [page : Page \cup {NoPage}, time : 0 .. i, free : BOOLEAN,
                           timeSinceSwitch : 0 .. i, timesUsed : 0 .. i]]
  BY <1>1, <1>2, <1>3 DEF Init
<1> QED
  BY <1>1, <1>4, <1>5 DEF Init, TypeOK

LEMMA StepTypes ==
  ASSUME TypeOK, Step,
         frames' \in [Frame -> FrameRec], loaded' \in [Frame -> 0 .. i + 1],
         \A f \in Frame : /\ frames'[f].time \in {frames[f].time, i + 1}
                          /\ frames'[f].timeSinceSwitch \in
                               {0, frames[f].timeSinceSwitch, frames[f].timeSinceSwitch + 1}
                          /\ frames'[f].timesUsed \in
                               {frames[f].timesUsed, frames[f].timesUsed + 1},
         \/ hits' = hits \cup {i + 1} /\ faults' = faults
         \/ hits' = hits /\ faults' = faults + 1
  PROVE  TypeOK'
<1>1. /\ i \in Nat /\ i' = i + 1 /\ i' \in 0 .. no_of_references /\ counter' = i'
      /\ ALGORITHM' \in Algorithms /\ refs' \in [1 .. no_of_references -> Page]
  BY FieldTypes, PageAssumption DEF TypeOK, Step, PageAssumption
<1>2. ASSUME NEW f \in Frame
      PROVE  frames'[f] \in [page : Page \cup {NoPage}, time : 0 .. i', free : BOOLEAN,
                             timeSinceSwitch : 0 .. i', timesUsed : 0 .. i']
  <2>1. /\ frames[f].time \in 0 .. i /\ frames[f].timeSinceSwitch \in 0 .. i
        /\ frames[f].timesUsed \in 0 .. i
    BY FieldTypes
  <2>2. \A n \in 0 .. i : n \in 0 .. i' /\ n + 1 \in 0 .. i' /\ i + 1 \in 0 .. i' /\ 0 \in 0 .. i'
    BY <1>1
  <2>3. frames'[f].time \in 0 .. i'
    BY <2>1, <2>2
  <2>4. frames'[f].timeSinceSwitch \in 0 .. i'
    BY <2>1, <2>2
  <2>5. frames'[f].timesUsed \in 0 .. i'
    BY <2>1, <2>2
  <2>6. frames'[f] \in FrameRec
    OBVIOUS
  <2> QED
    BY <2>3, <2>4, <2>5, <2>6 DEF FrameRec
<1>3. frames' \in [Frame -> [page : Page \cup {NoPage}, time : 0 .. i', free : BOOLEAN,
                            timeSinceSwitch : 0 .. i', timesUsed : 0 .. i']]
  BY <1>2
<1>4. /\ hits \subseteq 1 .. i /\ IsFiniteSet(hits)
      /\ Cardinality(hits) \in Nat /\ faults \in Nat /\ faults + Cardinality(hits) = i
  <2>1. /\ hits \subseteq 1 .. i /\ faults \in Nat /\ faults + Cardinality(hits) = i
        /\ 1 \in Int /\ i \in Int
    BY <1>1 DEF TypeOK
  <2>2. IsFiniteSet(1 .. i)
    BY <2>1, FS_Interval
  <2>3. IsFiniteSet(hits)
    BY <2>1, <2>2, FS_Subset
  <2> QED
    BY <2>1, <2>3, FS_CardinalityType
<1>5. hits' \subseteq 1 .. i' /\ faults' \in Nat /\ faults' + Cardinality(hits') = i'
  <2>1. CASE hits' = hits \cup {i + 1} /\ faults' = faults
    <3>1. i + 1 \notin hits
      BY <1>1, <1>4
    <3>2. Cardinality(hits') = Cardinality(hits) + 1
      BY <1>4, <2>1, <3>1, FS_AddElement
    <3>3. hits' \subseteq 1 .. i'
      BY <1>1, <1>4, <2>1
    <3> QED
      BY <1>1, <1>4, <2>1, <3>2, <3>3
  <2>2. CASE hits' = hits /\ faults' = faults + 1
    <3>1. 1 .. i \subseteq 1 .. i'
      BY <1>1
    <3> QED
      BY <1>1, <1>4, <2>2, <3>1
  <2> QED
    BY <2>1, <2>2
<1> QED
  BY <1>1, <1>3, <1>5 DEF TypeOK

LEMMA NextTypes == TypeOK /\ [Next]_vars => TypeOK'
<1> SUFFICES ASSUME TypeOK, [Next]_vars PROVE TypeOK'
  OBVIOUS
<1>1. ASSUME Hit PROVE TypeOK'
  <2>1. loaded' \in [Frame -> 0 .. i + 1]
    <3>1. 0 .. i \subseteq 0 .. i + 1
      BY FieldTypes
    <3> QED
      BY <1>1, <3>1 DEF Hit, TypeOK
  <2>2. PICK m \in Frame :
          /\ \A f \in Frame :
                /\ frames'[f].time = IF f = m THEN i + 1 ELSE frames[f].time
                /\ frames'[f].timeSinceSwitch =
                     IF f < m THEN frames[f].timeSinceSwitch + 1
                     ELSE frames[f].timeSinceSwitch
                /\ frames'[f].timesUsed \in {frames[f].timesUsed, frames[f].timesUsed + 1}
          /\ frames' \in [Frame -> FrameRec]
    BY <1>1, HitFacts
  <2>3. Step /\ hits' = hits \cup {i + 1} /\ faults' = faults
    BY <1>1 DEF Hit
  <2> QED
    BY <2>1, <2>2, <2>3, StepTypes
<1>2. ASSUME NEW pos, Step, Load(pos) PROVE TypeOK'
  <2>0. Replaces(pos)
    BY <1>2, LoadFacts
  <2>1. hits' = hits /\ faults' = faults + 1
    BY <1>2 DEF Load
  <2>2. \A f \in Frame : /\ frames'[f].time \in {frames[f].time, i + 1}
                         /\ frames'[f].timeSinceSwitch \in
                               {0, frames[f].timeSinceSwitch, frames[f].timeSinceSwitch + 1}
                         /\ frames'[f].timesUsed \in
                               {frames[f].timesUsed, frames[f].timesUsed + 1}
    BY <2>0 DEF Replaces
  <2>3. frames' \in [Frame -> FrameRec] /\ loaded' \in [Frame -> 0 .. i + 1]
    BY <2>0 DEF Replaces
  <2> QED
    BY <1>2, <2>1, <2>2, <2>3, StepTypes
<1>3. CASE UNCHANGED vars
  BY <1>3 DEF vars, TypeOK
<1> QED
  BY <1>1, <1>2, <1>3 DEF Next, UseFree, Evict, Done
-----------------------------------------------------------------------------
(* Pages of memory: the program starts with all frames free.               *)
LEMMA InitMemory ==
  ASSUME FreshUnreferenced, Init
  PROVE  FreshFree /\ PagesApart /\ NoneForgotten
<1>1. PICK fresh \in [Frame -> FreshPage] :
        frames = [f \in Frame |-> [page |-> fresh[f], time |-> 0, free |-> TRUE,
                                   timeSinceSwitch |-> 0, timesUsed |-> 0]]
  BY DEF Init
<1>2. \A f \in Frame : frames[f].page \notin Page /\ frames[f].free = TRUE
  BY <1>1 DEF FreshUnreferenced
<1>3. Occupied = {} /\ InMemory = {}
  BY <1>2 DEF Occupied, FreeFrames, InMemory
<1>4. Seen = {}
  BY DEF Init, Seen
<1> QED
  BY <1>2, <1>3, <1>4 DEF FreshFree, PagesApart, NoneForgotten, FreeFrames

(* The reference that is done joins those that have been.                  *)
LEMMA SeenGrows ==
  ASSUME TypeOK, Step
  PROVE  ref \in Page /\ Seen' = Seen \cup {ref}
<1>1. i \in Nat /\ i' = i + 1 /\ refs' = refs /\ i + 1 \in 1 .. no_of_references
  BY FieldTypes, PageAssumption DEF Step, PageAssumption
<1>2. 1 .. i' = (1 .. i) \cup {i + 1}
  BY <1>1
<1> QED
  BY <1>1, <1>2 DEF Seen, ref, TypeOK

(* A hit finds the page in memory, and changes nothing there.              *)
LEMMA HitMemory ==
  ASSUME IInv, Hit
  PROVE  /\ ref \in InMemory /\ InMemory' = InMemory
         /\ FreshFree' /\ PagesApart' /\ NoneForgotten'
<1>1. PICK m \in Frame :
        /\ frames[m].page = ref
        /\ \A f \in Frame : frames'[f].page = frames[f].page /\ frames'[f].free = frames[f].free
  BY HitFacts DEF IInv
<1>2. ref \in Page /\ Seen' = Seen \cup {ref}
  BY SeenGrows DEF IInv, Hit
<1>3. FreeFrames' = FreeFrames /\ Occupied' = Occupied
  BY <1>1 DEF FreeFrames, Occupied
<1>4. InMemory' = InMemory
  BY <1>1, <1>3 DEF InMemory, Occupied
<1>5. m \in Occupied
  BY <1>1, <1>2 DEF IInv, FreshFree, Occupied
<1>6. ref \in InMemory
  BY <1>1, <1>5 DEF InMemory
<1>7. FreshFree' /\ PagesApart'
  BY <1>1, <1>3 DEF IInv, FreshFree, PagesApart, FreeFrames, Occupied
<1> QED
  BY <1>2, <1>3, <1>4, <1>6, <1>7 DEF IInv, NoneForgotten

(* A load of a page that is in no frame: what it replaces, if anything,    *)
(* is gone, and nothing is while there are free frames.                    *)
LEMMA LoadMemory ==
  ASSUME IInv, Step, Matching = {}, NEW pos \in Frame, Load(pos),
         FreeFrames # {} => pos \in FreeFrames
  PROVE  FreshFree' /\ PagesApart' /\ NoneForgotten'
<1>1. \A f \in Frame :
        /\ f = pos => frames'[f].page = ref /\ frames'[f].free = FALSE
        /\ f # pos => frames'[f].page = frames[f].page /\ frames'[f].free = frames[f].free
  <2>1. Replaces(pos)
    BY LoadFacts DEF IInv
  <2> QED
    BY <2>1 DEF Replaces
<1>2. ref \in Page /\ Seen' = Seen \cup {ref}
  BY SeenGrows DEF IInv
<1>3. \A f \in Frame : frames[f].page # ref
  BY DEF Matching
<1>4. FreeFrames' = FreeFrames \ {pos} /\ Occupied' = Occupied \cup {pos}
  BY <1>1 DEF FreeFrames, Occupied
<1>5. FreshFree'
  BY <1>1, <1>4 DEF IInv, FreshFree, FreeFrames
<1>6. PagesApart'
  BY <1>1, <1>3, <1>4 DEF IInv, PagesApart, Occupied
<1>7. InMemory' \subseteq InMemory \cup {ref}
  BY <1>1, <1>4 DEF InMemory, Occupied
<1>8. FreeFrames # {} => InMemory \subseteq InMemory' /\ ref \in InMemory'
  <2>1. ref \in InMemory'
    BY <1>1, <1>4 DEF InMemory
  <2>2. ASSUME FreeFrames # {}, NEW f \in Occupied PROVE frames[f].page \in InMemory'
    <3>1. f # pos /\ f \in Frame
      BY <2>2 DEF Occupied
    <3> QED
      BY <1>1, <1>4, <3>1, <2>2 DEF InMemory
  <2> QED
    BY <2>1, <2>2 DEF InMemory
<1>9. FreeFrames' # {} => FreeFrames # {}
  BY <1>4
<1> QED
  BY <1>2, <1>5, <1>6, <1>7, <1>8, <1>9 DEF IInv, NoneForgotten

(* UseFree and Evict load into a frame, a free one if there is one.        *)
LEMMA LoadPlace ==
  ASSUME TypeOK, UseFree \/ Evict
  PROVE  \E pos \in Frame : /\ Step /\ Matching = {} /\ Load(pos)
                            /\ FreeFrames # {} => pos \in FreeFrames
<1>1. CASE UseFree
  <2>1. FreeFrames \in SUBSET Nat /\ FreeFrames # {}
    BY <1>1, FieldTypes DEF UseFree, FreeFrames
  <2>2. Min(FreeFrames) \in FreeFrames
    BY <2>1, MinLeast
  <2>3. Min(FreeFrames) \in Frame
    BY <2>2 DEF FreeFrames
  <2> QED
    BY <1>1, <2>2, <2>3 DEF UseFree
<1>2. CASE Evict
  BY <1>2, VictimFacts DEF Evict, Step
<1> QED
  BY <1>1, <1>2

(* The invariant holds initially and is kept.                              *)
LEMMA NextMemory == IInv /\ [Next]_vars => IInv'
<1> SUFFICES ASSUME IInv, [Next]_vars PROVE IInv'
  OBVIOUS
<1>1. TypeOK'
  BY NextTypes DEF IInv
<1>2. CASE Hit
  BY <1>1, <1>2, HitMemory DEF IInv
<1>3. CASE UseFree \/ Evict
  <2>1. PICK pos \in Frame : /\ Step /\ Matching = {} /\ Load(pos)
                             /\ FreeFrames # {} => pos \in FreeFrames
    BY <1>3, LoadPlace DEF IInv
  <2>2. FreshFree' /\ PagesApart' /\ NoneForgotten'
    BY <2>1, LoadMemory
  <2> QED
    BY <1>1, <2>2 DEF IInv
<1>4. CASE UNCHANGED vars
  BY <1>1, <1>4 DEF vars, IInv, FreshFree, PagesApart, NoneForgotten, FreeFrames, Occupied,
                    InMemory, Seen
<1> QED
  BY <1>2, <1>3, <1>4 DEF Next, Done

(* Frames and pages in memory are as many, since pages are apart.          *)
LEMMA MemorySize ==
  ASSUME IInv
  PROVE  /\ no_of_frames \in Nat /\ IsFiniteSet(InMemory) /\ Cardinality(InMemory) \in Nat
         /\ Cardinality(InMemory) <= no_of_frames
         /\ FreeFrames = {} <=> Cardinality(InMemory) = no_of_frames
<1>1. /\ IsFiniteSet(Frame) /\ Cardinality(Frame) = no_of_frames
      /\ no_of_frames \in Nat
  <2>1. no_of_frames \in Nat \ {0} /\ 0 \in Int /\ no_of_frames - 1 \in Int
    BY PageAssumption DEF PageAssumption
  <2> QED
    BY <2>1, FS_Interval DEF Frame
<1>2. /\ IsFiniteSet(Occupied) /\ Cardinality(Occupied) <= no_of_frames
      /\ Cardinality(Occupied) = no_of_frames => Occupied = Frame
  BY <1>1, FS_Subset DEF Occupied
<1>3. /\ IsFiniteSet(InMemory) /\ Cardinality(InMemory) = Cardinality(Occupied)
      /\ Cardinality(InMemory) \in Nat
  <2> DEFINE page == [f \in Occupied |-> frames[f].page]
  <2>1. page \in Surjection(Occupied, InMemory)
    BY DEF Surjection, InMemory
  <2>2. page \in Injection(Occupied, InMemory)
    BY DEF Injection, IsInjective, InMemory, IInv, PagesApart
  <2> HIDE DEF page
  <2> QED
    BY <1>2, <2>1, <2>2, FS_Surjection, FS_CardinalityType
<1>4. FreeFrames = {} <=> Occupied = Frame
  BY DEF Occupied, FreeFrames
<1> QED
  BY <1>1, <1>2, <1>3, <1>4

(* And they are as many as there can be.                                   *)
LEMMA FilledAsSeen ==
  ASSUME IInv
  PROVE  Cardinality(InMemory) = Min({no_of_frames, Cardinality(Seen)})
<1> DEFINE n == Cardinality(InMemory)
           s == Cardinality(Seen)
<1>1. IsFiniteSet(Seen) /\ s \in Nat
  <2> DEFINE done == [j \in 1 .. i |-> refs[j]]
  <2>1. done \in Surjection(1 .. i, Seen)
    BY DEF Surjection, Seen
  <2>2. IsFiniteSet(1 .. i)
    BY FieldTypes, FS_Interval DEF IInv
  <2> HIDE DEF done
  <2> QED
    BY <2>1, <2>2, FS_Surjection, FS_CardinalityType
<1>2. n <= s
  BY <1>1, FS_Subset DEF IInv, NoneForgotten
<1>3. n = no_of_frames \/ n = s
  <2>1. CASE FreeFrames = {}
    BY <2>1, MemorySize
  <2>2. CASE FreeFrames # {}
    BY <2>2 DEF IInv, NoneForgotten
  <2> QED
    BY <2>1, <2>2
<1>4. n \in Nat /\ no_of_frames \in Nat /\ n <= no_of_frames
  BY MemorySize
<1>5. Min({no_of_frames, s}) \in {no_of_frames, s} /\
      \A y \in {no_of_frames, s} : Min({no_of_frames, s}) <= y
  BY <1>1, <1>4, MinLeast
<1> HIDE DEF n, s
<1>6. \A k \in Nat : k \in {no_of_frames, s} /\ k <= no_of_frames /\ k <= s => k = n
  BY <1>1, <1>2, <1>3, <1>4
<1> QED
  BY <1>1, <1>4, <1>5, <1>6 DEF n, s

(* No page is in two frames, and free frames are filled before any page is *)
(* evicted, with each of the algorithms.                                   *)
THEOREM MemoryIsFilled == FreshUnreferenced /\ Spec => []MemoryFills
<1>1. FreshUnreferenced /\ Init => IInv
  BY InitTypes, InitMemory DEF IInv
<1>2. IInv => MemoryFills
  BY FilledAsSeen DEF IInv, MemoryFills, PagesApart, Seen
<1> QED
  BY <1>1, <1>2, NextMemory, PTL DEF Spec
-----------------------------------------------------------------------------
(* The older of two pages has aged more: a load ages all the others.       *)
LEMMA LoadAged ==
  ASSUME TypeOK, OlderAged, Step, NEW pos \in Frame, Load(pos)
  PROVE  OlderAged'
<1>1. Replaces(pos) /\ hits' = hits /\ i \in Nat
  BY LoadFacts, FieldTypes DEF Load
<1>2. \A f \in Frame : loaded[f] \in 0 .. i /\ frames[f].timeSinceSwitch \in 0 .. i
  BY FieldTypes
<1>3. \A a, b \in 0 .. i : a + 1 > 0 /\ (a > b => a + 1 > b + 1) /\ ~(i + 1 < a)
  BY <1>1
<1> SUFFICES ASSUME NEW f \in Frame, NEW g \in Frame, loaded'[g] < loaded'[f],
                    g < f \/ \A h \in hits : h <= loaded'[f]
             PROVE  frames'[g].timeSinceSwitch > frames'[f].timeSinceSwitch
  BY <1>1 DEF OlderAged
<1>4. CASE f = pos
  <2>1. loaded'[f] = i + 1 /\ frames'[f].timeSinceSwitch = 0
    BY <1>1, <1>4 DEF Replaces
  <2>2. g # pos
    BY <1>1, <1>4, <2>1
  <2>3. frames'[g].timeSinceSwitch = frames[g].timeSinceSwitch + 1
    BY <1>1, <2>2 DEF Replaces
  <2> QED
    BY <1>2, <1>3, <2>1, <2>3
<1>5. CASE f # pos
  <2>1. loaded'[f] = loaded[f] /\ frames'[f].timeSinceSwitch = frames[f].timeSinceSwitch + 1
    BY <1>1, <1>5 DEF Replaces
  <2>2. g # pos
    <3>1. g = pos => loaded'[g] = i + 1
      BY <1>1 DEF Replaces
    <3> QED
      BY <1>2, <1>3, <2>1, <3>1
  <2>3. loaded'[g] = loaded[g] /\ frames'[g].timeSinceSwitch = frames[g].timeSinceSwitch + 1
    BY <1>1, <2>2 DEF Replaces
  <2>4. frames[g].timeSinceSwitch > frames[f].timeSinceSwitch
    BY <2>1, <2>3 DEF OlderAged
  <2> QED
    BY <1>2, <1>3, <2>1, <2>3, <2>4
<1> QED
  BY <1>4, <1>5

(* And a hit that ages one of them ages those in the frames before it.     *)
LEMMA HitAged ==
  ASSUME TypeOK, OlderAged, Hit
  PROVE  OlderAged'
<1>1. PICK m \in Frame : \A f \in Frame :
        frames'[f].timeSinceSwitch = IF f < m THEN frames[f].timeSinceSwitch + 1
                                     ELSE frames[f].timeSinceSwitch
  BY HitFacts
<1>2. /\ loaded' = loaded /\ i + 1 \in hits' /\ i \in Nat /\ Frame \subseteq Nat
      /\ \A f \in Frame : loaded[f] \in 0 .. i /\ frames[f].timeSinceSwitch \in 0 .. i
  BY FieldTypes DEF Hit
<1> SUFFICES ASSUME NEW f \in Frame, NEW g \in Frame, loaded[g] < loaded[f],
                    g < f \/ \A h \in hits' : h <= loaded[f]
             PROVE  frames'[g].timeSinceSwitch > frames'[f].timeSinceSwitch
  BY <1>2 DEF OlderAged
<1>3. g < f
  <2>1. ~(i + 1 <= loaded[f])
    BY <1>2
  <2> QED
    BY <1>2, <2>1
<1>4. frames[g].timeSinceSwitch > frames[f].timeSinceSwitch
  BY <1>3 DEF OlderAged
<1>5. \A a, b, n \in Nat : a > b => a + 1 > b /\ a + 1 > b + 1
  OBVIOUS
<1>6. /\ frames[g].timeSinceSwitch \in Nat /\ frames[f].timeSinceSwitch \in Nat
      /\ f \in Nat /\ g \in Nat /\ m \in Nat
  BY <1>2
<1>7. CASE f < m
  <2>1. g < m
    BY <1>3, <1>6, <1>7
  <2>2. /\ frames'[f].timeSinceSwitch = frames[f].timeSinceSwitch + 1
        /\ frames'[g].timeSinceSwitch = frames[g].timeSinceSwitch + 1
    BY <1>1, <1>7, <2>1
  <2> QED
    BY <1>4, <1>5, <1>6, <2>2
<1>8. CASE ~(f < m)
  <2>1. frames'[f].timeSinceSwitch = frames[f].timeSinceSwitch
    BY <1>1, <1>8
  <2>2. frames'[g].timeSinceSwitch \in {frames[g].timeSinceSwitch, frames[g].timeSinceSwitch + 1}
    BY <1>1
  <2> QED
    BY <1>4, <1>5, <1>6, <2>1, <2>2
<1> QED
  BY <1>7, <1>8

(* FIFO evicts the oldest page, except that a younger one may go first if  *)
(* its frame comes first and there has been a hit since it was loaded.     *)
THEOREM OldestPageLeaves == Spec => OldestLeaves
<1> DEFINE Inv == TypeOK /\ OlderAged
<1>1. Init => Inv
  <2>1. Init => OlderAged
    <3>1. ~(0 < 0)
      OBVIOUS
    <3> QED
      BY <3>1 DEF Init, OlderAged
  <2> QED
    BY <2>1, InitTypes
<1>2. Inv /\ [Next]_vars => Inv'
  <2> SUFFICES ASSUME Inv, [Next]_vars PROVE OlderAged'
    BY NextTypes
  <2>1. CASE Hit
    BY <2>1, HitAged
  <2>2. CASE UseFree \/ Evict
    <3>1. PICK pos \in Frame : Step /\ Load(pos)
      BY <2>2, LoadPlace
    <3> QED
      BY <3>1, LoadAged
  <2>3. CASE UNCHANGED vars
    BY <2>3 DEF vars, OlderAged
  <2> QED
    BY <2>1, <2>2, <2>3 DEF Next, Done
<1>3. Inv /\ [Next]_vars =>
        [(ALGORITHM = "FIFO" /\ Evict) =>
           \A f, g \in Frame :
             loaded'[f] # loaded[f] /\ loaded[g] < loaded[f] =>
               f < g /\ \E h \in hits : h > loaded[f]]_vars
  <2> SUFFICES ASSUME Inv, ALGORITHM = "FIFO", Evict, NEW f \in Frame, NEW g \in Frame,
                      loaded'[f] # loaded[f], loaded[g] < loaded[f]
               PROVE  f < g /\ \E h \in hits : h > loaded[f]
    OBVIOUS
  <2>1. PICK pos : pos = findPageToEvict
    OBVIOUS
  <2>2. /\ pos \in Frame /\ Step /\ Load(pos)
        /\ frames[pos].timeSinceSwitch >= frames[g].timeSinceSwitch
    BY <2>1, VictimFacts DEF Evict, Step
  <2>3. f = pos
    <3>1. Replaces(pos)
      BY <2>2, LoadFacts
    <3> QED
      BY <3>1 DEF Replaces
  <2>4. /\ i \in Nat /\ hits \subseteq 1 .. i /\ Frame \subseteq Nat
        /\ \A e \in Frame : frames[e].timeSinceSwitch \in 0 .. i /\ loaded[e] \in 0 .. i
    BY FieldTypes DEF TypeOK
  <2>5. ~(frames[g].timeSinceSwitch > frames[f].timeSinceSwitch)
    BY <2>2, <2>3, <2>4
  <2>6. ~(g < f) /\ ~ \A h \in hits : h <= loaded[f]
    BY <2>5 DEF OlderAged
  <2>7. f # g
    BY <2>4
  <2>8. \A h \in hits : h \in Nat
    BY <2>4
  <2> QED
    BY <2>4, <2>6, <2>7, <2>8
<1> QED
  BY <1>1, <1>2, <1>3, PTL DEF Spec, OldestLeaves
-----------------------------------------------------------------------------
(* s lists the frames of S by falling stamp.                               *)
Sorting(s, S, F) ==
  /\ s \in [1 .. Cardinality(S) -> S]
  /\ \A j, k \in 1 .. Cardinality(S) : j < k => F[s[j]].time > F[s[k]].time

(* Such a list has every frame of S, at one place.                         *)
LEMMA SortingLists ==
  ASSUME NEW S, IsFiniteSet(S), NEW F, \A f \in S : F[f].time \in Nat, NEW s, Sorting(s, S, F)
  PROVE  /\ \A j, k \in 1 .. Cardinality(S) : s[j] = s[k] => j = k
         /\ \A f \in S : \E k \in 1 .. Cardinality(S) : s[k] = f
<1> DEFINE n == Cardinality(S)
<1>1. n \in Nat
  BY FS_CardinalityType
<1> HIDE DEF n
<1>2. s \in [1 .. n -> S] /\ \A j, k \in 1 .. n : j < k => F[s[j]].time > F[s[k]].time
  BY DEF Sorting, n
<1>3. ASSUME NEW j \in 1 .. n, NEW k \in 1 .. n, s[j] = s[k] PROVE j = k
  <2>1. ~(F[s[j]].time > F[s[k]].time) /\ ~(F[s[k]].time > F[s[j]].time)
    <3>1. F[s[j]].time \in Nat
      BY <1>2
    <3> QED
      BY <1>3, <3>1
  <2>2. ~(j < k) /\ ~(k < j)
    BY <1>2, <2>1
  <2> QED
    BY <1>1, <2>2
<1>4. s \in Injection(1 .. n, S)
  BY <1>2, <1>3 DEF Injection, IsInjective
<1>5. Cardinality(1 .. n) = n
  BY <1>1, FS_Interval
<1>6. s \in Surjection(1 .. n, S)
  BY <1>4, <1>5, FS_Injection DEF n
<1> QED
  BY <1>3, <1>6 DEF Surjection, n

(* There is only one such list.                                            *)
LEMMA SortingUnique ==
  ASSUME NEW S, IsFiniteSet(S), NEW F, \A f \in S : F[f].time \in Nat,
         NEW s, Sorting(s, S, F), NEW t, Sorting(t, S, F)
  PROVE  s = t
<1> DEFINE n == Cardinality(S)
           D == {k \in 1 .. n : s[k] # t[k]}
<1>1. n \in Nat
  BY FS_CardinalityType
<1>2. /\ s \in [1 .. n -> S] /\ \A j, k \in 1 .. n : j < k => F[s[j]].time > F[s[k]].time
      /\ t \in [1 .. n -> S] /\ \A j, k \in 1 .. n : j < k => F[t[j]].time > F[t[k]].time
  BY DEF Sorting
<1>3. /\ \A j, k \in 1 .. n : s[j] = s[k] => j = k
      /\ \A f \in S : \E k \in 1 .. n : s[k] = f
      /\ \A j, k \in 1 .. n : t[j] = t[k] => j = k
      /\ \A f \in S : \E k \in 1 .. n : t[k] = f
  BY SortingLists
<1> HIDE DEF n
<1>4. D = {}
  <2> SUFFICES ASSUME D # {} PROVE FALSE
    OBVIOUS
  <2>1. D \in SUBSET Nat
    BY <1>1
  <2>2. PICK k \in D : \A j \in D : k <= j
    BY <2>1, LeastNat
  <2>3. k \in 1 .. n /\ s[k] # t[k] /\ \A j \in 1 .. n : s[j] # t[j] => k <= j
    BY <2>2
  <2> HIDE DEF D
  <2>4. PICK j \in 1 .. n : t[j] = s[k]
    BY <1>2, <1>3, <2>3
  <2>5. PICK l \in 1 .. n : s[l] = t[k]
    BY <1>2, <1>3, <2>3
  <2>6. s[j] # t[j]
    BY <1>3, <2>3, <2>4
  <2>7. s[l] # t[l]
    BY <1>3, <2>3, <2>5
  <2>8. k < j /\ k < l
    <3>1. j # k /\ l # k /\ k <= j /\ k <= l
      BY <2>3, <2>4, <2>5, <2>6, <2>7
    <3> QED
      BY <1>1, <2>3, <3>1
  <2>9. F[t[k]].time > F[s[k]].time /\ F[s[k]].time > F[t[k]].time
    BY <1>2, <2>3, <2>4, <2>5, <2>8
  <2>10. F[t[k]].time \in Nat /\ F[s[k]].time \in Nat
    BY <1>2, <2>3
  <2> QED
    BY <2>9, <2>10
<1>5. \A k \in 1 .. n : s[k] = t[k]
  BY <1>4
<1>6. s = [k \in 1 .. n |-> s[k]] /\ t = [k \in 1 .. n |-> t[k]]
  BY <1>2
<1>7. [k \in 1 .. n |-> s[k]] = [k \in 1 .. n |-> t[k]]
  BY <1>5
<1> QED
  BY <1>6, <1>7

(* The list after a reference: frame m has a new stamp, and was at place a *)
(* of the list, or was free and comes after its end.                       *)
toFront(s, a, m, n) ==
  [k \in 1 .. n |-> IF k = 1 THEN m ELSE IF k <= a THEN s[k - 1] ELSE s[k]]

(* m goes to the front of s, which lists S by the stamps of F; those of G  *)
(* are the same but for m, which has the highest.                          *)
Moves(S, F, G, m, s, a, n) ==
  /\ IsFiniteSet(S) /\ Sorting(s, S, F)
  /\ \A f \in S : F[f].time \in Nat /\ G[m].time > F[f].time
  /\ \A f \in S : f # m => G[f].time = F[f].time
  /\ a \in 1 .. Cardinality(S) + 1
  /\ a <= Cardinality(S) => s[a] = m
  /\ a = Cardinality(S) + 1 => m \notin S
  /\ n = IF a > Cardinality(S) THEN a ELSE Cardinality(S)

(* The list is then toFront, and the rest of it comes from s.              *)
Moved(S, G, m, s, a, n) ==
  /\ Cardinality(S \cup {m}) = n
  /\ Sorting(toFront(s, a, m, n), S \cup {m}, G)
  /\ \A k \in 1 .. n :
       /\ 1 < k /\ k <= a => k - 1 \in 1 .. Cardinality(S) /\ s[k - 1] # m
       /\ 1 < k /\ a < k => k \in 1 .. Cardinality(S) /\ s[k] # m

(* So it is, whatever the frames and stamps.                               *)
LEMMA MoveToFront ==
  ASSUME NEW S, NEW F, NEW G, NEW m, NEW s, NEW a, NEW n, Moves(S, F, G, m, s, a, n)
  PROVE  Moved(S, G, m, s, a, n)
<1> DEFINE c == Cardinality(S)
           t == toFront(s, a, m, n)
<1>0. /\ IsFiniteSet(S) /\ Sorting(s, S, F)
      /\ \A f \in S : F[f].time \in Nat /\ G[m].time > F[f].time
      /\ \A f \in S : f # m => G[f].time = F[f].time
  BY DEF Moves
<1>1. c \in Nat
  BY <1>0, FS_CardinalityType
<1>2. /\ \A j, k \in 1 .. c : s[j] = s[k] => j = k
      /\ \A f \in S : \E k \in 1 .. c : s[k] = f
  BY <1>0, SortingLists
<1>3. s \in [1 .. c -> S] /\ \A j, k \in 1 .. c : j < k => F[s[j]].time > F[s[k]].time
  BY <1>0 DEF Sorting
<1>4. /\ a \in 1 .. c + 1 /\ n = IF a > c THEN a ELSE c
      /\ a <= c => s[a] = m
      /\ a = c + 1 => m \notin S
  BY DEF Moves
<1>5. Cardinality(S \cup {m}) = n
  <2>1. Cardinality(S \cup {m}) = IF m \in S THEN c ELSE c + 1
    BY <1>0, FS_AddElement
  <2>2. CASE a <= c
    <3>1. a \in 1 .. c /\ ~(a > c)
      BY <1>1, <1>4, <2>2
    <3>2. m \in S
      BY <1>3, <1>4, <2>2, <3>1
    <3> QED
      BY <1>4, <2>1, <3>1, <3>2
  <2>3. CASE a = c + 1
    <3>1. a > c
      BY <1>1, <2>3
    <3> QED
      BY <1>4, <2>1, <2>3, <3>1
  <2> QED
    BY <1>1, <1>4, <2>2, <2>3
<1> HIDE DEF c
<1>6. n \in Nat /\ a \in Nat /\ (n = c \/ (n = c + 1 /\ a = c + 1))
  BY <1>1, <1>4
<1>7. ASSUME NEW k \in 1 .. c, k # a PROVE s[k] # m
  <2>1. CASE a <= c
    <3>1. a \in 1 .. c
      BY <1>1, <1>4, <2>1
    <3> QED
      BY <1>2, <1>4, <1>7, <2>1, <3>1
  <2>2. CASE a = c + 1
    BY <1>3, <1>4, <2>2
  <2> QED
    BY <1>1, <1>4, <2>1, <2>2
<1> DEFINE p(k) == IF k <= a THEN k - 1 ELSE k
<1>8. ASSUME NEW k \in 1 .. n, 1 < k
      PROVE  /\ p(k) \in 1 .. c /\ p(k) # a
             /\ k <= a => p(k) = k - 1
             /\ a < k => p(k) = k
  BY <1>1, <1>4, <1>6, <1>8
<1>9. \A j, k \in 1 .. n : 1 < j /\ j < k => p(j) < p(k) /\ 1 < k
  BY <1>6
<1>10. t[1] = m \/ n = 0
  <2>1. n # 0 => 1 \in 1 .. n
    BY <1>6
  <2> QED
    BY <2>1 DEF toFront
<1>11. ASSUME NEW k \in 1 .. n, 1 < k PROVE t[k] = s[p(k)]
  <2>1. k # 1
    BY <1>6, <1>11
  <2> QED
    BY <2>1 DEF toFront
<1>12. DOMAIN t = 1 .. n /\ t = [k \in 1 .. n |-> t[k]]
  BY DEF toFront
<1> HIDE DEF t, p
<1>13. ASSUME NEW k \in 1 .. n, 1 < k
       PROVE  t[k] \in S /\ t[k] # m /\ G[t[k]].time = F[s[p(k)]].time
  BY <1>0, <1>3, <1>7, <1>8, <1>11, <1>13
<1>14. ASSUME NEW k \in 1 .. n PROVE k = 1 \/ 1 < k
  BY <1>6
<1>15. ASSUME NEW k \in 1 .. n PROVE n # 0
  BY <1>6
<1>16. t \in [1 .. n -> S \cup {m}]
  BY <1>10, <1>12, <1>13, <1>14, <1>15
<1>17. ASSUME NEW j \in 1 .. n, NEW k \in 1 .. n, j < k PROVE G[t[j]].time > G[t[k]].time
  <2>1. 1 < k
    BY <1>6, <1>17
  <2>2. G[t[k]].time = F[s[p(k)]].time /\ s[p(k)] \in S
    BY <1>3, <1>8, <1>13, <2>1
  <2>3. CASE j = 1
    BY <1>0, <1>10, <1>15, <2>2, <2>3
  <2>4. CASE 1 < j
    <3>1. p(j) < p(k) /\ p(j) \in 1 .. c /\ p(k) \in 1 .. c
      BY <1>8, <1>9, <1>17, <2>1, <2>4
    <3>2. F[s[p(j)]].time > F[s[p(k)]].time
      BY <1>3, <3>1
    <3> QED
      BY <1>13, <2>2, <2>4, <3>2
  <2> QED
    BY <1>14, <2>3, <2>4
<1>18. Sorting(t, S \cup {m}, G)
  BY <1>5, <1>16, <1>17 DEF Sorting
<1>19. ASSUME NEW k \in 1 .. n, 1 < k
       PROVE  /\ k <= a => k - 1 \in 1 .. c /\ s[k - 1] # m
              /\ a < k => k \in 1 .. c /\ s[k] # m
  BY <1>7, <1>8, <1>19
<1> QED
  BY <1>5, <1>18, <1>19 DEF c, t, Moved

-----------------------------------------------------------------------------
(* The frames in memory, under LRU: stamps that are in the list apart.     *)
recentPages == IF ALGORITHM # "LRU" THEN << >>
               ELSE [k \in 1 .. occupancy |-> frames[ByTime[k]].page]

Listed == ALGORITHM = "LRU" => \E s : Sorting(s, Occupied, frames)

LRUInv == IInv /\ Listed

(* ByTime is then the one list, and a page has one place in it.            *)
LEMMA ByTimeFacts ==
  ASSUME TypeOK
  PROVE  /\ IsFiniteSet(Occupied) /\ occupancy \in Nat /\ occupancy <= no_of_frames
         /\ occupancy = no_of_frames <=> FreeFrames = {}
         /\ \A f \in Occupied : frames[f].time \in Nat
         /\ \A s : Sorting(s, Occupied, frames) => ByTime = s
<1>1. /\ IsFiniteSet(Frame) /\ Cardinality(Frame) = no_of_frames /\ no_of_frames \in Nat
  <2>1. no_of_frames \in Nat \ {0} /\ 0 \in Int /\ no_of_frames - 1 \in Int
    BY PageAssumption DEF PageAssumption
  <2> QED
    BY <2>1, FS_Interval DEF Frame
<1>2. /\ IsFiniteSet(Occupied) /\ occupancy <= no_of_frames /\ occupancy \in Nat
      /\ occupancy = no_of_frames => Occupied = Frame
  BY <1>1, FS_Subset, FS_CardinalityType DEF Occupied, occupancy
<1>3. occupancy = no_of_frames <=> FreeFrames = {}
  <2>1. Occupied = Frame <=> FreeFrames = {}
    BY DEF Occupied, FreeFrames
  <2> QED
    BY <1>1, <1>2, <2>1 DEF occupancy
<1>5. \A f \in Occupied : frames[f].time \in Nat
  BY FieldTypes DEF Occupied
<1>4. ASSUME NEW s, Sorting(s, Occupied, frames) PROVE ByTime = s
  <2>1. Sorting(ByTime, Occupied, frames)
    BY <1>4 DEF Sorting, ByTime, occupancy
  <2> QED
    BY <1>2, <1>5, <1>4, <2>1, SortingUnique
<1> QED
  BY <1>2, <1>3, <1>5, <1>4

(* The page that is referenced moves to the front of the list, from place  *)
(* a: where it was, or the first place after the list, or the last.        *)
LEMMA FrontOfList ==
  ASSUME LRUInv, Step, ALGORITHM = "LRU", NEW p, p = ref, NEW m \in Frame,
         NEW a \in 1 .. occupancy + 1,
         a <= occupancy => ByTime[a] = m, a = occupancy + 1 => m \notin Occupied,
         Occupied' = Occupied \cup {m},
         frames'[m].page = ref, frames'[m].time = i + 1,
         \A f \in Frame : f # m => frames'[f].page = frames[f].page,
         \A f \in Frame : f # m => frames'[f].time = frames[f].time,
         Recency!Place(recentPages, p) = a
  PROVE  Recency!Use(p) /\ Listed'
<1> DEFINE c == Cardinality(Occupied)
           n == IF a > c THEN a ELSE c
           t == toFront(ByTime, a, m, n)
<1>1. /\ IsFiniteSet(Occupied) /\ c \in Nat /\ occupancy = c
      /\ \A f \in Occupied : frames[f].time \in Nat
      /\ Sorting(ByTime, Occupied, frames)
  BY ByTimeFacts DEF LRUInv, IInv, Listed, occupancy
<1>2. /\ \A f \in Occupied : frames[f].time \in Nat /\ frames'[m].time > frames[f].time
      /\ frames'[m].time \in Nat
  BY <1>1, FieldTypes DEF LRUInv, IInv, Occupied
<1>3. \A f \in Occupied : f # m => frames'[f].time = frames[f].time
  BY DEF Occupied
<1>4. /\ a \in 1 .. c + 1 /\ n = IF a > c THEN a ELSE c
      /\ a <= c => ByTime[a] = m
      /\ a = c + 1 => m \notin Occupied
  BY <1>1
<1> HIDE DEF n
<1>5. /\ Cardinality(Occupied \cup {m}) = n
      /\ Sorting(t, Occupied \cup {m}, frames')
      /\ \A k \in 1 .. n :
           /\ 1 < k /\ k <= a => k - 1 \in 1 .. c /\ ByTime[k - 1] # m
           /\ 1 < k /\ a < k => k \in 1 .. c /\ ByTime[k] # m
  <2>1. Moves(Occupied, frames, frames', m, ByTime, a, n)
    BY <1>1, <1>2, <1>3, <1>4 DEF Moves
  <2>2. Moved(Occupied, frames', m, ByTime, a, n)
    BY <2>1, MoveToFront
  <2> QED
    BY <2>2 DEF Moved
<1> HIDE DEF t
<1>6. ByTime' = t
  <2>1. Sorting(t, Occupied', frames')
    BY <1>5
  <2>2. Sorting(ByTime', Occupied', frames')
    BY <2>1 DEF Sorting, ByTime, occupancy
  <2>3. IsFiniteSet(Occupied')
    BY <1>1, FS_AddElement
  <2>4. \A f \in Occupied' : frames'[f].time \in Nat
    BY <1>2, <1>3
  <2> QED
    BY <2>1, <2>2, <2>3, <2>4, SortingUnique
<1>7. Listed'
  <2>1. Sorting(t, Occupied', frames')
    BY <1>5
  <2> QED
    BY <2>1 DEF Listed
<1>8. occupancy' = n
  BY <1>5 DEF occupancy
<1> DEFINE R == [k \in 1 .. c |-> frames[ByTime[k]].page]
<1>9. Len(R) = c /\ R \in Seq({R[k] : k \in 1 .. c})
  BY <1>1
<1>10. ASSUME NEW k \in 1 .. n
       PROVE  frames'[t[k]].page = IF k = 1 THEN p ELSE IF k <= a THEN R[k - 1] ELSE R[k]
  <2>1. ByTime \in [1 .. c -> Occupied] /\ Occupied \subseteq Frame
    BY <1>1 DEF Sorting, Occupied
  <2>2. CASE k = 1
    BY <2>2 DEF t, toFront
  <2>3. CASE k # 1 /\ k <= a
    <3>1. k - 1 \in 1 .. c /\ ByTime[k - 1] # m /\ t[k] = ByTime[k - 1]
      <4>1. 1 < k
        BY <2>3
      <4> QED
        BY <1>5, <2>3, <4>1 DEF t, toFront
    <3>2. ByTime[k - 1] \in Frame
      BY <2>1, <3>1
    <3> QED
      BY <2>3, <3>1, <3>2
  <2>4. CASE k # 1 /\ ~(k <= a)
    <3>1. k \in 1 .. c /\ ByTime[k] # m /\ t[k] = ByTime[k]
      <4>1. 1 < k /\ a < k
        BY <1>4, <2>4
      <4> QED
        BY <1>5, <2>4, <4>1 DEF t, toFront
    <3>2. ByTime[k] \in Frame
      BY <2>1, <3>1
    <3> QED
      BY <2>4, <3>1, <3>2
  <2> QED
    BY <2>2, <2>3, <2>4
<1> HIDE DEF c
<1>11. [k \in 1 .. n |-> frames'[t[k]].page] =
         [k \in 1 .. n |-> IF k = 1 THEN p ELSE IF k <= a THEN R[k - 1] ELSE R[k]]
  BY <1>10
<1>12. n = IF a > Len(R) THEN a ELSE Len(R)
  BY <1>4, <1>9
<1> HIDE DEF R
<1>13. /\ ALGORITHM' = "LRU" /\ i' = i + 1 /\ i' # 0 /\ refs'[i'] = p
  BY FieldTypes DEF Step, ref, LRUInv, IInv
<1>14. Recency!Use(p)
  <2>1. recentPages = R
    BY <1>1 DEF recentPages, R
  <2>2. recentPages' =
          [k \in 1 .. n |-> IF k = 1 THEN p ELSE IF k <= a THEN R[k - 1] ELSE R[k]]
    BY <1>6, <1>8, <1>11, <1>13 DEF recentPages
  <2>3. (IF ALGORITHM # "LRU" \/ i = 0 THEN NoPage ELSE refs[i])' = p
    BY <1>13
  <2>4. Recency!ToFront(R, a, p) =
          [k \in 1 .. n |-> IF k = 1 THEN p ELSE IF k <= a THEN R[k - 1] ELSE R[k]]
    BY <1>12 DEF Recency!ToFront
  <2>5. recentPages' = Recency!ToFront(recentPages, Recency!Place(recentPages, p), p)
    BY <2>1, <2>2, <2>4
  <2> QED
    BY <2>3, <2>5 DEF Recency!Use, recentPages
<1> QED
  BY <1>7, <1>14

(* The place of a page that is in memory is that of its frame; one that is *)
(* not goes to the first place after the list, or to the last one.         *)
LEMMA PlaceFacts ==
  ASSUME LRUInv, ALGORITHM = "LRU", NEW p, p = ref
  PROVE  /\ \A a \in 1 .. occupancy :
              frames[ByTime[a]].page = ref => Recency!Place(recentPages, p) = a
         /\ Matching = {} => Recency!Place(recentPages, p) =
              IF occupancy < no_of_frames THEN occupancy + 1 ELSE no_of_frames
<1> DEFINE c == occupancy
           R == [k \in 1 .. c |-> frames[ByTime[k]].page]
<1>1. /\ c \in Nat /\ ByTime \in [1 .. c -> Occupied]
      /\ \A j, k \in 1 .. c : ByTime[j] = ByTime[k] => j = k
  <2>1. /\ Sorting(ByTime, Occupied, frames) /\ IsFiniteSet(Occupied)
        /\ \A f \in Occupied : frames[f].time \in Nat
        /\ occupancy \in Nat
    BY ByTimeFacts DEF LRUInv, IInv, Listed
  <2>2. \A j, k \in 1 .. c : ByTime[j] = ByTime[k] => j = k
    BY <2>1, SortingLists DEF occupancy
  <2>3. ByTime \in [1 .. c -> Occupied]
    BY <2>1 DEF Sorting, occupancy
  <2> QED
    BY <2>1, <2>2, <2>3
<1> HIDE DEF c
<1>2. Len(R) = c
  BY <1>1
<1>3. /\ \A k \in 1 .. c : R[k] = frames[ByTime[k]].page
      /\ \A j, k \in 1 .. c : R[j] = R[k] => j = k
  <2>1. \A f, g \in Occupied : frames[f].page = frames[g].page => f = g
    BY DEF LRUInv, IInv, PagesApart
  <2> QED
    BY <1>1, <2>1
<1> HIDE DEF R
<1>4. recentPages = R
  BY DEF recentPages, R, c
<1>5. Recency!Place(recentPages, p) =
        IF \E k \in 1 .. Len(R) : R[k] = ref
        THEN CHOOSE k \in 1 .. Len(R) : R[k] = ref
        ELSE IF Len(R) < no_of_frames THEN Len(R) + 1 ELSE no_of_frames
  BY <1>4 DEF Recency!Place
<1>6. ASSUME NEW a \in 1 .. c, frames[ByTime[a]].page = ref PROVE Recency!Place(recentPages, p) = a
  <2>1. R[a] = ref
    BY <1>3, <1>6
  <2>2. \A k \in 1 .. c : R[k] = ref => k = a
    BY <1>3, <2>1
  <2>3. (CHOOSE k \in 1 .. c : R[k] = ref) = a
    BY <2>1, <2>2
  <2> QED
    BY <1>2, <1>5, <2>1, <2>3
<1>7. ASSUME Matching = {}
      PROVE  Recency!Place(recentPages, p) = IF c < no_of_frames THEN c + 1 ELSE no_of_frames
  <2>1. \A f \in Occupied : frames[f].page # ref
    BY <1>7 DEF Matching, Occupied
  <2>2. ~ \E k \in 1 .. c : R[k] = ref
    BY <1>1, <1>3, <2>1
  <2> QED
    BY <1>2, <1>5, <2>2
<1> QED
  BY <1>6, <1>7 DEF c

(* A hit: the page is at the place of its frame.                           *)
LEMMA HitUses ==
  ASSUME LRUInv, ALGORITHM = "LRU", NEW p, p = ref, Hit
  PROVE  Recency!Use(p) /\ Listed'
<1>1. PICK m \in Frame :
        /\ frames[m].page = ref
        /\ \A f \in Frame : /\ frames'[f].page = frames[f].page
                            /\ frames'[f].free = frames[f].free
                            /\ frames'[f].time = IF f = m THEN i + 1 ELSE frames[f].time
  BY HitFacts DEF LRUInv, IInv
<1>2. Step /\ ref \in Page
  BY SeenGrows DEF Hit, LRUInv, IInv
<1>3. m \in Occupied
  BY <1>1, <1>2 DEF LRUInv, IInv, FreshFree, Occupied
<1>4. Occupied' = Occupied \cup {m}
  BY <1>1, <1>3 DEF Occupied, FreeFrames
<1>5. PICK a \in 1 .. occupancy : ByTime[a] = m
  <2>1. /\ Sorting(ByTime, Occupied, frames) /\ IsFiniteSet(Occupied)
        /\ \A f \in Occupied : frames[f].time \in Nat
    BY ByTimeFacts DEF LRUInv, IInv, Listed
  <2> QED
    BY <1>3, <2>1, SortingLists DEF occupancy
<1>6. Recency!Place(recentPages, p) = a
  BY <1>1, <1>5, PlaceFacts
<1>7. occupancy \in Nat
  BY ByTimeFacts DEF LRUInv, IInv
<1>8. a \in 1 .. occupancy + 1 /\ a # occupancy + 1
  BY <1>7
<1> QED
  BY <1>1, <1>2, <1>4, <1>5, <1>6, <1>8, FrontOfList

(* A fault: the page goes after the list, or to the last place, whose page *)
(* is the one that has not been used for longest.                          *)
LEMMA FaultUses ==
  ASSUME LRUInv, ALGORITHM = "LRU", NEW p, p = ref, UseFree \/ Evict
  PROVE  Recency!Use(p) /\ Listed'
<1>1. TypeOK
  BY DEF LRUInv, IInv
<1>2. /\ Sorting(ByTime, Occupied, frames) /\ IsFiniteSet(Occupied)
      /\ \A f \in Occupied : frames[f].time \in Nat
      /\ occupancy \in Nat /\ occupancy <= no_of_frames /\ no_of_frames \in Nat \ {0}
      /\ occupancy = no_of_frames <=> FreeFrames = {}
  BY <1>1, ByTimeFacts, PageAssumption DEF LRUInv, Listed, PageAssumption
<1>3. PICK pos \in Frame :
        /\ Step /\ Matching = {} /\ Load(pos)
        /\ FreeFrames # {} => pos \in FreeFrames
        /\ FreeFrames = {} => \A g \in Frame : frames[pos].time <= frames[g].time
  <2>1. CASE UseFree
    BY <1>1, <2>1, LoadPlace DEF UseFree
  <2>2. CASE Evict
    <3>1. i < no_of_references
      BY <2>2 DEF Evict, Step
    <3> QED
      BY <1>1, <2>2, <3>1, VictimFacts DEF Evict
  <2> QED
    BY <2>1, <2>2
<1>4. Replaces(pos)
  BY <1>1, <1>3, LoadFacts
<1>5. Occupied' = Occupied \cup {pos}
  BY <1>4 DEF Replaces, Occupied, FreeFrames
<1>6. /\ frames'[pos].page = ref /\ frames'[pos].time = i + 1
      /\ \A f \in Frame : f # pos => frames'[f].page = frames[f].page
      /\ \A f \in Frame : f # pos => frames'[f].time = frames[f].time
  BY <1>4 DEF Replaces
<1>7. CASE FreeFrames # {}
  <2>1. occupancy < no_of_frames
    BY <1>2, <1>7
  <2>2. Recency!Place(recentPages, p) = occupancy + 1
    BY <1>3, <2>1, PlaceFacts
  <2>3. pos \notin Occupied
    BY <1>3, <1>7 DEF Occupied
  <2>4. occupancy + 1 \in 1 .. occupancy + 1 /\ ~(occupancy + 1 <= occupancy)
    BY <1>2
  <2> QED
    BY <1>3, <1>5, <1>6, <2>2, <2>3, <2>4, FrontOfList
<1>8. CASE FreeFrames = {}
  <2>1. /\ occupancy = no_of_frames /\ ~(occupancy < no_of_frames)
        /\ occupancy \in 1 .. occupancy + 1 /\ occupancy # occupancy + 1
        /\ occupancy \in 1 .. occupancy
    BY <1>2, <1>8
  <2>2. Recency!Place(recentPages, p) = occupancy
    BY <1>3, <2>1, PlaceFacts
  <2>3. Occupied = Frame
    BY <1>8 DEF Occupied
  <2>4. PICK b \in 1 .. occupancy : ByTime[b] = pos
    BY <1>2, <2>3, SortingLists DEF occupancy
  <2>5. b = occupancy
    <3>1. ~(b < occupancy)
      <4>1. ByTime[occupancy] \in Occupied /\ frames[pos].time <= frames[ByTime[occupancy]].time
        BY <1>2, <1>3, <1>8, <2>1, <2>3 DEF Sorting, occupancy
      <4>2. frames[pos].time \in Nat /\ frames[ByTime[occupancy]].time \in Nat
        BY <1>2, <2>3, <4>1
      <4>3. b < occupancy => frames[ByTime[b]].time > frames[ByTime[occupancy]].time
        BY <1>2, <2>1 DEF Sorting, occupancy
      <4> QED
        BY <2>4, <4>1, <4>2, <4>3
    <3> QED
      BY <1>2, <3>1
  <2> QED
    BY <1>3, <1>5, <1>6, <2>1, <2>2, <2>4, <2>5, FrontOfList
<1> QED
  BY <1>7, <1>8

(* With LRU the frames are, by their stamps, the list of the pages used    *)
(* last: every reference moves its page to the front.                      *)
THEOREM StampsAreRecency == FreshUnreferenced /\ Spec => LRUIsRecency
<1>1. FreshUnreferenced /\ Init => LRUInv /\ Recency!Init
  <2> SUFFICES ASSUME FreshUnreferenced, Init PROVE LRUInv /\ Recency!Init
    OBVIOUS
  <2>1. IInv
    BY InitTypes, InitMemory DEF IInv
  <2>2. Occupied = {}
    BY DEF Init, Occupied, FreeFrames
  <2>3. occupancy = 0
    BY <2>2, FS_EmptySet DEF occupancy
  <2>4. Sorting(<< >>, Occupied, frames)
    BY <2>2, <2>3 DEF Sorting, occupancy
  <2>5. Recency!Init
    BY <2>3 DEF Recency!Init, Init
  <2> QED
    BY <2>1, <2>4, <2>5 DEF LRUInv, Listed
<1>2. LRUInv /\ [Next]_vars => LRUInv' /\ [Recency!Next]_(Recency!recencyVars)
  <2> SUFFICES ASSUME LRUInv, [Next]_vars
               PROVE  LRUInv' /\ [Recency!Next]_(Recency!recencyVars)
    OBVIOUS
  <2>1. IInv'
    BY NextMemory DEF LRUInv
  <2>2. CASE Hit \/ UseFree \/ Evict
    <3>1. Step
      BY <2>2 DEF Hit, UseFree, Evict
    <3>2. CASE ALGORITHM = "LRU"
      <4>1. PICK p \in Page : p = ref
        BY <3>1, SeenGrows DEF LRUInv, IInv
      <4>2. Recency!Use(p) /\ Listed'
        BY <2>2, <3>2, <4>1, HitUses, FaultUses
      <4>3. Recency!Next
        BY <4>2 DEF Recency!Next
      <4> QED
        BY <2>1, <4>2, <4>3 DEF LRUInv
    <3>3. CASE ALGORITHM # "LRU"
      <4>1. ALGORITHM' = ALGORITHM
        BY <3>1 DEF Step
      <4>2. UNCHANGED Recency!recencyVars
        BY <3>3, <4>1 DEF Recency!recencyVars
      <4> QED
        BY <2>1, <3>3, <4>1, <4>2 DEF LRUInv, Listed
    <3> QED
      BY <3>2, <3>3
  <2>3. CASE UNCHANGED vars
    <3>1. Occupied' = Occupied /\ frames' = frames /\ ALGORITHM' = ALGORITHM
      BY <2>3 DEF vars, Occupied, FreeFrames
    <3>2. occupancy' = occupancy /\ ByTime' = ByTime
      BY <3>1 DEF occupancy, ByTime
    <3>3. UNCHANGED Recency!recencyVars
      BY <2>3, <3>1, <3>2 DEF Recency!recencyVars, vars
    <3>4. Listed'
      BY <3>1 DEF LRUInv, Listed
    <3> QED
      BY <2>1, <3>3, <3>4 DEF LRUInv
  <2> QED
    BY <2>2, <2>3 DEF Next, Done
<1> QED
  BY <1>1, <1>2, PTL DEF Spec, LRUIsRecency, Recency!Spec

-----------------------------------------------------------------------------
(* The fewest faults, and OPT                                              *)

Strings == [1 .. no_of_references -> Page]
Costs == [SUBSET Page -> Nat]

(* One stage of FewestFrom: the faults from the j-th reference on, if V    *)
(* has those from the next one on.                                         *)
Stage(string, j, V) ==
  [mem \in SUBSET Page |->
     IF string[j] \in mem THEN V[mem]
     ELSE 1 + Min({V[m] : m \in Replaced(mem, string[j])})]

(* F has the faults from every reference on, from the k-th to the end.     *)
SolvesFrom(F, string, k) ==
  /\ F \in [k .. no_of_references + 1 -> Costs]
  /\ F[no_of_references + 1] = [mem \in SUBSET Page |-> 0]
  /\ \A j \in k .. no_of_references : F[j] = Stage(string, j, F[j + 1])

(* After a fault there is something that memory may hold.                  *)
LEMMA ReplacedSome ==
  ASSUME NEW mem \in SUBSET Page, NEW page \in Page
  PROVE  Replaced(mem, page) \in SUBSET (SUBSET Page) /\ Replaced(mem, page) # {}
<1>1. no_of_frames \in Nat \ {0}
  BY PageAssumption DEF PageAssumption
<1>2. mem = {} => Cardinality(mem) < no_of_frames
  BY <1>1, FS_EmptySet
<1> QED
  BY <1>2 DEF Replaced

(* What a stage says of a hit and of a fault.                              *)
LEMMA StageFacts ==
  ASSUME NEW string \in Strings, NEW j \in 1 .. no_of_references, NEW V \in Costs
  PROVE  /\ Stage(string, j, V) \in Costs
         /\ \A mem \in SUBSET Page :
              IF string[j] \in mem THEN Stage(string, j, V)[mem] = V[mem]
              ELSE /\ \E m \in Replaced(mem, string[j]) : Stage(string, j, V)[mem] = 1 + V[m]
                   /\ \A m \in Replaced(mem, string[j]) : Stage(string, j, V)[mem] <= 1 + V[m]
<1> DEFINE S == Stage(string, j, V)
           After(mem) == {V[m] : m \in Replaced(mem, string[j])}
<1>1. string[j] \in Page
  BY DEF Strings
<1>2. ASSUME NEW mem \in SUBSET Page
      PROVE  /\ After(mem) \in SUBSET Nat /\ Min(After(mem)) \in After(mem)
             /\ \A n \in After(mem) : Min(After(mem)) <= n
             /\ \A m \in Replaced(mem, string[j]) : V[m] \in Nat
  <2>1. Replaced(mem, string[j]) \in SUBSET (SUBSET Page) /\ Replaced(mem, string[j]) # {}
    BY <1>1, ReplacedSome
  <2>2. \A m \in Replaced(mem, string[j]) : V[m] \in Nat
    BY <2>1 DEF Costs
  <2>3. After(mem) \in SUBSET Nat /\ After(mem) # {}
    BY <2>1, <2>2
  <2> HIDE DEF After
  <2>4. Min(After(mem)) \in After(mem) /\ \A n \in After(mem) : Min(After(mem)) <= n
    BY <2>3, MinLeast
  <2> QED
    BY <2>2, <2>3, <2>4
<1>3. \A mem \in SUBSET Page :
        S[mem] = IF string[j] \in mem THEN V[mem] ELSE 1 + Min(After(mem))
  BY DEF Stage
<1>4. ASSUME NEW mem \in SUBSET Page, string[j] \notin mem
      PROVE  /\ \E m \in Replaced(mem, string[j]) : S[mem] = 1 + V[m]
             /\ \A m \in Replaced(mem, string[j]) : S[mem] <= 1 + V[m]
  <2>1. S[mem] = 1 + Min(After(mem))
    BY <1>3, <1>4
  <2>2. PICK m \in Replaced(mem, string[j]) : Min(After(mem)) = V[m]
    BY <1>2
  <2>3. \A n \in Replaced(mem, string[j]) : V[m] <= V[n] /\ V[n] \in Nat
    BY <1>2, <2>2
  <2> HIDE DEF S, After
  <2> QED
    BY <2>1, <2>2, <2>3
<1>5. \A mem \in SUBSET Page : S[mem] \in Nat
  <2> SUFFICES ASSUME NEW mem \in SUBSET Page PROVE S[mem] \in Nat
    OBVIOUS
  <2>1. CASE string[j] \in mem
    BY <1>3, <2>1 DEF Costs
  <2>2. CASE string[j] \notin mem
    <3>1. PICK m \in Replaced(mem, string[j]) : S[mem] = 1 + V[m]
      BY <1>4, <2>2
    <3>2. V[m] \in Nat
      BY <1>2
    <3> QED
      BY <3>1, <3>2
  <2> QED
    BY <2>1, <2>2
<1>6. S \in Costs
  <2>1. S = [mem \in SUBSET Page |-> S[mem]]
    BY DEF Stage
  <2> HIDE DEF S
  <2> QED
    BY <1>5, <2>1 DEF Costs
<1> QED
  BY <1>3, <1>4, <1>6

(* The equations have a solution from every reference on: the last one     *)
(* without one could be given a stage more.                                *)
LEMMA SolutionExists ==
  ASSUME NEW string \in Strings
  PROVE  \E F : SolvesFrom(F, string, 1)
<1> DEFINE n == no_of_references
           Bad == {g \in 0 .. n : \A F : ~SolvesFrom(F, string, n + 1 - g)}
<1>0. n \in Nat
  BY PageAssumption DEF PageAssumption
<1>1. Bad = {}
  <2> SUFFICES ASSUME Bad # {} PROVE FALSE
    OBVIOUS
  <2>1. PICK g \in Bad : \A h \in Bad : g <= h
    <3>1. Bad \in SUBSET Nat
      OBVIOUS
    <3> HIDE DEF Bad
    <3> QED
      BY <3>1, LeastNat
  <2>2. g # 0
    <3> DEFINE Z == [mem \in SUBSET Page |-> 0]
               F == [j \in n + 1 .. n + 1 |-> Z]
    <3>1. n + 1 .. n + 1 = {n + 1} /\ n + 1 .. n = {}
      BY <1>0
    <3>2. Z \in Costs
      BY DEF Costs
    <3>3. SolvesFrom(F, string, n + 1)
      BY <3>1, <3>2 DEF SolvesFrom
    <3>4. n + 1 - 0 = n + 1
      BY <1>0
    <3> QED
      BY <2>1, <3>3, <3>4
  <2>3. g - 1 \in 0 .. n /\ ~(g <= g - 1)
    <3>1. g \in 0 .. n
      BY <2>1
    <3> QED
      BY <1>0, <2>2, <3>1
  <2> DEFINE k == n + 1 - g
  <2>4. k \in 1 .. n /\ n + 1 - (g - 1) = k + 1
    BY <1>0, <2>1, <2>2
  <2>5. PICK F : SolvesFrom(F, string, k + 1)
    BY <2>1, <2>3, <2>4
  <2> HIDE DEF k, Bad
  <2> DEFINE G == [j \in k .. n + 1 |-> IF j = k THEN Stage(string, k, F[k + 1]) ELSE F[j]]
  <2>6. /\ k + 1 \in k + 1 .. n + 1 /\ n + 1 # k /\ n + 1 \in k .. n + 1
        /\ \A j \in k .. n + 1 : j # k => j \in k + 1 .. n + 1
        /\ \A j \in k .. n : j + 1 # k /\ j + 1 \in k .. n + 1 /\ j \in k .. n + 1
        /\ \A j \in k .. n : j # k => j \in k + 1 .. n
    BY <1>0, <2>4
  <2>7. F[k + 1] \in Costs
    BY <2>5, <2>6 DEF SolvesFrom
  <2>8. Stage(string, k, F[k + 1]) \in Costs
    BY <2>4, <2>7, StageFacts
  <2>9. G \in [k .. n + 1 -> Costs]
    BY <2>5, <2>6, <2>8 DEF SolvesFrom
  <2>10. \A j \in k .. n : G[j] = Stage(string, j, G[j + 1])
    <3> SUFFICES ASSUME NEW j \in k .. n PROVE G[j] = Stage(string, j, G[j + 1])
      OBVIOUS
    <3>1. G[j + 1] = F[j + 1]
      BY <2>6
    <3>2. CASE j = k
      BY <2>6, <3>1, <3>2
    <3>3. CASE j # k
      <4>1. G[j] = F[j]
        BY <2>6, <3>3
      <4> QED
        BY <2>5, <2>6, <3>1, <3>3, <4>1 DEF SolvesFrom
    <3> QED
      BY <3>2, <3>3
  <2>11. G[n + 1] = [mem \in SUBSET Page |-> 0]
    BY <2>5, <2>6 DEF SolvesFrom
  <2>12. SolvesFrom(G, string, k)
    BY <2>9, <2>10, <2>11 DEF SolvesFrom
  <2> QED
    BY <2>1, <2>12 DEF k, Bad
<1>2. n \in 0 .. n /\ n + 1 - n = 1
  BY <1>0
<1> QED
  BY <1>1, <1>2

(* FewestFrom is such a solution: it is chosen by an equation that a       *)
(* solution satisfies, and whatever does has natural numbers for values.   *)
LEMMA FewestSolves ==
  ASSUME NEW string \in Strings
  PROVE  SolvesFrom(FewestFrom(string), string, 1)
<1> DEFINE n == no_of_references
           Eqn(F) == [j \in 1 .. n + 1 |->
                        [mem \in SUBSET Page |->
                           IF j > n THEN 0
                           ELSE IF string[j] \in mem THEN F[j + 1][mem]
                           ELSE 1 + Min({F[j + 1][m] : m \in Replaced(mem, string[j])})]]
           Zero == [mem \in SUBSET Page |-> 0]
<1>0. n \in Nat
  BY PageAssumption DEF PageAssumption
<1>1. \A F : \A j \in 1 .. n : Eqn(F)[j] = Stage(string, j, F[j + 1])
  <2> SUFFICES ASSUME NEW F, NEW j \in 1 .. n PROVE Eqn(F)[j] = Stage(string, j, F[j + 1])
    OBVIOUS
  <2>1. j \in 1 .. n + 1 /\ ~(j > n)
    BY <1>0
  <2> QED
    BY <2>1 DEF Stage
<1>2. \A F : Eqn(F)[n + 1] = Zero
  <2>1. n + 1 \in 1 .. n + 1 /\ n + 1 > n
    BY <1>0
  <2> QED
    BY <2>1
<1>3. \A F : Eqn(F) = [j \in 1 .. n + 1 |-> Eqn(F)[j]]
  OBVIOUS
<1>4. FewestFrom(string) = CHOOSE F : F = Eqn(F)
  BY DEF FewestFrom
<1> HIDE DEF Eqn
<1>5. \E F : F = Eqn(F)
  <2>1. PICK F : SolvesFrom(F, string, 1)
    BY SolutionExists
  <2>2. F = [j \in 1 .. n + 1 |-> F[j]]
    BY <2>1 DEF SolvesFrom
  <2>3. \A j \in 1 .. n + 1 : F[j] = Eqn(F)[j]
    <3>1. \A j \in 1 .. n + 1 : j \in 1 .. n \/ j = n + 1
      BY <1>0
    <3> QED
      BY <1>1, <1>2, <2>1, <3>1 DEF SolvesFrom
  <2>4. [j \in 1 .. n + 1 |-> F[j]] = [j \in 1 .. n + 1 |-> Eqn(F)[j]]
    BY <2>3
  <2>5. F = Eqn(F)
    BY <1>3, <2>2, <2>4, Zenon
  <2> QED
    BY <2>5, Zenon
<1>6. FewestFrom(string) = Eqn(FewestFrom(string))
  BY <1>4, <1>5
<1> DEFINE F == FewestFrom(string)
<1>7. /\ F[n + 1] = Zero /\ F = [j \in 1 .. n + 1 |-> F[j]]
      /\ \A j \in 1 .. n : F[j] = Stage(string, j, F[j + 1])
  BY <1>1, <1>2, <1>3, <1>6
<1> HIDE DEF F
<1>8. \A j \in 1 .. n + 1 : F[j] \in Costs
  <2> DEFINE Bad == {g \in 0 .. n : F[n + 1 - g] \notin Costs}
  <2>1. Bad = {}
    <3> SUFFICES ASSUME Bad # {} PROVE FALSE
      OBVIOUS
    <3>1. PICK g \in Bad : \A h \in Bad : g <= h
      <4>1. Bad \in SUBSET Nat
        OBVIOUS
      <4> HIDE DEF Bad
      <4> QED
        BY <4>1, LeastNat
    <3>2. g # 0
      <4>1. n + 1 - 0 = n + 1 /\ Zero \in Costs
        BY <1>0 DEF Costs
      <4> QED
        BY <1>7, <3>1, <4>1
    <3>3. g - 1 \in 0 .. n /\ ~(g <= g - 1) /\ n + 1 - g \in 1 .. n
          /\ n + 1 - (g - 1) = (n + 1 - g) + 1
      BY <1>0, <3>1, <3>2
    <3>4. F[(n + 1 - g) + 1] \in Costs
      BY <3>1, <3>3
    <3> QED
      BY <1>7, <3>1, <3>3, <3>4, StageFacts
  <2>2. \A j \in 1 .. n + 1 : n + 1 - j \in 0 .. n /\ n + 1 - (n + 1 - j) = j
    BY <1>0
  <2> QED
    BY <2>1, <2>2
<1> QED
  BY <1>7, <1>8 DEF SolvesFrom, F

-----------------------------------------------------------------------------
(* Exchanging one page                                                     *)

Full(mem) == mem \in SUBSET Page /\ IsFiniteSet(mem) /\ Cardinality(mem) = no_of_frames
Swap(mem, p, q) == (mem \ {p}) \cup {q}

(* p is referenced before q is, or q never, from the j-th reference on.    *)
Sooner(string, j, p, q) ==
  \A h \in j .. no_of_references : string[h] = q => \E g \in j .. h : string[g] = p

(* One page that is not the same makes a difference of one fault at most,  *)
(* and to have the page that is needed sooner is no worse.                 *)
OnePageAt(string, F, j) ==
  \A mem \in SUBSET Page, p, q \in Page :
    Full(mem) /\ p \in mem /\ q \notin mem =>
      /\ F[j][mem] <= F[j][Swap(mem, p, q)] + 1
      /\ Sooner(string, j, p, q) => F[j][mem] <= F[j][Swap(mem, p, q)]

(* A page for another: as many as before.                                  *)
LEMMA SwapFull ==
  ASSUME NEW mem, Full(mem), NEW p \in mem, NEW q \in Page, q \notin mem
  PROVE  Full(Swap(mem, p, q)) /\ Swap(mem, p, q) \in SUBSET Page
<1>1. IsFiniteSet(mem) /\ Cardinality(mem) = no_of_frames /\ no_of_frames \in Nat
  BY PageAssumption DEF Full, PageAssumption
<1>2. IsFiniteSet(mem \ {p}) /\ Cardinality(mem \ {p}) = no_of_frames - 1
  BY <1>1, FS_RemoveElement
<1>3. /\ IsFiniteSet((mem \ {p}) \cup {q})
      /\ Cardinality((mem \ {p}) \cup {q}) = no_of_frames - 1 + 1
  BY <1>2, FS_AddElement
<1> QED
  BY <1>1, <1>3 DEF Full, Swap

(* With memory full a fault exchanges one page for the one referenced.     *)
LEMMA ReplacedFull ==
  ASSUME NEW mem, Full(mem), NEW page
  PROVE  Replaced(mem, page) = {Swap(mem, p, page) : p \in mem}
<1>1. ~(Cardinality(mem) < no_of_frames)
  BY PageAssumption DEF Full, PageAssumption
<1> QED
  BY <1>1 DEF Replaced, Swap

(* A hit and a fault with memory full, in terms of the fewest faults.      *)
LEMMA FullStage ==
  ASSUME NEW string \in Strings, NEW F, SolvesFrom(F, string, 1),
         NEW j \in 1 .. no_of_references, NEW mem, Full(mem)
  PROVE  /\ F[j][mem] \in Nat /\ F[j + 1][mem] \in Nat
         /\ string[j] \in mem => F[j][mem] = F[j + 1][mem]
         /\ string[j] \notin mem =>
              /\ \E p \in mem : F[j][mem] = 1 + F[j + 1][Swap(mem, p, string[j])]
              /\ \A p \in mem : /\ F[j][mem] <= 1 + F[j + 1][Swap(mem, p, string[j])]
                                /\ F[j + 1][Swap(mem, p, string[j])] \in Nat
<1>0. no_of_references \in Nat
  BY PageAssumption DEF PageAssumption
<1>1. j \in 1 .. no_of_references + 1 /\ j + 1 \in 1 .. no_of_references + 1
  BY <1>0
<1>2. F[j] \in Costs /\ F[j + 1] \in Costs /\ F[j] = Stage(string, j, F[j + 1])
  BY <1>1 DEF SolvesFrom
<1>3. string[j] \in Page /\ mem \in SUBSET Page
  BY DEF Strings, Full
<1>4. IF string[j] \in mem THEN F[j][mem] = F[j + 1][mem]
      ELSE /\ \E m \in Replaced(mem, string[j]) : F[j][mem] = 1 + F[j + 1][m]
           /\ \A m \in Replaced(mem, string[j]) : F[j][mem] <= 1 + F[j + 1][m]
  BY <1>2, <1>3, StageFacts
<1>5. Replaced(mem, string[j]) = {Swap(mem, p, string[j]) : p \in mem}
  BY ReplacedFull
<1>6. ASSUME string[j] \notin mem, NEW p \in mem
      PROVE  F[j + 1][Swap(mem, p, string[j])] \in Nat
  <2>1. Swap(mem, p, string[j]) \in SUBSET Page
    BY <1>3, <1>6, SwapFull
  <2> QED
    BY <1>2, <2>1 DEF Costs
<1>7. F[j][mem] \in Nat /\ F[j + 1][mem] \in Nat
  BY <1>2, <1>3 DEF Costs
<1> QED
  BY <1>4, <1>5, <1>6, <1>7

(* The exchange, one reference earlier.                                    *)
LEMMA OnePageEarlier ==
  ASSUME NEW string \in Strings, NEW F, SolvesFrom(F, string, 1),
         NEW j \in 1 .. no_of_references, OnePageAt(string, F, j + 1)
  PROVE  OnePageAt(string, F, j)
<1> SUFFICES ASSUME NEW A \in SUBSET Page, NEW p \in Page, NEW q \in Page,
                    Full(A), p \in A, q \notin A
             PROVE  /\ F[j][A] <= F[j][Swap(A, p, q)] + 1
                    /\ Sooner(string, j, p, q) => F[j][A] <= F[j][Swap(A, p, q)]
  BY DEF OnePageAt
<1> DEFINE B == Swap(A, p, q)
           r == string[j]
<1>1. r \in Page /\ p # q /\ p \notin B /\ q \in B
  BY DEF Strings, Swap
<1>2. Full(B)
  BY SwapFull
<1>3. /\ F[j][A] \in Nat /\ F[j + 1][A] \in Nat /\ F[j][B] \in Nat /\ F[j + 1][B] \in Nat
      /\ r \in A => F[j][A] = F[j + 1][A]
      /\ r \in B => F[j][B] = F[j + 1][B]
      /\ r \notin A => \A x \in A : /\ F[j][A] <= 1 + F[j + 1][Swap(A, x, r)]
                                    /\ F[j + 1][Swap(A, x, r)] \in Nat
      /\ r \notin B => \E x \in B : /\ F[j][B] = 1 + F[j + 1][Swap(B, x, r)]
                                    /\ F[j + 1][Swap(B, x, r)] \in Nat
  BY <1>2, FullStage
<1>4. \A M \in SUBSET Page, x, y \in Page :
        Full(M) /\ x \in M /\ y \notin M =>
          /\ F[j + 1][M] <= F[j + 1][Swap(M, x, y)] + 1
          /\ Sooner(string, j + 1, x, y) => F[j + 1][M] <= F[j + 1][Swap(M, x, y)]
  BY DEF OnePageAt
<1>5. r # p /\ Sooner(string, j, p, q) => Sooner(string, j + 1, p, q)
  <2> SUFFICES ASSUME r # p, Sooner(string, j, p, q), NEW h \in j + 1 .. no_of_references,
                      string[h] = q
               PROVE  \E g \in j + 1 .. h : string[g] = p
    BY DEF Sooner
  <2>1. h \in j .. no_of_references
    BY PageAssumption DEF PageAssumption
  <2>2. PICK g \in j .. h : string[g] = p
    BY <2>1 DEF Sooner
  <2>3. g \in j + 1 .. h
    BY <2>2
  <2> QED
    BY <2>2, <2>3
<1>6. r = q => ~Sooner(string, j, p, q)
  <2>1. j \in j .. no_of_references /\ \A g \in j .. j : g = j
    BY PageAssumption DEF PageAssumption
  <2> QED
    BY <1>1, <2>1 DEF Sooner
<1> HIDE DEF r
<1>7. CASE r \in A /\ r # p
  <2>1. r \in B
    BY <1>7 DEF Swap
  <2> QED
    BY <1>3, <1>4, <1>5, <1>7, <2>1
<1>8. CASE r = p
  <2>1. PICK x \in B : F[j][B] = 1 + F[j + 1][Swap(B, x, r)] /\ F[j + 1][Swap(B, x, r)] \in Nat
    BY <1>1, <1>3, <1>8
  <2>2. F[j][A] = F[j + 1][A]
    BY <1>3, <1>8
  <2>3. CASE x = q
    <3>1. Swap(B, x, r) = A
      BY <1>8, <2>3 DEF Swap
    <3> QED
      BY <1>3, <2>1, <2>2, <3>1
  <2>4. CASE x # q
    <3>1. x \in A /\ x \in Page /\ Swap(B, x, r) = Swap(A, x, q)
      BY <1>1, <1>8, <2>4 DEF Swap
    <3>2. F[j + 1][A] <= F[j + 1][Swap(A, x, q)] + 1
      BY <1>4, <3>1
    <3> QED
      BY <1>3, <2>1, <2>2, <3>1, <3>2
  <2> QED
    BY <2>3, <2>4
<1>9. CASE r = q
  <2>1. F[j][A] <= 1 + F[j + 1][B]
    BY <1>3, <1>9
  <2>2. F[j][B] = F[j + 1][B]
    BY <1>1, <1>3, <1>9
  <2> QED
    BY <1>3, <1>6, <1>9, <2>1, <2>2
<1>10. CASE r \notin A /\ r # q
  <2>1. r \notin B
    BY <1>10 DEF Swap
  <2>2. PICK x \in B : F[j][B] = 1 + F[j + 1][Swap(B, x, r)] /\ F[j + 1][Swap(B, x, r)] \in Nat
    BY <1>3, <2>1
  <2>3. CASE x = q
    <3>1. Swap(B, x, r) = Swap(A, p, r)
      BY <2>3 DEF Swap
    <3>2. F[j][A] <= 1 + F[j + 1][Swap(A, p, r)]
      BY <1>3, <1>10
    <3> QED
      BY <1>3, <2>2, <3>1, <3>2
  <2>4. CASE x # q
    <3> DEFINE C == Swap(A, x, r)
    <3>1. /\ x \in A /\ x # p /\ x \in Page /\ p \in C /\ q \notin C
          /\ Swap(B, x, r) = Swap(C, p, q)
      BY <1>1, <1>10, <2>4 DEF Swap
    <3>2. Full(C) /\ C \in SUBSET Page
      BY <1>1, <1>10, <3>1, SwapFull
    <3>3. /\ F[j + 1][C] <= F[j + 1][Swap(C, p, q)] + 1
          /\ Sooner(string, j + 1, p, q) => F[j + 1][C] <= F[j + 1][Swap(C, p, q)]
      BY <1>4, <3>1, <3>2
    <3>4. F[j][A] <= 1 + F[j + 1][C] /\ F[j + 1][C] \in Nat
      BY <1>3, <1>10, <3>1
    <3>5. r # p
      BY <1>10
    <3> HIDE DEF C
    <3> QED
      BY <1>3, <1>5, <2>2, <3>1, <3>3, <3>4, <3>5
  <2> QED
    BY <2>3, <2>4
<1> QED
  BY <1>7, <1>8, <1>9, <1>10

(* So it is from every reference on: there is no last exception.           *)
LEMMA OnePage ==
  ASSUME NEW string \in Strings, NEW F, SolvesFrom(F, string, 1)
  PROVE  \A j \in 1 .. no_of_references + 1 : OnePageAt(string, F, j)
<1> DEFINE n == no_of_references
           Bad == {g \in 0 .. n : ~OnePageAt(string, F, n + 1 - g)}
<1>0. n \in Nat
  BY PageAssumption DEF PageAssumption
<1>1. Bad = {}
  <2> SUFFICES ASSUME Bad # {} PROVE FALSE
    OBVIOUS
  <2>1. PICK g \in Bad : \A h \in Bad : g <= h
    <3>1. Bad \in SUBSET Nat
      OBVIOUS
    <3> HIDE DEF Bad
    <3> QED
      BY <3>1, LeastNat
  <2>2. g # 0
    <3>1. n + 1 - 0 = n + 1
      BY <1>0
    <3>2. \A mem \in SUBSET Page : F[n + 1][mem] = 0
      BY DEF SolvesFrom
    <3>3. OnePageAt(string, F, n + 1)
      BY <3>2, SwapFull DEF OnePageAt
    <3> QED
      BY <2>1, <3>1, <3>3
  <2>3. g \in 0 .. n
    BY <2>1
  <2>4. /\ g - 1 \in 0 .. n /\ ~(g <= g - 1) /\ n + 1 - g \in 1 .. n
        /\ n + 1 - (g - 1) = (n + 1 - g) + 1
    BY <1>0, <2>2, <2>3
  <2>5. OnePageAt(string, F, (n + 1 - g) + 1)
    BY <2>1, <2>4
  <2> QED
    BY <2>1, <2>4, <2>5, OnePageEarlier
<1>2. \A j \in 1 .. n + 1 : n + 1 - j \in 0 .. n /\ n + 1 - (n + 1 - j) = j
  BY <1>0
<1> QED
  BY <1>1, <1>2

-----------------------------------------------------------------------------
(* The algorithms                                                          *)

(* FewestFrom solves its equations for the string that the program reads.  *)
LEMMA FewestAlways ==
  ASSUME TypeOK
  PROVE  SolvesFrom(FewestFrom(refs), refs, 1) /\ refs \in Strings
<1>1. refs \in Strings
  BY DEF TypeOK, Strings
<1> QED
  BY <1>1, FewestSolves

(* The reference that is next, and what is in memory.                      *)
LEMMA Referenced ==
  ASSUME IInv, Step
  PROVE  /\ i + 1 \in 1 .. no_of_references /\ i' + 1 = (i + 1) + 1 /\ refs' = refs
         /\ ref = refs[i + 1] /\ ref \in Page /\ ALGORITHM' = ALGORITHM
         /\ InMemory \in SUBSET Page /\ Seen \in SUBSET Page
<1>1. i \in Nat /\ i < no_of_references /\ i' = i + 1
  BY FieldTypes DEF IInv, Step
<1>2. i + 1 \in 1 .. no_of_references
  BY <1>1, PageAssumption DEF PageAssumption
<1>3. ref \in Page
  BY SeenGrows DEF IInv
<1>4. Seen \in SUBSET Page
  <2>1. 1 .. i \subseteq 1 .. no_of_references
    BY <1>1, PageAssumption DEF PageAssumption
  <2> QED
    BY <2>1 DEF Seen, IInv, TypeOK
<1> QED
  BY <1>1, <1>2, <1>3, <1>4 DEF Step, ref, IInv, NoneForgotten

(* A fault adds the page, and takes away the one whose frame it gets.      *)
LEMMA LoadChanges ==
  ASSUME IInv, Step, Matching = {}, NEW pos \in Frame, Load(pos)
  PROVE  /\ ref \notin InMemory
         /\ pos \in FreeFrames => InMemory' = InMemory \cup {ref}
         /\ FreeFrames = {} => /\ frames[pos].page \in InMemory
                               /\ InMemory' = Swap(InMemory, frames[pos].page, ref)
<1>1. \A f \in Frame :
        /\ f = pos => frames'[f].page = ref /\ frames'[f].free = FALSE
        /\ f # pos => frames'[f].page = frames[f].page /\ frames'[f].free = frames[f].free
  <2>1. Replaces(pos)
    BY LoadFacts DEF IInv
  <2> QED
    BY <2>1 DEF Replaces
<1>2. \A f \in Frame : frames[f].page # ref
  BY DEF Matching
<1>3. ref \notin InMemory
  BY <1>2 DEF InMemory, Occupied
<1>4. Occupied' = Occupied \cup {pos}
  BY <1>1 DEF FreeFrames, Occupied
<1>5. ASSUME pos \in FreeFrames PROVE InMemory' = InMemory \cup {ref}
  <2>1. pos \notin Occupied
    BY <1>5 DEF Occupied
  <2>2. \A f \in Occupied : f # pos /\ frames'[f].page = frames[f].page
    BY <1>1, <2>1 DEF Occupied
  <2> QED
    BY <1>1, <1>4, <2>2 DEF InMemory
<1>6. ASSUME FreeFrames = {}
      PROVE  /\ frames[pos].page \in InMemory
             /\ InMemory' = Swap(InMemory, frames[pos].page, ref)
  <2>1. Occupied = Frame /\ Occupied' = Frame
    BY <1>4, <1>6 DEF Occupied
  <2>2. \A f \in Frame : f # pos => frames[f].page # frames[pos].page
    BY <2>1 DEF IInv, PagesApart
  <2>3. InMemory = {frames[f].page : f \in Frame} /\ InMemory' = {frames'[f].page : f \in Frame}
    BY <2>1 DEF InMemory
  <2> QED
    BY <1>1, <2>2, <2>3 DEF Swap
<1> QED
  BY <1>3, <1>5, <1>6

(* OPT evicts a page that is not needed before any other.                  *)
LEMMA VictimIsLast ==
  ASSUME TypeOK, Step, ALGORITHM = "OPT", NEW f \in Frame
  PROVE  Sooner(refs, i + 2, frames[f].page, frames[findPageToEvict].page)
<1> DEFINE n == no_of_references
           v == findPageToEvict
           uses(g) == {j \in i + 2 .. n : refs[j] = frames[g].page}
<1>0. n \in Nat /\ i \in Nat
  BY FieldTypes, PageAssumption DEF PageAssumption
<1>1. v \in Frame /\ nextUse(v) >= nextUse(f)
  BY VictimFacts DEF Step
<1> HIDE DEF v
<1> SUFFICES ASSUME NEW h \in i + 2 .. n, refs[h] = frames[v].page
             PROVE  \E g \in i + 2 .. h : refs[g] = frames[f].page
  BY DEF Sooner, v
<1>2. \A g \in Frame : uses(g) \in SUBSET Nat
  BY <1>0
<1>3. /\ h \in uses(v) /\ Min(uses(v)) \in Nat /\ Min(uses(v)) <= h
      /\ nextUse(v) = Min(uses(v)) - (i + 1)
  <2>1. h \in uses(v)
    OBVIOUS
  <2>2. nextUse(v) = Min(uses(v)) - (i + 1)
    BY <2>1 DEF nextUse
  <2>3. uses(v) \in SUBSET Nat
    BY <1>1, <1>2
  <2> HIDE DEF uses
  <2>4. Min(uses(v)) \in uses(v) /\ Min(uses(v)) <= h
    BY <2>1, <2>3, MinLeast
  <2> QED
    BY <2>1, <2>2, <2>3, <2>4
<1>4. uses(f) # {}
  <2> SUFFICES ASSUME uses(f) = {} PROVE FALSE
    OBVIOUS
  <2>1. i + 1 < n
    BY <1>0
  <2>2. nextUse(f) = n
    BY <2>1 DEF nextUse
  <2>3. h \in Int /\ h <= n
    BY <1>0
  <2> HIDE DEF uses
  <2> QED
    BY <1>0, <1>1, <1>3, <2>2, <2>3
<1>5. nextUse(f) = Min(uses(f)) - (i + 1)
  BY <1>4 DEF nextUse
<1>6. Min(uses(f)) \in uses(f)
  <2>1. uses(f) \in SUBSET Nat
    BY <1>2
  <2> HIDE DEF uses
  <2> QED
    BY <1>4, <2>1, MinLeast
<1>7. Min(uses(f)) \in i + 2 .. n /\ refs[Min(uses(f))] = frames[f].page
  BY <1>6
<1> HIDE DEF uses
<1>8. Min(uses(f)) <= Min(uses(v))
  BY <1>0, <1>1, <1>3, <1>5, <1>7
<1>9. Min(uses(f)) \in i + 2 .. h
  BY <1>0, <1>3, <1>7, <1>8
<1> QED
  BY <1>7, <1>9

(* What has been paid, and the least that is still to be paid.             *)
Total == faults + FewestFrom(refs)[i + 1][InMemory]

(* No algorithm gets below what was the least at first, and OPT stays at it.*)
Bounded ==
  /\ Total >= FewestFrom(refs)[1][{}]
  /\ ALGORITHM = "OPT" => Total = FewestFrom(refs)[1][{}]

OptInv == IInv /\ Bounded

(* The fewest faults from any reference on are a number.                   *)
LEMMA FewestTypes ==
  ASSUME TypeOK, NEW j \in 1 .. no_of_references + 1, NEW mem \in SUBSET Page
  PROVE  FewestFrom(refs)[j][mem] \in Nat
BY FewestAlways DEF SolvesFrom, Costs

(* Total never falls, and with OPT it does not rise either.                *)
LEMMA TotalKept ==
  ASSUME IInv, IInv', Hit \/ UseFree \/ Evict
  PROVE  /\ Total \in Nat /\ Total' \in Nat /\ Total' >= Total
         /\ ALGORITHM = "OPT" => Total' = Total
<1> DEFINE F == FewestFrom(refs)
           j == i + 1
<1>0. Step
  BY DEF Hit, UseFree, Evict
<1>1. /\ j \in 1 .. no_of_references /\ i' + 1 = j + 1 /\ refs' = refs
      /\ ref = refs[j] /\ ref \in Page /\ InMemory \in SUBSET Page
  BY <1>0, Referenced
<1>2. InMemory' \in SUBSET Page
  <2>1. InMemory' \subseteq Seen' /\ Seen' = Seen \cup {ref}
    BY <1>0, SeenGrows DEF IInv, NoneForgotten
  <2>2. Seen \subseteq Page
    BY <1>0, Referenced
  <2> QED
    BY <1>1, <2>1, <2>2
<1>3. SolvesFrom(F, refs, 1) /\ refs \in Strings
  BY FewestAlways DEF IInv
<1>4. /\ j \in 1 .. no_of_references + 1 /\ j + 1 \in 1 .. no_of_references + 1
      /\ F[j] \in Costs /\ F[j + 1] \in Costs /\ F[j] = Stage(refs, j, F[j + 1])
  <2>1. j \in 1 .. no_of_references + 1 /\ j + 1 \in 1 .. no_of_references + 1
    BY <1>1, PageAssumption DEF PageAssumption
  <2> QED
    BY <1>1, <1>3, <2>1 DEF SolvesFrom
<1>5. F[j][InMemory] \in Nat /\ F[j + 1][InMemory'] \in Nat /\ faults \in Nat
  BY <1>1, <1>2, <1>4 DEF Costs, IInv, TypeOK
<1>6. Total = faults + F[j][InMemory] /\ Total' = faults' + F[j + 1][InMemory']
  BY <1>1 DEF Total
<1>7. IF ref \in InMemory THEN F[j][InMemory] = F[j + 1][InMemory]
      ELSE /\ \E m \in Replaced(InMemory, ref) : F[j][InMemory] = 1 + F[j + 1][m]
           /\ \A m \in Replaced(InMemory, ref) : F[j][InMemory] <= 1 + F[j + 1][m]
  BY <1>1, <1>3, <1>4, StageFacts
<1> HIDE DEF F, j
<1>8. CASE Hit
  <2>1. ref \in InMemory /\ InMemory' = InMemory /\ faults' = faults
    BY <1>8, HitMemory DEF Hit
  <2>2. Total' = Total
    BY <1>6, <1>7, <2>1
  <2> QED
    BY <1>5, <1>6, <2>1, <2>2
<1>9. CASE UseFree
  <2>1. PICK pos \in Frame : Matching = {} /\ Load(pos) /\ pos \in FreeFrames
    BY <1>9, LoadPlace DEF IInv, UseFree
  <2>2. ref \notin InMemory /\ InMemory' = InMemory \cup {ref} /\ faults' = faults + 1
    BY <1>0, <2>1, LoadChanges DEF Load
  <2>3. Replaced(InMemory, ref) = {InMemory'}
    <3>1. Cardinality(InMemory) < no_of_frames
      BY <2>1, MemorySize
    <3> QED
      BY <2>2, <3>1 DEF Replaced
  <2>4. F[j][InMemory] = 1 + F[j + 1][InMemory']
    BY <1>7, <2>2, <2>3
  <2> QED
    BY <1>5, <1>6, <2>2, <2>4
<1>10. CASE Evict
  <2> DEFINE v == frames[findPageToEvict].page
  <2>1. /\ Matching = {} /\ FreeFrames = {} /\ findPageToEvict \in Frame
        /\ Load(findPageToEvict)
    BY <1>0, <1>10, VictimFacts DEF Evict, Step, IInv
  <2>2. /\ ref \notin InMemory /\ v \in InMemory /\ faults' = faults + 1
        /\ InMemory' = Swap(InMemory, v, ref)
    BY <1>0, <2>1, LoadChanges DEF Load
  <2>3. Full(InMemory)
    BY <1>1, <2>1, MemorySize DEF Full
  <2>4. Replaced(InMemory, ref) = {Swap(InMemory, p, ref) : p \in InMemory}
    BY <2>3, ReplacedFull
  <2>5. F[j][InMemory] <= 1 + F[j + 1][InMemory']
    BY <1>7, <2>2, <2>4
  <2>6. ASSUME ALGORITHM = "OPT" PROVE F[j][InMemory] = 1 + F[j + 1][InMemory']
    <3>1. PICK x \in InMemory : F[j][InMemory] = 1 + F[j + 1][Swap(InMemory, x, ref)]
      BY <1>7, <2>2, <2>4
    <3>2. F[j + 1][InMemory'] <= F[j + 1][Swap(InMemory, x, ref)]
      <4>1. CASE x = v
        BY <1>5, <2>2, <4>1
      <4>2. CASE x # v
        <5>1. /\ Full(InMemory') /\ x \in InMemory' /\ v \notin InMemory'
              /\ Swap(InMemory', x, v) = Swap(InMemory, x, ref)
          BY <1>1, <2>2, <2>3, <4>2, SwapFull DEF Swap
        <5>2. PICK f \in Frame : x = frames[f].page
          BY DEF InMemory, Occupied
        <5>3. Sooner(refs, i + 2, x, v)
          BY <1>0, <2>6, <5>2, VictimIsLast DEF IInv
        <5>4. i + 2 = j + 1
          BY FieldTypes DEF j, IInv
        <5>5. OnePageAt(refs, F, j + 1)
          BY <1>3, <1>4, OnePage
        <5> QED
          BY <1>1, <1>2, <2>2, <5>1, <5>3, <5>4, <5>5 DEF OnePageAt
      <4> QED
        BY <4>1, <4>2
    <3>3. F[j + 1][Swap(InMemory, x, ref)] \in Nat
      BY <1>1, <1>4, <2>2, <2>3, SwapFull DEF Costs
    <3> QED
      BY <1>5, <2>5, <3>1, <3>2, <3>3
  <2> QED
    BY <1>5, <1>6, <2>2, <2>5, <2>6
<1> QED
  BY <1>8, <1>9, <1>10

(* OPT has the fewest faults that any choice of pages to evict can have,   *)
(* and none of LRU, FIFO and LFU has fewer, for any reference string       *)
(* (main.c:126).                                                           *)
THEOREM OptFaultsLeast == FreshUnreferenced /\ Spec => []OptIsOptimal
<1>1. FreshUnreferenced /\ Init => OptInv
  <2> SUFFICES ASSUME FreshUnreferenced, Init PROVE OptInv
    OBVIOUS
  <2>1. IInv
    BY InitTypes, InitMemory DEF IInv
  <2>2. InMemory = {} /\ i = 0 /\ faults = 0
    BY <2>1 DEF Init, IInv, NoneForgotten, Seen
  <2>3. 1 \in 1 .. no_of_references + 1
    BY PageAssumption DEF PageAssumption
  <2>4. FewestFrom(refs)[1][{}] \in Nat
    BY <2>1, <2>3, FewestTypes DEF IInv
  <2> QED
    BY <2>1, <2>2, <2>4 DEF OptInv, Bounded, Total
<1>2. OptInv /\ [Next]_vars => OptInv'
  <2> SUFFICES ASSUME OptInv, [Next]_vars PROVE OptInv'
    OBVIOUS
  <2>1. IInv /\ IInv'
    BY NextMemory DEF OptInv
  <2>2. CASE Hit \/ UseFree \/ Evict
    <3>1. refs' = refs /\ ALGORITHM' = ALGORITHM
      BY <2>2 DEF Hit, UseFree, Evict, Step
    <3>2. FewestFrom(refs)[1][{}] \in Nat
      <4>1. 1 \in 1 .. no_of_references + 1
        BY PageAssumption DEF PageAssumption
      <4> QED
        BY <2>1, <4>1, FewestTypes DEF IInv
    <3>3. /\ Total \in Nat /\ Total' \in Nat /\ Total' >= Total
          /\ ALGORITHM = "OPT" => Total' = Total
      BY <2>1, <2>2, TotalKept
    <3> QED
      BY <2>1, <3>1, <3>2, <3>3 DEF OptInv, Bounded
  <2>3. CASE UNCHANGED vars
    BY <2>1, <2>3 DEF vars, OptInv, Bounded, Total, InMemory, Occupied, FreeFrames
  <2> QED
    BY <2>2, <2>3 DEF Next, Done
<1>3. OptInv => OptIsOptimal
  <2> SUFFICES ASSUME OptInv, i = no_of_references
      PROVE  /\ faults >= FewestFrom(refs)[1][{}]
             /\ ALGORITHM = "OPT" => faults = FewestFrom(refs)[1][{}]
    BY DEF OptIsOptimal
  <2>1. FewestFrom(refs)[i + 1][InMemory] = 0
    <3>1. InMemory \in SUBSET Page
      BY DEF OptInv, IInv, NoneForgotten, Seen, TypeOK
    <3> QED
      BY <3>1, FewestAlways DEF OptInv, IInv, SolvesFrom
  <2>2. faults \in Nat
    BY DEF OptInv, IInv, TypeOK
  <2> QED
    BY <2>1, <2>2 DEF OptInv, Bounded, Total
<1> QED
  BY <1>1, <1>2, <1>3, PTL DEF Spec
=============================================================================
