-------------------------- MODULE PageReplacement --------------------------
(***************************************************************************)
(* Lab_5/main.c: a simulator of page replacement.  main goes through the   *)
(* reference string; a referenced page is in some frame, or is put in a    *)
(* free frame, or replaces the page that findPageToEvict selects.          *)
(***************************************************************************)
EXTENDS Integers, FiniteSets, FiniteSetsExt, Sequences

CONSTANTS Page,
          NoPage,            \* a page number that is never referenced
          no_of_frames,
          no_of_references,  \* bound: length of the reference string
          Algorithms,        \* values of ALGORITHM
          FreshPage          \* what the page field of a fresh frame may hold

ASSUME PageAssumption ==
  /\ no_of_frames \in Nat \ {0} /\ no_of_references \in Nat
  /\ Algorithms \subseteq {"LRU", "FIFO", "LFU", "OPT"}
  /\ NoPage \notin Page /\ FreshPage \subseteq Page \cup {NoPage}

Frame == 0 .. no_of_frames - 1

VARIABLES
  ALGORITHM,
  refs,      \* the reference string
  i,         \* number of references that are done
  frames,
  counter,   \* the clock that stamps frames
  faults,
  hits,      \* history: the references counted as no page fault
  loaded     \* history: loaded[f] is the reference that put its page in f

vars == <<ALGORITHM, refs, i, frames, counter, faults, hits, loaded>>

(* initilize sets neither page nor time; time is not read before it is set.*)
Init ==
  /\ ALGORITHM \in Algorithms
  /\ refs \in [1 .. no_of_references -> Page]
  /\ i = 0
  /\ \E fresh \in [Frame -> FreshPage] :
       frames = [f \in Frame |-> [page |-> fresh[f], time |-> 0, free |-> TRUE,
                                  timeSinceSwitch |-> 0, timesUsed |-> 0]]
  /\ counter = 0
  /\ faults = 0
  /\ hits = {}
  /\ loaded = [f \in Frame |-> 0]

FreeFrames == {f \in Frame : frames[f].free}
Occupied == Frame \ FreeFrames
InMemory == {frames[f].page : f \in Occupied}

-----------------------------------------------------------------------------
(* findPageToEvict                                                         *)

FirstMin(key) == Min({f \in Frame : \A g \in Frame : key[f] <= key[g]})
FirstMax(key) == Min({f \in Frame : \A g \in Frame : key[f] >= key[g]})

leastRecent == FirstMin([f \in Frame |-> frames[f].time])

(* Mutant: a page that is not referenced again counts as referenced now.   *)
nextUseOrNow(f) ==
  LET uses == {j \in i + 2 .. no_of_references : refs[j] = frames[f].page}
  IN  IF uses = {} THEN 0 ELSE Min(uses) - (i + 1)

(* References until the page in f is needed; no_of_references if never.    *)
nextUse(f) ==
  LET uses == {j \in i + 2 .. no_of_references : refs[j] = frames[f].page}
  IN  IF uses # {} THEN Min(uses) - (i + 1)
      ELSE IF i + 1 < no_of_references THEN no_of_references ELSE 0

findPageToEvict ==
  CASE ALGORITHM = "LRU"  -> leastRecent
    [] ALGORITHM = "FIFO" -> FirstMax([f \in Frame |-> frames[f].timeSinceSwitch])
    [] ALGORITHM = "LFU"  -> FirstMin([f \in Frame |-> frames[f].timesUsed])
    [] ALGORITHM = "OPT"  -> FirstMax([f \in Frame |-> nextUse(f)])

-----------------------------------------------------------------------------
(* One iteration of the loop in main                                       *)

ref == refs[i + 1]

(* The frames whose page field is the referenced page, free ones too.      *)
Matching == {f \in Frame : frames[f].page = ref}

(* The next reference; whichever way it goes, the clock goes on.           *)
Step ==
  /\ i < no_of_references
  /\ i' = i + 1
  /\ counter' = counter + 1
  /\ UNCHANGED <<ALGORITHM, refs>>

(* Mutant: a hit does not renew the time stamp.                            *)
stampedOnce(frame) == [frame EXCEPT !.timesUsed = @ + 1]

(* A hit renews the time stamp.                                            *)
stamped(frame) == [frame EXCEPT !.time = counter + 1, !.timesUsed = @ + 1]

(* The scan ages the frames it passes, and stops at the first match.       *)
Hit ==
  /\ Step
  /\ Matching # {}
  /\ frames' = [f \in Frame |->
                  IF f < Min(Matching) THEN [frames[f] EXCEPT !.timeSinceSwitch = @ + 1]
                  ELSE IF f = Min(Matching) THEN stamped(frames[f])
                  ELSE frames[f]]
  /\ hits' = hits \cup {i + 1}
  /\ UNCHANGED <<faults, loaded>>

(* Mutant: the frame that is loaded ages like the others.                  *)
LoadAges(pos) ==
  /\ frames' = [f \in Frame |->
                  IF f = pos THEN [page |-> ref, time |-> counter + 1, free |-> FALSE,
                                   timeSinceSwitch |-> frames[f].timeSinceSwitch + 1,
                                   timesUsed |-> frames[f].timesUsed + 1]
                  ELSE [frames[f] EXCEPT !.timeSinceSwitch = @ + 1]]
  /\ faults' = faults + 1
  /\ loaded' = [loaded EXCEPT ![pos] = i + 1]
  /\ UNCHANGED hits

(* Mutant: the page is put in the frame, which stays free.                 *)
LoadFree(pos) ==
  /\ frames' = [f \in Frame |->
                  IF f = pos THEN [frames[f] EXCEPT !.page = ref, !.time = counter + 1,
                                     !.timeSinceSwitch = 0, !.timesUsed = @ + 1]
                  ELSE [frames[f] EXCEPT !.timeSinceSwitch = @ + 1]]
  /\ faults' = faults + 1
  /\ loaded' = [loaded EXCEPT ![pos] = i + 1]
  /\ UNCHANGED hits

(* No match: all frames have aged, and the page is put in frame pos.       *)
Load(pos) ==
  /\ frames' = [f \in Frame |->
                  IF f = pos THEN [page |-> ref, time |-> counter + 1, free |-> FALSE,
                                   timeSinceSwitch |-> 0, timesUsed |-> frames[f].timesUsed + 1]
                  ELSE [frames[f] EXCEPT !.timeSinceSwitch = @ + 1]]
  /\ faults' = faults + 1
  /\ loaded' = [loaded EXCEPT ![pos] = i + 1]
  /\ UNCHANGED hits

UseFree == Step /\ Matching = {} /\ FreeFrames # {} /\ Load(Min(FreeFrames))

Evict == Step /\ Matching = {} /\ FreeFrames = {} /\ Load(findPageToEvict)

(* The total is printed and the program ends.                              *)
Done == i = no_of_references /\ UNCHANGED vars

Next == Hit \/ UseFree \/ Evict \/ Done

Spec == Init /\ [][Next]_vars
-----------------------------------------------------------------------------
(* Every reference stamps one frame with the next tick and is counted as   *)
(* used in one frame, which is a fault or a hit.                           *)
TypeOK ==
  /\ frames \in [Frame -> [page : Page \cup {NoPage}, time : 0 .. i, free : BOOLEAN,
                           timeSinceSwitch : 0 .. i, timesUsed : 0 .. i]]
  /\ ALGORITHM \in Algorithms /\ refs \in [1 .. no_of_references -> Page]
  /\ i \in 0 .. no_of_references /\ counter = i
  /\ hits \subseteq 1 .. i /\ faults \in Nat /\ faults + Cardinality(hits) = i
  /\ loaded \in [Frame -> 0 .. i]

(* No page is in two frames, and free frames are filled before any page is *)
(* evicted: as many pages are in memory as were referenced, until it is    *)
(* full.  This holds for every algorithm while a fresh frame holds no page *)
(* number that is referenced.                                              *)
MemoryFills ==
  /\ TypeOK
  /\ \A f, g \in Occupied : frames[f].page = frames[g].page => f = g
  /\ Cardinality(InMemory) = Min({no_of_frames, Cardinality({refs[j] : j \in 1 .. i})})

(* What memory may hold after a fault: with room in it, nothing has to go. *)
Replaced(mem, page) ==
  IF Cardinality(mem) < no_of_frames THEN {mem \cup {page}}
  ELSE {(mem \ {p}) \cup {page} : p \in mem}

(* The fewest faults for the references of string from the j-th on, for    *)
(* each set of pages that memory may hold before it.                       *)
FewestFrom(string) ==
  LET Fewest[j \in 1 .. no_of_references + 1] ==
        [mem \in SUBSET Page |->
           IF j > no_of_references THEN 0
           ELSE IF string[j] \in mem THEN Fewest[j + 1][mem]
           ELSE 1 + Min({Fewest[j + 1][m] : m \in Replaced(mem, string[j])})]
  IN  Fewest

(* OPT has the fewest faults that any choice of pages to evict can have,   *)
(* and no algorithm has fewer.                                             *)
OptIsOptimal ==
  i = no_of_references =>
    /\ faults >= FewestFrom(refs)[1][{}]
    /\ ALGORITHM = "OPT" => faults = FewestFrom(refs)[1][{}]

(* With ALGORITHM = LRU the frames, in the order of their time stamps, are *)
(* the list of the pages used last.                                        *)
occupancy == Cardinality(Occupied)

ByTime == CHOOSE s \in [1 .. occupancy -> Occupied] :
            \A j, k \in 1 .. occupancy : j < k => frames[s[j]].time > frames[s[k]].time

Recency == INSTANCE RecencyList WITH
             Size <- no_of_frames,
             last <- IF ALGORITHM # "LRU" \/ i = 0 THEN NoPage ELSE refs[i],
             recent <- IF ALGORITHM # "LRU" THEN << >>
                       ELSE [k \in 1 .. occupancy |-> frames[ByTime[k]].page]

LRUIsRecency == Recency!Spec

(* FIFO evicts the oldest page, although a hit ages only the frames before *)
(* it: a younger page goes instead only if its frame comes before that of  *)
(* the older one, and some reference has hit since it was loaded.          *)
OldestLeaves ==
  [][(ALGORITHM = "FIFO" /\ Evict) =>
       \A f, g \in Frame :
         loaded'[f] # loaded[f] /\ loaded[g] < loaded[f] =>
           f < g /\ \E h \in hits : h > loaded[f]]_vars
=============================================================================
