------------------------------ MODULE FelixList ------------------------------
(***************************************************************************)
(* lab3felix/server.c: the list of planets as it was before the mutex.     *)
(* The mail thread, the copy of createPlanetArg and the body of the        *)
(* acceleration loop are those of PlanetList, statement by statement; the  *)
(* walks of addToList, removeFromList and do_drawing are split here, since *)
(* every read of a next field may find it changed.  A planet tests the     *)
(* life in its own copy of the request, which nothing ever lowers, and     *)
(* starts its calculation at its own node.  name[0] is never 0: a thread   *)
(* is created after the first name has been written to createPlanetArg.    *)
(***************************************************************************)
EXTENDS PlanetList

VARIABLES
  held,   \* of every thread and the drawer: temp1 and the next it has loaded
  raced   \* whether two threads were ever inside list updates at one time

felixVars == <<vars, held>>
felixRest == <<mailVars, mutex, args, draw, fault>>

FelixInit ==
  /\ Init
  /\ held = [t \in Thread \cup {Drawer} |-> [node |-> NULL, succ |-> NULL]]
  /\ raced = FALSE

(* manageMail reads a request and creates a thread as in lab3.             *)
felixMail == manageMail /\ UNCHANGED held

-----------------------------------------------------------------------------
(* addToList                                                               *)

FelixAdd(t) ==
  /\ Goto(t, "lock add", "walk")
  /\ temp' = [temp EXCEPT ![t] = headGlob]
  /\ UNCHANGED <<felixRest, listVars, planetPointer, held>>

(* while(tempo->next != NULL) ...                                          *)
FelixWalk(t) ==
  /\ Valid(temp[t])
  /\ Goto(t, "walk", IF next[temp[t]] = NULL THEN "link" ELSE "step")
  /\ UNCHANGED <<felixRest, listVars, planetPointer, temp, held>>

(* ... the name behind tempo->next is printed, and tempo goes there.       *)
FelixStep(t) ==
  /\ ValidNext(temp[t])
  /\ Goto(t, "step", "walk")
  /\ temp' = [temp EXCEPT ![t] = next[temp[t]]]
  /\ UNCHANGED <<felixRest, listVars, planetPointer, held>>

(* Mutant: tempo->next is set before the node has been filled in.          *)
FelixLinkUnset(t) ==
  /\ Valid(temp[t])
  /\ Goto(t, "link", "test")
  /\ \E n \in Node \ alloc :
       /\ alloc' = alloc \cup {n}
       /\ data' = [data EXCEPT ![n] = args[t]]
       /\ next' = [next EXCEPT ![n] = Wild, ![temp[t]] = n]
       /\ planetPointer' = [planetPointer EXCEPT ![t] = n]
  /\ UNCHANGED <<felixRest, life, temp, held>>

(* The node found last gets the new one, though it may no more be last.    *)
FelixLink(t) ==
  /\ Valid(temp[t])
  /\ Goto(t, "link", "test")
  /\ \/ \E n \in Node \ alloc :
          /\ alloc' = alloc \cup {n}
          /\ data' = [data EXCEPT ![n] = args[t]]
          /\ next' = [next EXCEPT ![n] = NULL, ![temp[t]] = n]
          /\ planetPointer' = [planetPointer EXCEPT ![t] = n]
     \/ UNCHANGED <<alloc, data, next, planetPointer>>
  /\ UNCHANGED <<felixRest, life, temp, held>>

-----------------------------------------------------------------------------
(* planet                                                                  *)

(* if(args.planetToCreate.life == 0)                                       *)
FelixTest(t) ==
  /\ pc[t] = "test"
  /\ IF LifeOf[args[t].rest] = 0
     THEN Goto(t, "test", "search") /\ temp' = [temp EXCEPT ![t] = headGlob]
     ELSE Goto(t, "test", "gravity") /\ temp' = [temp EXCEPT ![t] = planetPointer[t]]
  /\ UNCHANGED <<felixRest, listVars, planetPointer, held>>

(* Speed and position of the own planet are written.                       *)
FelixMove(t) ==
  /\ Valid(planetPointer[t])
  /\ Goto(t, "move", "test")
  /\ UNCHANGED <<felixRest, listVars, planetPointer, temp, held>>

-----------------------------------------------------------------------------
(* removeFromList                                                          *)

(* strcmp(tempo->next->name, ...) in the condition of the loop ...         *)
FelixSearch(t) ==
  /\ pc[t] = "search"
  /\ ValidNext(temp[t])
  /\ Goto(t, "search", IF NameAt(next[temp[t]]) = NameIn(t) THEN "take" ELSE "end")
  /\ UNCHANGED <<felixRest, listVars, planetPointer, temp, held>>

(* ... its body returns if tempo->next has become NULL ...                 *)
FelixEnd(t) ==
  /\ Valid(temp[t])
  /\ Goto(t, "end", IF next[temp[t]] = NULL THEN "gone" ELSE "on")
  /\ UNCHANGED <<felixRest, listVars, planetPointer, temp, held>>

(* ... and else goes on.                                                   *)
FelixOn(t) ==
  /\ Valid(temp[t])
  /\ Goto(t, "on", "search")
  /\ temp' = [temp EXCEPT ![t] = next[temp[t]]]
  /\ UNCHANGED <<felixRest, listVars, planetPointer, held>>

(* temp1 = tempo->next                                                     *)
FelixTake(t) ==
  /\ Valid(temp[t])
  /\ Goto(t, "take", "load")
  /\ held' = [held EXCEPT ![t].node = next[temp[t]]]
  /\ UNCHANGED <<felixRest, listVars, planetPointer, temp>>

(* tempo->next = tempo->next->next is a load and a store.                  *)
FelixLoad(t) ==
  /\ ValidNext(temp[t])
  /\ Goto(t, "load", "store")
  /\ held' = [held EXCEPT ![t].succ = next[next[temp[t]]]]
  /\ UNCHANGED <<felixRest, listVars, planetPointer, temp>>

(* Mutant: the node is freed without being unlinked.                       *)
FelixStoreNever(t) ==
  /\ Valid(temp[t])
  /\ Goto(t, "store", "free")
  /\ UNCHANGED <<felixRest, listVars, planetPointer, temp, held>>

FelixStore(t) ==
  /\ Valid(temp[t])
  /\ Goto(t, "store", "free")
  /\ next' = [next EXCEPT ![temp[t]] = held[t].succ]
  /\ UNCHANGED <<felixRest, alloc, data, life, planetPointer, temp, held>>

FelixFree(t) ==
  /\ Valid(held[t].node)
  /\ Goto(t, "free", "gone")
  /\ alloc' = alloc \ {held[t].node}
  /\ UNCHANGED <<felixRest, next, data, life, planetPointer, temp, held>>

-----------------------------------------------------------------------------
(* The same statements when the pointer they follow is bad.                *)
FelixTrip(t) ==
  /\ \/ pc[t] \in {"walk", "link"} /\ ~Valid(temp[t]) /\ Crash(t, "add")
     \/ pc[t] = "step" /\ ~ValidNext(temp[t]) /\ Crash(t, "add")
     \/ pc[t] \in {"search", "load"} /\ ~ValidNext(temp[t]) /\ Crash(t, "remove")
     \/ pc[t] \in {"end", "on", "take", "store"} /\ ~Valid(temp[t]) /\ Crash(t, "remove")
     \/ pc[t] = "free" /\ ~Valid(held[t].node) /\ Crash(t, "remove")
     \/ /\ \/ pc[t] = "gravity" /\ ~Valid(temp[t])
           \/ pc[t] = "pull" /\ ~ValidNext(temp[t])
        /\ Crash(t, IF Valid(planetPointer[t]) THEN "gravity" ELSE "own planet")
     \/ pc[t] \in {"pull", "move"} /\ ~Valid(planetPointer[t]) /\ Crash(t, "own planet")
  /\ UNCHANGED held

felixPlanet(t) ==
  \/ (CopyName(t) \/ CopyRest(t) \/ GravityTest(t) \/ GravityPull(t)) /\ UNCHANGED held
  \/ FelixAdd(t) \/ FelixWalk(t) \/ FelixStep(t) \/ FelixLink(t)
  \/ FelixTest(t) \/ FelixMove(t)
  \/ FelixSearch(t) \/ FelixEnd(t) \/ FelixOn(t)
  \/ FelixTake(t) \/ FelixLoad(t) \/ FelixStore(t) \/ FelixFree(t) \/ FelixTrip(t)

-----------------------------------------------------------------------------
(* do_drawing and drawPlanet                                               *)

Draw(from, to) == draw.pc = from /\ draw' = [draw EXCEPT !.pc = to]
drawUnchanged == UNCHANGED <<listVars, mailVars, mutex, pc, args, planetPointer, temp, fault>>

(* temp = headGlob                                                         *)
FelixDrawBegin ==
  /\ draw.pc = "begin"
  /\ draw' = [pc |-> "test", temp |-> headGlob]
  /\ held' = [held EXCEPT ![Drawer].node = NULL]
  /\ drawUnchanged

(* while(temp->next != NULL)                                               *)
FelixDrawTest ==
  /\ Valid(draw.temp)
  /\ Draw("test", IF next[draw.temp] = NULL THEN "begin" ELSE "call")
  /\ drawUnchanged /\ UNCHANGED held

(* drawPlanet is given temp->next ...                                      *)
FelixDrawCall ==
  /\ Valid(draw.temp)
  /\ Draw("call", "draw")
  /\ held' = [held EXCEPT ![Drawer].node = next[draw.temp]]
  /\ drawUnchanged

(* ... and reads and writes the planet there: points, then mult.           *)
FelixDrawPlanet ==
  /\ Valid(held[Drawer].node)
  /\ Draw("draw", "on")
  /\ drawUnchanged /\ UNCHANGED held

(* temp = temp->next                                                       *)
FelixDrawOn ==
  /\ Valid(draw.temp)
  /\ draw.pc = "on"
  /\ draw' = [pc |-> "test", temp |-> next[draw.temp]]
  /\ drawUnchanged /\ UNCHANGED held

FelixDrawTrip ==
  /\ \/ draw.pc \in {"test", "call", "on"} /\ ~Valid(draw.temp)
     \/ draw.pc = "draw" /\ ~Valid(held[Drawer].node)
  /\ draw' = [draw EXCEPT !.pc = "crashed"]
  /\ fault' = IF draw.temp = NULL /\ held[Drawer].node = NULL THEN "first draw" ELSE "draw"
  /\ UNCHANGED <<listVars, mailVars, mutex, pc, args, planetPointer, temp, held>>

felixDrawing == \/ FelixDrawBegin \/ FelixDrawTest \/ FelixDrawCall
                \/ FelixDrawPlanet \/ FelixDrawOn \/ FelixDrawTrip

-----------------------------------------------------------------------------
Adding == {"walk", "step", "link"}
Removing == {"search", "end", "on", "take", "load", "store", "free"}

(* Whether two threads are in addToList or removeFromList.                 *)
Overlap == \E t, u \in Thread : t # u /\ {pc[t], pc[u]} \subseteq Adding \cup Removing

FelixNext ==
  /\ \/ fault = "none" /\ (felixMail \/ felixDrawing \/ \E t \in Thread : felixPlanet(t))
     \/ Crashed /\ UNCHANGED held
  /\ raced' = (raced \/ Overlap')

FelixSpec == FelixInit /\ [][FelixNext]_<<felixVars, raced>>

-----------------------------------------------------------------------------
(* Neither malloc has failed and the head is fit to be followed: a thread  *)
(* has its planet, unless it never got so far.                             *)
Started == {"name", "rest", "lock add"} \cup Adding
MemoryGood ==
  /\ Tame
  /\ \A t \in Thread : \/ pc[t] \in Started \cup {"none"}
                       \/ pc[t] = "crashed" /\ fault = "add"
                       \/ planetPointer[t] # Wild

FelixLinked == alloc \ {held[t].node : t \in {u \in Thread : pc[u] = "free"}}
FelixOrbiting ==
  {t \in Thread : pc[t] \in {"test", "gravity", "pull", "move"} \cup (Removing \ {"free"})}

(* Pointers point to nodes, or nowhere; nobody touches the mutex.          *)
FelixTypeOK ==
  /\ next \in [Node \cup {HeadNode} -> Pointer \ {HeadNode}] /\ alloc \in SUBSET Node
  /\ data \in [Node -> Copy] /\ args \in [Thread -> Copy]
  /\ pc \in [Thread -> Started \cup Removing \cup
                        {"none", "test", "gravity", "pull", "move", "gone", "crashed"}]
  /\ planetPointer \in [Thread -> Node \cup {Wild}] /\ temp \in [Thread -> Pointer]
  /\ held \in [Thread \cup {Drawer} -> [node : Pointer, succ : Pointer]]
  /\ draw \in [pc : {"begin", "test", "call", "draw", "on", "crashed"}, temp : Pointer]
  /\ mutex = Free
  /\ fault \in {"none", "add", "remove", "gravity", "own planet", "first draw", "draw"}

(* What the missing mutex is missing for: as long as no two threads have   *)
(* been in addToList or removeFromList at a time, a walk from the head     *)
(* meets exactly the planets that live, neither function follows a bad     *)
(* pointer, and planets of different names stay until their own thread     *)
(* removes them.                                                           *)
SerialUpdatesSafe ==
  /\ FelixTypeOK
  /\ ~raced /\ MemoryGood =>
       /\ (\A t \in Thread : pc[t] # "free") => Reach = alloc \cup {HeadNode}
       /\ fault \notin {"add", "remove"}
       /\ NamesDistinct => \A t \in FelixOrbiting :
            planetPointer[t] \in FelixLinked /\ data[planetPointer[t]] = args[t]

(* Threads that add planets at the same time may lose planets from the     *)
(* list, but nobody follows a bad pointer in addToList, in the calculation *)
(* or when drawing before some thread has unlinked a planet, unless        *)
(* initList left no head, or one whose next field is wild.                 *)
AddsOnlyLose ==
  fault \in {"add", "gravity", "draw"} /\ Tame =>
    \E t \in Thread : pc[t] \in {"free", "gone"}
=============================================================================
