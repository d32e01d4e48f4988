----------------------------- MODULE PlanetList -----------------------------
(***************************************************************************)
(* lab3/server.c: the linked list of planets, shared by the mail thread    *)
(* that starts planet threads, by the planet threads that add, move and    *)
(* remove their planet, and by the GTK thread that draws the list.         *)
(* A pointer is followed only if it is to allocated memory; following any  *)
(* other ends the behaviour with fault naming the code that did it.        *)
(* Positions are not modelled: a planet may leave the screen at any test.  *)
(***************************************************************************)
EXTENDS Integers, FiniteSets

CONSTANTS Request,    \* the planets that clients ask for
          NameOf,     \* name of each of them, as typed by the user
          LifeOf,     \* its life
          Thread,     \* the planet threads the server can start
          Node,       \* the addresses malloc has to give out
          HeadNode,   \* the list head, allocated by initList
          NULL,
          Wild,       \* a value that is neither NULL nor an address in use
          FreshNext,  \* what head->next holds when initList returns
          Drawer,     \* the GTK main thread
          Free        \* the mutex has no owner

ASSUME PointerAssumption ==
  /\ HeadNode \notin Node /\ NULL \notin Node /\ Wild \notin Node
  /\ HeadNode # NULL /\ Wild # NULL /\ Wild # HeadNode
  /\ FreshNext \subseteq {NULL, Wild}

ASSUME AddressAssumption == IsFiniteSet(Node)

ASSUME OwnerAssumption == Drawer \notin Thread /\ Free \notin Thread \cup {Drawer}

ASSUME RequestAssumption == LifeOf \in [Request -> Int] /\ NULL \notin Request

VARIABLES
  headGlob,  \* the head as the GTK thread sees it
  next,      \* the next field of every node
  alloc,     \* the nodes that are allocated
  data,      \* the request whose name, and whose other fields, a node holds
  life,      \* the life field of every node
  mutex,     \* owner of the pthread mutex, or Free
  pending,   \* requests not yet read from the mailslot
  mail,      \* next statement of the mail thread, the request it has in msg
  createPlanetArg,  \* the one struct that every new thread is pointed to
  asked,     \* asked[t]: the request that thread t was created for
  pc, args, planetPointer, temp,  \* of every planet thread
  draw,      \* next statement of do_drawing, and its pointer
  fault      \* the code that followed a bad pointer, or "none"

listVars == <<next, alloc, data, life>>
mailVars == <<headGlob, pending, mail, createPlanetArg, asked>>
vars == <<listVars, mailVars, mutex, pc, args, planetPointer, temp, draw, fault>>

Copy == [name : Request \cup {NULL}, rest : Request \cup {NULL}]
Blank == [name |-> NULL, rest |-> NULL]

Init ==
  /\ headGlob = NULL
  /\ next = [n \in Node \cup {HeadNode} |-> NULL]
  /\ alloc = {}
  /\ data = [n \in Node |-> Blank]
  /\ life = [n \in Node |-> 0]
  /\ mutex = Free
  /\ pending = Request
  /\ mail = [pc |-> "init", msg |-> NULL]
  /\ createPlanetArg = Blank
  /\ asked = [t \in Thread |-> NULL]
  /\ pc = [t \in Thread |-> "none"]
  /\ args = [t \in Thread |-> Blank]
  /\ planetPointer = [t \in Thread |-> Wild]
  /\ temp = [t \in Thread |-> NULL]
  /\ draw = [pc |-> "begin", temp |-> NULL]
  /\ fault = "none"

(* Whether the memory that p points to may be read or written.             *)
Valid(p) == p \in alloc \cup {HeadNode}

(* Whether p->next may be followed.                                        *)
ValidNext(p) == Valid(p) /\ Valid(next[p])

NameAt(n) == NameOf[data[n].name]
NameIn(t) == NameOf[args[t].name]

-----------------------------------------------------------------------------
(* manageMail                                                              *)

(* initList allocates the head and leaves its next field unwritten; when   *)
(* malloc fails, it returns 0 and manageMail goes on with that.            *)
InitList ==
  /\ mail.pc = "init"
  /\ mail' = [mail EXCEPT !.pc = "read"]
  /\ \/ /\ headGlob' = HeadNode
        /\ \E p \in FreshNext : next' = [next EXCEPT ![HeadNode] = p]
     \/ UNCHANGED <<headGlob, next>>
  /\ UNCHANGED <<alloc, data, life, mutex, pending, createPlanetArg, asked, pc, args,
                 planetPointer, temp, draw, fault>>

(* MQread returns a request.                                               *)
ReadRequest ==
  /\ mail.pc = "read"
  /\ \E r \in pending : /\ pending' = pending \ {r}
                        /\ mail' = [pc |-> "name", msg |-> r]
  /\ UNCHANGED <<listVars, headGlob, mutex, createPlanetArg, asked, pc, args,
                 planetPointer, temp, draw, fault>>

(* createPlanetArg.planetToCreate = msg copies 900 bytes; a thread started *)
(* for an earlier request may be reading them.                             *)
WriteName ==
  /\ mail.pc = "name"
  /\ mail' = [mail EXCEPT !.pc = "rest"]
  /\ createPlanetArg' = [createPlanetArg EXCEPT !.name = mail.msg]
  /\ UNCHANGED <<listVars, headGlob, mutex, pending, asked, pc, args, planetPointer, temp,
                 draw, fault>>

WriteRest ==
  /\ mail.pc = "rest"
  /\ mail' = [mail EXCEPT !.pc = "create"]
  /\ createPlanetArg' = [createPlanetArg EXCEPT !.rest = mail.msg]
  /\ UNCHANGED <<listVars, headGlob, mutex, pending, asked, pc, args, planetPointer, temp,
                 draw, fault>>

(* pthread_create, given the address of createPlanetArg.                   *)
CreateThread(t) ==
  /\ mail.pc = "create"
  /\ mail' = [mail EXCEPT !.pc = "read"]
  /\ pc[t] = "none"
  /\ pc' = [pc EXCEPT ![t] = "name"]
  /\ asked' = [asked EXCEPT ![t] = mail.msg]
  /\ UNCHANGED <<listVars, headGlob, mutex, pending, createPlanetArg, args, planetPointer,
                 temp, draw, fault>>

(* When it fails, nobody looks, and the request is forgotten.              *)
CreateNone ==
  /\ mail.pc = "create"
  /\ mail' = [mail EXCEPT !.pc = "read"]
  /\ UNCHANGED <<listVars, headGlob, mutex, pending, createPlanetArg, asked, pc, args,
                 planetPointer, temp, draw, fault>>

manageMail == \/ InitList \/ ReadRequest \/ WriteName \/ WriteRest \/ CreateNone
              \/ \E t \in Thread : CreateThread(t)

-----------------------------------------------------------------------------
(* Planet threads                                                          *)

Goto(t, from, to) ==
  /\ pc[t] = from
  /\ pc' = [pc EXCEPT ![t] = to]

(* Thread t follows a bad pointer in the code named where.                 *)
Crash(t, where) ==
  /\ pc' = [pc EXCEPT ![t] = "crashed"]
  /\ fault' = where
  /\ UNCHANGED <<listVars, mailVars, mutex, args, planetPointer, temp, draw>>

(* args.planetToCreate = arguments->planetToCreate                         *)
CopyName(t) ==
  /\ Goto(t, "name", "rest")
  /\ args' = [args EXCEPT ![t].name = createPlanetArg.name]
  /\ UNCHANGED <<listVars, mailVars, mutex, planetPointer, temp, draw, fault>>

CopyRest(t) ==
  /\ Goto(t, "rest", "lock add")
  /\ args' = [args EXCEPT ![t].rest = createPlanetArg.rest]
  /\ UNCHANGED <<listVars, mailVars, mutex, planetPointer, temp, draw, fault>>

(* Mutant: no mutex, as in lab3felix.                                      *)
LockNever(t) ==
  /\ \/ Goto(t, "lock add", "walk")
     \/ Goto(t, "lock remove", "search")
  /\ mutex' = t
  /\ temp' = [temp EXCEPT ![t] = headGlob]
  /\ UNCHANGED <<listVars, mailVars, args, planetPointer, draw, fault>>

(* pthread_mutex_lock, and the first statement of addToList and of         *)
(* removeFromList: headOfList is the head, or NULL if there is none.  The  *)
(* else branch of the test of name[0] before it, which a client's scanf    *)
(* does not cause, is left out: it leads to MQconnect with planetPointer   *)
(* not set, where a failing malloc leads as well.                          *)
Lock(t) ==
  /\ mutex = Free
  /\ \/ Goto(t, "lock add", "walk")
     \/ Goto(t, "lock remove", "search")
  /\ mutex' = t
  /\ temp' = [temp EXCEPT ![t] = headGlob]
  /\ UNCHANGED <<listVars, mailVars, args, planetPointer, draw, fault>>

Unlock(t) ==
  /\ \/ Goto(t, "unlock add", "connect")
     \/ Goto(t, "unlock remove", "gone")
  /\ mutex' = Free
  /\ UNCHANGED <<listVars, mailVars, args, planetPointer, temp, draw, fault>>

(* addToList: one step of the walk to the last node.                       *)
AddWalk(t) ==
  /\ pc[t] = "walk"
  /\ \/ /\ Valid(temp[t]) /\ next[temp[t]] # NULL
        /\ temp' = [temp EXCEPT ![t] = next[temp[t]]]
        /\ UNCHANGED pc
     \/ /\ Valid(temp[t]) /\ next[temp[t]] = NULL
        /\ Goto(t, "walk", "link")
        /\ UNCHANGED temp
  /\ UNCHANGED <<listVars, mailVars, mutex, args, planetPointer, draw, fault>>

(* Mutant: the node is appended with its next field not set.               *)
AddLinkUnset(t) ==
  /\ Goto(t, "link", "unlock add")
  /\ \E n \in Node \ alloc :
       /\ alloc' = alloc \cup {n}
       /\ data' = [data EXCEPT ![n] = args[t]]
       /\ life' = [life EXCEPT ![n] = LifeOf[args[t].rest]]
       /\ next' = [next EXCEPT ![n] = Wild, ![temp[t]] = n]
       /\ planetPointer' = [planetPointer EXCEPT ![t] = n]
  /\ UNCHANGED <<mailVars, mutex, args, temp, draw, fault>>

(* malloc, fill in and append the node; when malloc fails, which it may at *)
(* any call, return without setting planetPointer.                         *)
AddLink(t) ==
  /\ Goto(t, "link", "unlock add")
  /\ \/ \E n \in Node \ alloc :
          /\ alloc' = alloc \cup {n}
          /\ data' = [data EXCEPT ![n] = args[t]]
          /\ life' = [life EXCEPT ![n] = LifeOf[args[t].rest]]
          /\ next' = [next EXCEPT ![n] = NULL, ![temp[t]] = n]
          /\ planetPointer' = [planetPointer EXCEPT ![t] = n]
     \/ UNCHANGED <<listVars, planetPointer>>
  /\ UNCHANGED <<mailVars, mutex, args, temp, draw, fault>>

(* MQconnect is given planetPointer->pid.                                  *)
Connect(t) ==
  /\ Valid(planetPointer[t])
  /\ Goto(t, "connect", "test")
  /\ UNCHANGED <<listVars, mailVars, mutex, args, planetPointer, temp, draw, fault>>

(* Out of life, or outside the screen: the thread reports to its client.   *)
Die(t) ==
  /\ Valid(planetPointer[t])
  /\ Goto(t, "test", "report")
  /\ UNCHANGED <<listVars, mailVars, mutex, args, planetPointer, temp, draw, fault>>

(* Alive and on the screen: start the calculation at the head.             *)
Survive(t) ==
  /\ Valid(planetPointer[t])
  /\ life[planetPointer[t]] > 0
  /\ Goto(t, "test", "gravity")
  /\ temp' = [temp EXCEPT ![t] = headGlob]
  /\ UNCHANGED <<listVars, mailVars, mutex, args, planetPointer, draw, fault>>

(* The report is sent, and printf has shown planetPointer->name and pid.   *)
Reported(t) ==
  /\ Valid(planetPointer[t])
  /\ Goto(t, "report", "lock remove")
  /\ UNCHANGED <<listVars, mailVars, mutex, args, planetPointer, temp, draw, fault>>

(* The calculation takes no lock: the loop tests temp->next ...            *)
GravityTest(t) ==
  /\ Valid(temp[t])
  /\ Goto(t, "gravity", IF next[temp[t]] = NULL THEN "move" ELSE "pull")
  /\ UNCHANGED <<listVars, mailVars, mutex, args, planetPointer, temp, draw, fault>>

(* Mutant: the loop forgets temp = temp->next.                             *)
GravityPullStays(t) ==
  /\ ValidNext(temp[t]) /\ Valid(planetPointer[t])
  /\ Goto(t, "pull", "gravity")
  /\ UNCHANGED <<listVars, mailVars, mutex, args, planetPointer, temp, draw, fault>>

(* ... and the body reads it again to read the planet there and to go on.  *)
GravityPull(t) ==
  /\ ValidNext(temp[t]) /\ Valid(planetPointer[t])
  /\ Goto(t, "pull", "gravity")
  /\ temp' = [temp EXCEPT ![t] = next[temp[t]]]
  /\ UNCHANGED <<listVars, mailVars, mutex, args, planetPointer, draw, fault>>

(* The new speed and position, and life -= 1.                              *)
Move(t) ==
  /\ Valid(planetPointer[t])
  /\ Goto(t, "move", "test")
  /\ life' = [life EXCEPT ![planetPointer[t]] = @ - 1]
  /\ UNCHANGED <<next, alloc, data, mailVars, mutex, args, planetPointer, temp, draw, fault>>

(* Mutant: the first node is unlinked, whatever its name.                  *)
SearchFirst(t) ==
  /\ ValidNext(temp[t])
  /\ Goto(t, "search", "free")
  /\ temp' = [temp EXCEPT ![t] = next[temp[t]]]
  /\ next' = [next EXCEPT ![temp[t]] = next[next[temp[t]]]]
  /\ UNCHANGED <<alloc, data, life, mailVars, mutex, args, planetPointer, draw, fault>>

(* removeFromList compares the name in temp->next before it tests the      *)
(* pointer, and goes on until the names are equal.                         *)
Search(t) ==
  /\ pc[t] = "search"
  /\ ValidNext(temp[t])
  /\ \/ /\ NameAt(next[temp[t]]) # NameIn(t)
        /\ temp' = [temp EXCEPT ![t] = next[temp[t]]]
        /\ UNCHANGED <<next, pc>>
     \/ /\ NameAt(next[temp[t]]) = NameIn(t)
        /\ temp' = [temp EXCEPT ![t] = next[temp[t]]]
        /\ next' = [next EXCEPT ![temp[t]] = next[next[temp[t]]]]
        /\ pc' = [pc EXCEPT ![t] = "free"]
  /\ UNCHANGED <<alloc, data, life, mailVars, mutex, args, planetPointer, draw, fault>>

(* free(temp1)                                                             *)
FreeNode(t) ==
  /\ Goto(t, "free", "unlock remove")
  /\ alloc' = alloc \ {temp[t]}
  /\ UNCHANGED <<next, data, life, mailVars, mutex, args, planetPointer, temp, draw, fault>>

(* The same steps when the pointer they follow is bad.                     *)
Trip(t) ==
  \/ pc[t] = "walk" /\ ~Valid(temp[t]) /\ Crash(t, "add")
  \/ pc[t] = "search" /\ ~ValidNext(temp[t]) /\ Crash(t, "remove")
  \/ pc[t] = "gravity" /\ ~Valid(temp[t]) /\ Crash(t, "gravity")
  \/ pc[t] = "pull" /\ ~ValidNext(temp[t]) /\ Crash(t, "gravity")
  \/ /\ pc[t] \in {"connect", "test", "report", "pull", "move"}
     /\ ~Valid(planetPointer[t])
     /\ Crash(t, "own planet")

planet(t) ==
  \/ CopyName(t) \/ CopyRest(t) \/ Lock(t) \/ AddWalk(t) \/ AddLink(t) \/ Unlock(t)
  \/ Connect(t) \/ Die(t) \/ Survive(t) \/ Reported(t)
  \/ GravityTest(t) \/ GravityPull(t) \/ Move(t)
  \/ Search(t) \/ FreeNode(t) \/ Trip(t)

-----------------------------------------------------------------------------
(* do_drawing, called by the GTK main loop for every frame                 *)

drawRest == <<listVars, mailVars, pc, args, planetPointer, temp>>

(* temp = headGlob, before the lock.                                       *)
DrawBegin ==
  /\ draw.pc = "begin"
  /\ draw' = [pc |-> "lock", temp |-> headGlob]
  /\ UNCHANGED <<drawRest, mutex, fault>>

(* Mutant: drawing does not wait for the mutex.                            *)
DrawLockNever ==
  /\ draw.pc = "lock"
  /\ draw' = [draw EXCEPT !.pc = "draw"]
  /\ UNCHANGED <<drawRest, mutex, fault>>

(* pthread_mutex_lock before the list is drawn.                            *)
DrawLock ==
  /\ draw.pc = "lock" /\ mutex = Free
  /\ draw' = [draw EXCEPT !.pc = "draw"]
  /\ mutex' = Drawer
  /\ UNCHANGED <<drawRest, fault>>

(* drawPlanet(cr, temp->next)                                              *)
DrawPlanet ==
  /\ draw.pc = "draw"
  /\ ValidNext(draw.temp)
  /\ draw' = [draw EXCEPT !.temp = next[draw.temp]]
  /\ UNCHANGED <<drawRest, mutex, fault>>

DrawEnd ==
  /\ draw.pc = "draw"
  /\ Valid(draw.temp) /\ next[draw.temp] = NULL
  /\ draw' = [pc |-> "begin", temp |-> NULL]
  /\ mutex' = Free
  /\ UNCHANGED <<drawRest, fault>>

DrawTrip ==
  /\ draw.pc = "draw"
  /\ ~(Valid(draw.temp) /\ (next[draw.temp] = NULL \/ Valid(next[draw.temp])))
  /\ draw' = [draw EXCEPT !.pc = "crashed"]
  /\ fault' = IF draw.temp = NULL THEN "first draw" ELSE "draw"
  /\ UNCHANGED <<drawRest, mutex>>

do_drawing == DrawBegin \/ DrawLock \/ DrawPlanet \/ DrawEnd \/ DrawTrip

-----------------------------------------------------------------------------
(* A bad pointer ends the process.                                         *)
Crashed == fault # "none" /\ UNCHANGED vars

Next ==
  \/ fault = "none" /\ (manageMail \/ (\E t \in Thread : planet(t)) \/ do_drawing)
  \/ Crashed

Spec == Init /\ [][Next]_vars

(* The kernel runs every thread; GTK keeps calling the tick handler.       *)
Fairness ==
  /\ WF_vars(fault = "none" /\ manageMail)
  /\ \A t \in Thread : WF_vars(fault = "none" /\ planet(t))
  /\ WF_vars(fault = "none" /\ do_drawing)

FairSpec == Spec /\ Fairness
-----------------------------------------------------------------------------
(* The node that is unlinked and not yet freed, and the nodes in the list. *)
Doomed == {temp[t] : t \in {u \in Thread : pc[u] = "free"}}
Linked == alloc \ Doomed

ThreadPC == {"none", "name", "rest", "lock add", "walk", "link", "unlock add", "connect",
             "test", "gravity", "pull", "move", "report", "lock remove", "search", "free",
             "unlock remove", "gone", "crashed"}

Pointer == Node \cup {HeadNode, NULL, Wild}

(* Pointers point to nodes, or nowhere; the mutex is with the one thread   *)
(* that is between lock and unlock.                                        *)
TypeOK ==
  /\ headGlob \in {HeadNode, NULL}
  /\ next \in [Node \cup {HeadNode} -> Pointer \ {HeadNode}]
  /\ alloc \in SUBSET Node
  /\ data \in [Node -> Copy]
  /\ life \in [Node -> Int]
  /\ mutex \in Thread \cup {Drawer, Free}
  /\ pending \in SUBSET Request
  /\ mail \in [pc : {"init", "read", "name", "rest", "create"}, msg : Request \cup {NULL}]
  /\ createPlanetArg \in Copy
  /\ asked \in [Thread -> Request \cup {NULL}]
  /\ pc \in [Thread -> ThreadPC]
  /\ args \in [Thread -> Copy]
  /\ planetPointer \in [Thread -> Node \cup {Wild}]
  /\ temp \in [Thread -> Pointer]
  /\ draw \in [pc : {"begin", "lock", "draw", "crashed"}, temp : Pointer]
  /\ fault \in {"none", "add", "remove", "gravity", "own planet", "first draw", "draw"}

(* The nodes that a walk from the head meets.                              *)
Reach ==
  LET R[k \in 0 .. Cardinality(Node)] ==
        IF k = 0 THEN {HeadNode}
        ELSE R[k - 1] \cup ({next[n] : n \in R[k - 1]} \cap Node)
  IN  R[Cardinality(Node)]

(* initList has not failed to allocate the head, and its next field is one *)
(* that can be followed.                                                   *)
HasHead == mail.pc = "init" \/ headGlob # NULL
Tame == HasHead /\ next[HeadNode] # Wild

(* addToList and removeFromList, whatever the other threads do, keep the   *)
(* list a list: a walk from the head meets exactly the nodes that were     *)
(* added and not removed, and ends.                                        *)
ListIntact ==
  /\ TypeOK
  /\ Tame => /\ Reach = Linked \cup {HeadNode}
             /\ \E n \in Reach : next[n] = NULL

(* The walks that hold the mutex never follow a bad pointer, unless there  *)
(* is no good head: not in addToList, not when drawing, and removeFromList *)
(* always finds its name, also when several planets have the same one.     *)
LockedWalksSafe == fault \in {"add", "remove", "draw"} => ~Tame

(* Threads that have their name, and whether no two of them share it.      *)
Named == {t \in Thread : pc[t] \notin {"none", "name"}}
NamesDistinct == \A t, u \in Named : NameIn(t) = NameIn(u) => t = u

(* The threads whose planet is in the list.                                *)
Orbiting == {t \in Thread : pc[t] \in {"unlock add", "connect", "test", "gravity", "pull",
                                       "move", "report", "lock remove", "search"}}

(* While planets have different names a planet stays in the list, with its *)
(* own data, until its own thread removes it: nobody frees another's node. *)
OwnPlanetStays ==
  NamesDistinct =>
    \A t \in Orbiting : planetPointer[t] # Wild =>
      planetPointer[t] \in Linked /\ data[planetPointer[t]] = args[t]

(* The calculation of the acceleration, which takes no lock, is safe       *)
(* against planets that are added meanwhile, in memory used before or not: *)
(* it follows a bad pointer only after some planet has been unlinked.      *)
OnlyRemovalHurts ==
  fault = "gravity" /\ Tame =>
    \E t \in Thread : pc[t] \in {"free", "unlock remove", "gone"}

(* Every planet that starts the calculation moves: the unlocked walk ends  *)
(* too, while the list changes under it.                                   *)
PlanetMoves ==
  \A t \in Thread : (pc[t] \in {"gravity", "pull"}) ~> (pc[t] = "move" \/ fault # "none")

(* server.c:225 creates the planet thread for the request just received.   *)
(* The thread copies it from the one createPlanetArg, which the mail       *)
(* thread may have overwritten with the next request.                      *)
ThreadGetsItsRequest ==
  \A t \in Thread : pc[t] = "lock add" => args[t] = [name |-> asked[t], rest |-> asked[t]]
=============================================================================
