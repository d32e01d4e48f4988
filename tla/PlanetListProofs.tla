--------------------------- MODULE PlanetListProofs ---------------------------
(***************************************************************************)
(* The list of planets of lab3/server.c, for any number of requests,       *)
(* threads and addresses, any names and lives, and a malloc that may fail: *)
(* the walks that hold the mutex never follow a bad pointer, nobody frees  *)
(* the planet of a thread with another name, and the calculation that      *)
(* takes no lock is safe until a planet is unlinked.                       *)
(***************************************************************************)
EXTENDS PlanetList, FiniteSetTheorems, WellFoundedInduction, TLAPS

(* Threads that hold the mutex.                                            *)
Holding == {"walk", "link", "unlock add", "search", "free", "unlock remove"}

(* The mutex is with the thread that is between lock and unlock.           *)
Locks ==
  /\ \A t \in Thread : pc[t] \in Holding => mutex = t
  /\ draw.pc = "draw" => mutex = Drawer

Full == [name : Request, rest : Request]

(* What a planet thread reads of createPlanetArg has been written, if only *)
(* for another thread.                                                     *)
Filled ==
  /\ mail.pc \in {"name", "rest", "create"} => mail.msg \in Request
  /\ mail.pc \in {"rest", "create"} => createPlanetArg.name \in Request
  /\ mail.pc = "create" => createPlanetArg.rest \in Request
  /\ \A t \in Thread :
       /\ pc[t] # "none" => createPlanetArg \in Full
       /\ pc[t] \notin {"none", "name"} => args[t].name \in Request
       /\ pc[t] \notin {"none", "name", "rest"} => args[t].rest \in Request

(* planetPointer is set by AddLink, unless malloc has failed; then the     *)
(* thread gets no further than MQconnect.                                  *)
Arriving == {"none", "name", "rest", "lock add", "walk", "link"}
Living == {"test", "gravity", "pull", "move", "report", "lock remove", "search"}
PointerSet ==
  \A t \in Thread : /\ pc[t] \in Arriving => planetPointer[t] = Wild
                    /\ pc[t] \in Living => planetPointer[t] # Wild

(* Before initList, and if it leaves no head or one whose next field holds *)
(* no NULL: no planet is added.                                            *)
Barren ==
  /\ mail.pc = "init" =>
       /\ \A t \in Thread : pc[t] = "none"
       /\ alloc = {} /\ next[HeadNode] = NULL
  /\ ~Tame =>
       /\ \A t \in Thread : /\ pc[t] \in {"none", "name", "rest", "lock add", "walk"}
                            /\ pc[t] = "walk" => temp[t] \in {headGlob, Wild}
       /\ alloc = {}

InList == Linked \cup {HeadNode}

(* Walks that hold the mutex are at nodes of the list.                     *)
Walkers ==
  /\ \A t \in Thread :
       /\ Tame /\ pc[t] \in {"walk", "link", "search"} => temp[t] \in InList
       /\ pc[t] = "link" => next[temp[t]] = NULL
  /\ draw.pc = "lock" => draw.temp \in {HeadNode, NULL}
  /\ Tame /\ draw.pc = "draw" => draw.temp \in InList \cup {NULL}

(* The nodes are a list: pos numbers them along it, from the head on.      *)
Chain(pos, len) ==
  /\ pos[HeadNode] = 0
  /\ \A n \in Linked : pos[n] \in 1 .. len
  /\ \A m, n \in Linked : pos[m] = pos[n] => m = n
  /\ \A n \in InList :
       /\ pos[n] = len <=> next[n] = NULL
       /\ next[n] # NULL => next[n] \in Linked /\ pos[next[n]] = pos[n] + 1

(* removeFromList has a node of its name before it.                        *)
Ahead(pos) ==
  \A t \in Thread : pc[t] = "search" =>
    \E m \in Linked : NameAt(m) = NameIn(t) /\ pos[m] > pos[temp[t]]

List ==
  Tame => \E pos \in [Node \cup {HeadNode} -> Nat], len \in Nat : Chain(pos, len) /\ Ahead(pos)

(* Every thread whose planet is in the list can be given a node of its     *)
(* name, though not always the one that it has added.                      *)
Holders == {t \in Orbiting : planetPointer[t] # Wild}
OwnedBy(own) ==
  \A t \in Holders :
    /\ own[t] \in Linked /\ NameAt(own[t]) = NameIn(t)
    /\ \A u \in Holders : own[u] = own[t] => u = t
Owners == \E own \in [Thread -> Node \cup {HeadNode}] : OwnedBy(own)

(* Until a planet is unlinked, the walks without the mutex are at nodes of *)
(* the list too, and what they have tested stays true.                     *)
Unremoved == \A t \in Thread : pc[t] \notin {"free", "unlock remove", "gone"}
Pulling ==
  Tame /\ Unremoved =>
    \A t \in Thread : /\ pc[t] \in {"gravity", "pull"} => temp[t] \in InList
                      /\ pc[t] = "pull" => next[temp[t]] # NULL

Running == Filled /\ Locks /\ PointerSet /\ Barren /\ Walkers /\ List /\ Owners /\ Pulling
IInv == TypeOK /\ OwnPlanetStays /\ (fault = "none" => Running)

-----------------------------------------------------------------------------
(* What steps there are                                                    *)

(* The steps of a planet thread, and the one that starts it.               *)
thread(t) == CreateThread(t) \/ planet(t)
mailStep == InitList \/ ReadRequest \/ WriteName \/ WriteRest \/ CreateNone

LEMMA Steps ==
  ASSUME [Next]_vars
  PROVE  \/ fault = "none" /\ (mailStep \/ do_drawing \/ \E t \in Thread : thread(t))
         \/ UNCHANGED vars
BY DEF Next, manageMail, thread, mailStep, Crashed

ListTypes ==
  /\ next \in [Node \cup {HeadNode} -> Pointer \ {HeadNode}] /\ alloc \in SUBSET Node
  /\ data \in [Node -> Copy] /\ life \in [Node -> Int]
MailTypes ==
  /\ headGlob \in {HeadNode, NULL} /\ pending \in SUBSET Request
  /\ mail \in [pc : {"init", "read", "name", "rest", "create"}, msg : Request \cup {NULL}]
  /\ createPlanetArg \in Copy /\ asked \in [Thread -> Request \cup {NULL}]
ThreadTypes ==
  /\ pc \in [Thread -> ThreadPC] /\ args \in [Thread -> Copy]
  /\ planetPointer \in [Thread -> Node \cup {Wild}] /\ temp \in [Thread -> Pointer]
OtherTypes ==
  /\ mutex \in Thread \cup {Drawer, Free}
  /\ draw \in [pc : {"begin", "lock", "draw", "crashed"}, temp : Pointer]
  /\ fault \in {"none", "add", "remove", "gravity", "own planet", "first draw", "draw"}

LEMMA TypeParts == TypeOK <=> ListTypes /\ MailTypes /\ ThreadTypes /\ OtherTypes
BY DEF TypeOK, ListTypes, MailTypes, ThreadTypes, OtherTypes

(* A step of t changes of the threads' variables only what is t's.         *)
LEMMA OneThreadMoves ==
  ASSUME NEW t \in Thread, thread(t), ThreadTypes, ListTypes, MailTypes
  PROVE  /\ \E p \in ThreadPC : pc' = [pc EXCEPT ![t] = p]
         /\ \E a \in Copy : args' = [args EXCEPT ![t] = a]
         /\ \E p \in Node \cup {Wild} : planetPointer' = [planetPointer EXCEPT ![t] = p]
         /\ \E p \in Pointer : temp' = [temp EXCEPT ![t] = p]
         /\ draw' = draw
<1>0. /\ args = [args EXCEPT ![t] = args[t]] /\ args[t] \in Copy
      /\ planetPointer = [planetPointer EXCEPT ![t] = planetPointer[t]]
      /\ planetPointer[t] \in Node \cup {Wild}
      /\ temp = [temp EXCEPT ![t] = temp[t]] /\ temp[t] \in Pointer
      /\ pc = [pc EXCEPT ![t] = pc[t]] /\ pc[t] \in ThreadPC
  BY DEF ThreadTypes
<1>1. draw' = draw
  BY DEF thread, planet, CreateThread, CopyName, CopyRest, Lock, AddWalk, AddLink, Unlock,
     Connect, Die, Survive, Reported, GravityTest, GravityPull, Move, Search, FreeNode, Trip,
     Crash
<1>2. \E p \in ThreadPC : pc' = [pc EXCEPT ![t] = p]
  <2>1. pc' = pc \/ \E p \in ThreadPC : pc' = [pc EXCEPT ![t] = p]
    BY DEF thread, planet, CreateThread, CopyName, CopyRest, Lock, AddWalk, AddLink, Unlock,
       Connect, Die, Survive, Reported, GravityTest, GravityPull, Move, Search, FreeNode, Trip,
       Crash, Goto, ThreadPC
  <2> QED
    BY <1>0, <2>1
<1>3. \E a \in Copy : args' = [args EXCEPT ![t] = a]
  <2>1. CASE CopyName(t)
    <3>1. [args[t] EXCEPT !.name = createPlanetArg.name] \in Copy
      BY <1>0 DEF MailTypes, Copy
    <3> QED
      BY <2>1, <3>1 DEF CopyName
  <2>2. CASE CopyRest(t)
    <3>1. [args[t] EXCEPT !.rest = createPlanetArg.rest] \in Copy
      BY <1>0 DEF MailTypes, Copy
    <3> QED
      BY <2>2, <3>1 DEF CopyRest
  <2>3. args' = args \/ CopyName(t) \/ CopyRest(t)
    BY DEF thread, planet, CreateThread, Lock, AddWalk, AddLink, Unlock, Connect, Die, Survive,
       Reported, GravityTest, GravityPull, Move, Search, FreeNode, Trip, Crash
  <2> QED
    BY <1>0, <2>1, <2>2, <2>3
<1>4. \E p \in Node \cup {Wild} : planetPointer' = [planetPointer EXCEPT ![t] = p]
  <2>1. CASE AddLink(t)
    BY <1>0, <2>1 DEF AddLink
  <2>2. planetPointer' = planetPointer \/ AddLink(t)
    BY DEF thread, planet, CreateThread, CopyName, CopyRest, Lock, AddWalk, Unlock, Connect, Die,
       Survive, Reported, GravityTest, GravityPull, Move, Search, FreeNode, Trip, Crash
  <2> QED
    BY <1>0, <2>1, <2>2
<1>5. \E p \in Pointer : temp' = [temp EXCEPT ![t] = p]
  <2>1. CASE Lock(t) \/ Survive(t)
    BY <1>0, <2>1 DEF Lock, Survive, Pointer, MailTypes
  <2>2. Valid(temp[t]) => next[temp[t]] \in Pointer
    BY DEF Valid, ListTypes
  <2>3. CASE AddWalk(t) \/ GravityPull(t) \/ Search(t)
    BY <1>0, <2>2, <2>3 DEF AddWalk, GravityPull, Search, ValidNext
  <2>4. temp' = temp \/ Lock(t) \/ Survive(t) \/ AddWalk(t) \/ GravityPull(t) \/ Search(t)
    BY DEF thread, planet, CreateThread, CopyName, CopyRest, AddLink, Unlock, Connect, Die,
       Reported, GravityTest, Move, FreeNode, Trip, Crash
  <2> QED
    BY <1>0, <2>1, <2>3, <2>4
<1> QED
  BY <1>1, <1>2, <1>3, <1>4, <1>5

(* So the others stay where they are.                                      *)
LEMMA OthersStay ==
  ASSUME NEW t \in Thread, thread(t), TypeOK, NEW u \in Thread, u # t
  PROVE  /\ pc'[u] = pc[u] /\ args'[u] = args[u]
         /\ planetPointer'[u] = planetPointer[u] /\ temp'[u] = temp[u]
BY TypeParts, OneThreadMoves DEF ThreadTypes

(* Only addToList and removeFromList change the list.                      *)
LEMMA ListKept ==
  ASSUME NEW t \in Thread, thread(t)
  PROVE  \/ UNCHANGED <<next, alloc, data>>
         \/ AddLink(t) \/ Search(t) \/ FreeNode(t)
BY DEF thread, planet, CreateThread, CopyName, CopyRest, Lock, AddWalk, Unlock, Connect, Die,
   Survive, Reported, GravityTest, GravityPull, Move, Trip, Crash, listVars

(* A node is added, or malloc has failed.                                  *)
Added(t, n) ==
  /\ n \in Node \ alloc
  /\ alloc' = alloc \cup {n} /\ data' = [data EXCEPT ![n] = args[t]]
  /\ next' = [next EXCEPT ![n] = NULL, ![temp[t]] = n]
  /\ planetPointer' = [planetPointer EXCEPT ![t] = n]

LEMMA AddCases ==
  ASSUME NEW t \in Thread, AddLink(t), Filled
  PROVE  /\ pc[t] = "link" /\ pc' = [pc EXCEPT ![t] = "unlock add"]
         /\ UNCHANGED <<mailVars, mutex, args, temp, draw, fault>>
         /\ \/ UNCHANGED <<listVars, planetPointer>>
            \/ \E n \in Node : /\ Added(t, n)
                               /\ life' = [life EXCEPT ![n] = LifeOf[args[t].rest]]
                               /\ LifeOf[args[t].rest] \in Int
<1>1. pc[t] = "link" /\ args[t].rest \in Request
  BY DEF AddLink, Goto, Filled
<1>2. LifeOf[args[t].rest] \in Int
  BY <1>1, RequestAssumption
<1> QED
  BY <1>2 DEF AddLink, Goto, Added

(* A node is unlinked, or the search goes on.                              *)
Unlinked(t) ==
  /\ NameAt(next[temp[t]]) = NameIn(t)
  /\ next' = [next EXCEPT ![temp[t]] = next[next[temp[t]]]]
  /\ pc' = [pc EXCEPT ![t] = "free"]

LEMMA SearchCases ==
  ASSUME NEW t \in Thread, Search(t)
  PROVE  /\ pc[t] = "search" /\ ValidNext(temp[t])
         /\ temp' = [temp EXCEPT ![t] = next[temp[t]]]
         /\ UNCHANGED <<alloc, data, life, mailVars, mutex, args, planetPointer, draw, fault>>
         /\ \/ NameAt(next[temp[t]]) # NameIn(t) /\ UNCHANGED <<next, pc>>
            \/ Unlinked(t)
BY DEF Search, Unlinked

-----------------------------------------------------------------------------
(* Types                                                                   *)
LEMMA ListTypesStep ==
  ASSUME TypeOK, Filled, mailStep \/ do_drawing \/ \E t \in Thread : thread(t)
  PROVE  ListTypes'
<1> USE TypeParts DEF ListTypes
<1>1. CASE InitList
  BY <1>1, PointerAssumption DEF InitList, Pointer
<1>2. CASE ReadRequest \/ WriteName \/ WriteRest \/ CreateNone \/ do_drawing
  <2>1. UNCHANGED listVars
    BY <1>2 DEF ReadRequest, WriteName, WriteRest, CreateNone, do_drawing, DrawBegin, DrawLock,
       DrawPlanet, DrawEnd, DrawTrip, drawRest
  <2> QED
    BY <2>1 DEF listVars
<1>3. ASSUME NEW t \in Thread, AddLink(t) PROVE ListTypes'
  <2>1. CASE UNCHANGED <<listVars, planetPointer>>
    BY <2>1 DEF listVars
  <2>2. ASSUME NEW n \in Node, Added(t, n), life' = [life EXCEPT ![n] = LifeOf[args[t].rest]],
               LifeOf[args[t].rest] \in Int
        PROVE  ListTypes'
    <3>1. next' \in [Node \cup {HeadNode} -> Pointer \ {HeadNode}]
      BY <2>2, PointerAssumption DEF Pointer, Added
    <3>2. args[t] \in Copy
      BY DEF ThreadTypes
    <3> QED
      BY <2>2, <3>1, <3>2 DEF Added
  <2> QED
    BY <1>3, <2>1, <2>2, AddCases
<1>4. ASSUME NEW t \in Thread, Search(t) PROVE ListTypes'
  <2>1. next[next[temp[t]]] \in Pointer \ {HeadNode}
    BY <1>4, SearchCases DEF ValidNext, Valid
  <2>2. next' = next \/ next' = [next EXCEPT ![temp[t]] = next[next[temp[t]]]]
    BY <1>4, SearchCases DEF Unlinked
  <2> QED
    BY <1>4, <2>1, <2>2, SearchCases
<1>5. ASSUME NEW t \in Thread, FreeNode(t) \/ Move(t) PROVE ListTypes'
  <2>1. FreeNode(t) => next' = next /\ data' = data /\ life' = life /\ alloc' \subseteq alloc
    BY DEF FreeNode
  <2>2. Move(t) => /\ next' = next /\ data' = data /\ alloc' = alloc
                   /\ life' = [life EXCEPT ![planetPointer[t]] = @ - 1]
    BY DEF Move
  <2> QED
    BY <1>5, <2>1, <2>2
<1>6. ASSUME NEW t \in Thread, thread(t)
      PROVE  UNCHANGED listVars \/ AddLink(t) \/ Search(t) \/ FreeNode(t) \/ Move(t)
  BY <1>6 DEF thread, planet, CreateThread, CopyName, CopyRest, Lock, AddWalk, Unlock, Connect,
     Die, Survive, Reported, GravityTest, GravityPull, Trip, Crash
<1> QED
  BY <1>1, <1>2, <1>3, <1>4, <1>5, <1>6 DEF mailStep, listVars

LEMMA MailTypesStep ==
  ASSUME TypeOK, mailStep \/ do_drawing \/ \E t \in Thread : thread(t)
  PROVE  MailTypes'
<1> USE TypeParts DEF MailTypes
<1>1. CASE InitList
  BY <1>1 DEF InitList
<1>2. CASE ReadRequest
  <2>1. PICK r \in pending : pending' = pending \ {r} /\ mail' = [pc |-> "name", msg |-> r]
    BY <1>2 DEF ReadRequest
  <2>2. r \in Request
    BY <2>1
  <2>3. UNCHANGED <<headGlob, createPlanetArg, asked>>
    BY <1>2 DEF ReadRequest
  <2> QED
    BY <2>1, <2>2, <2>3
<1>3. CASE WriteName
  <2>1. createPlanetArg' \in Copy
    BY <1>3 DEF WriteName, Copy
  <2> QED
    BY <1>3, <2>1 DEF WriteName
<1>4. CASE WriteRest
  <2>1. createPlanetArg' \in Copy
    BY <1>4 DEF WriteRest, Copy
  <2> QED
    BY <1>4, <2>1 DEF WriteRest
<1>5. CreateNone \/ (\E t \in Thread : CreateThread(t)) => MailTypes'
  BY DEF CreateNone, CreateThread
<1>6. ASSUME NEW t \in Thread, planet(t) PROVE UNCHANGED mailVars
  BY <1>6 DEF planet, CopyName, CopyRest, Lock, AddWalk, AddLink, Unlock, Connect, Die, Survive,
     Reported, GravityTest, GravityPull, Move, Search, FreeNode, Trip, Crash
<1>7. CASE do_drawing
  <2>1. UNCHANGED mailVars
    BY <1>7 DEF do_drawing, DrawBegin, DrawLock, DrawPlanet, DrawEnd, DrawTrip, drawRest
  <2> QED
    BY <2>1 DEF mailVars
<1> QED
  BY <1>1, <1>2, <1>3, <1>4, <1>5, <1>6, <1>7 DEF mailStep, thread, mailVars

LEMMA ThreadTypesStep ==
  ASSUME TypeOK, mailStep \/ do_drawing \/ \E t \in Thread : thread(t)
  PROVE  ThreadTypes'
<1> USE TypeParts DEF ThreadTypes
<1>1. CASE mailStep \/ do_drawing
  <2>1. UNCHANGED <<pc, args, planetPointer, temp>>
    BY <1>1 DEF mailStep, InitList, ReadRequest, WriteName, WriteRest, CreateNone, do_drawing,
       DrawBegin, DrawLock, DrawPlanet, DrawEnd, DrawTrip, drawRest
  <2> QED
    BY <2>1
<1>2. ASSUME NEW t \in Thread, thread(t) PROVE ThreadTypes'
  BY <1>2, OneThreadMoves
<1> QED
  BY <1>1, <1>2

LEMMA OtherTypesStep ==
  ASSUME TypeOK, mailStep \/ do_drawing \/ \E t \in Thread : thread(t)
  PROVE  OtherTypes'
<1> USE TypeParts DEF OtherTypes
<1>1. CASE mailStep
  BY <1>1 DEF mailStep, InitList, ReadRequest, WriteName, WriteRest, CreateNone
<1>2. CASE do_drawing
  <2>1. CASE DrawPlanet
    <3>1. next[draw.temp] \in Pointer
      BY <2>1 DEF DrawPlanet, ValidNext, Valid, ListTypes
    <3> QED
      BY <2>1, <3>1 DEF DrawPlanet
  <2>2. headGlob \in Pointer /\ NULL \in Pointer
    BY DEF MailTypes, Pointer
  <2>3. CASE DrawBegin \/ DrawEnd
    <3>1. draw' \in [pc : {"begin", "lock", "draw", "crashed"}, temp : Pointer]
      <4>1. \A p \in Pointer : \A s \in {"lock", "begin"} :
              [pc |-> s, temp |-> p] \in [pc : {"begin", "lock", "draw", "crashed"}, temp : Pointer]
        OBVIOUS
      <4>2. \/ draw' = [pc |-> "lock", temp |-> headGlob]
            \/ draw' = [pc |-> "begin", temp |-> NULL]
        BY <2>3 DEF DrawBegin, DrawEnd
      <4> QED
        BY <2>2, <4>1, <4>2
    <3>2. mutex' \in {mutex, Free} /\ fault' = fault
      BY <2>3 DEF DrawBegin, DrawEnd
    <3> QED
      BY <3>1, <3>2
  <2>4. CASE DrawLock \/ DrawTrip
    BY <2>4 DEF DrawLock, DrawTrip
  <2> QED
    BY <1>2, <2>1, <2>3, <2>4 DEF do_drawing
<1>3. ASSUME NEW t \in Thread, thread(t) PROVE OtherTypes'
  <2>1. mutex' \in {mutex, t, Free}
    BY <1>3 DEF thread, planet, CreateThread, CopyName, CopyRest, Lock, AddWalk, AddLink, Unlock,
       Connect, Die, Survive, Reported, GravityTest, GravityPull, Move, Search, FreeNode, Trip,
       Crash
  <2>2. fault' \in {fault, "add", "remove", "gravity", "own planet"}
    BY <1>3 DEF thread, planet, CreateThread, CopyName, CopyRest, Lock, AddWalk, AddLink, Unlock,
       Connect, Die, Survive, Reported, GravityTest, GravityPull, Move, Search, FreeNode, Trip,
       Crash
  <2>3. draw' = draw
    BY <1>3, OneThreadMoves
  <2> QED
    BY <2>1, <2>2, <2>3
<1> QED
  BY <1>1, <1>2, <1>3

LEMMA TypeStep ==
  ASSUME TypeOK, fault = "none" => Filled, [Next]_vars PROVE TypeOK'
<1>1. ASSUME UNCHANGED vars PROVE TypeOK'
  <2>1. ListTypes' /\ MailTypes'
    BY <1>1, TypeParts DEF ListTypes, MailTypes, vars, listVars, mailVars
  <2>2. ThreadTypes' /\ OtherTypes'
    BY <1>1, TypeParts DEF ThreadTypes, OtherTypes, vars
  <2> QED
    BY <2>1, <2>2 DEF TypeOK, ListTypes, MailTypes, ThreadTypes, OtherTypes
<1>2. ASSUME fault = "none", mailStep \/ do_drawing \/ \E t \in Thread : thread(t) PROVE TypeOK'
  <2>1. ListTypes' /\ MailTypes' /\ ThreadTypes' /\ OtherTypes'
    BY <1>2, ListTypesStep, MailTypesStep, ThreadTypesStep, OtherTypesStep
  <2> QED
    BY <2>1 DEF TypeOK, ListTypes, MailTypes, ThreadTypes, OtherTypes
<1> QED
  BY <1>1, <1>2, Steps

-----------------------------------------------------------------------------
(* Control                                                                 *)

(* The steps of t that follow no bad pointer.                              *)
walked(t) == thread(t) /\ fault = "none" /\ fault' = "none"

LEMMA NoTrip ==
  ASSUME NEW t \in Thread, walked(t)
  PROVE  \/ CreateThread(t) \/ CopyName(t) \/ CopyRest(t) \/ Lock(t) \/ AddWalk(t)
         \/ AddLink(t) \/ Unlock(t) \/ Connect(t) \/ Die(t) \/ Survive(t)
         \/ Reported(t) \/ GravityTest(t) \/ GravityPull(t) \/ Move(t)
         \/ Search(t) \/ FreeNode(t)
BY DEF walked, thread, planet, Trip, Crash

LEMMA FilledStep ==
  ASSUME TypeOK, Filled, mailStep \/ do_drawing \/ \E t \in Thread : walked(t)
  PROVE  Filled'
<1>0. MailTypes /\ ThreadTypes
  BY TypeParts
<1>1. CASE mailStep
  <2>1. UNCHANGED <<pc, args>>
    BY <1>1 DEF mailStep, InitList, ReadRequest, WriteName, WriteRest, CreateNone
  <2>2. CASE InitList
    BY <2>1, <2>2, <1>0 DEF InitList, Filled, MailTypes
  <2>3. CASE ReadRequest
    <3>1. PICK r \in pending : mail' = [pc |-> "name", msg |-> r]
      BY <2>3 DEF ReadRequest
    <3>2. r \in Request /\ createPlanetArg' = createPlanetArg
      BY <1>0, <2>3 DEF ReadRequest, MailTypes
    <3> QED
      BY <2>1, <3>1, <3>2 DEF Filled
  <2>4. CASE WriteName
    <3>1. /\ mail' = [mail EXCEPT !.pc = "rest"] /\ mail.msg \in Request
          /\ createPlanetArg' = [createPlanetArg EXCEPT !.name = mail.msg]
      BY <2>4 DEF WriteName, Filled
    <3>2. /\ createPlanetArg'.name \in Request /\ mail'.pc = "rest" /\ mail'.msg \in Request
          /\ createPlanetArg \in Full => createPlanetArg' \in Full
      BY <1>0, <3>1 DEF MailTypes, Copy, Full
    <3> QED
      BY <2>1, <3>2 DEF Filled
  <2>5. CASE WriteRest
    <3>1. /\ mail' = [mail EXCEPT !.pc = "create"] /\ mail.msg \in Request
          /\ createPlanetArg.name \in Request
          /\ createPlanetArg' = [createPlanetArg EXCEPT !.rest = mail.msg]
      BY <2>5 DEF WriteRest, Filled
    <3>2. /\ createPlanetArg'.name \in Request /\ mail'.pc = "create" /\ mail'.msg \in Request
          /\ createPlanetArg'.rest \in Request
          /\ createPlanetArg \in Full => createPlanetArg' \in Full
      BY <1>0, <3>1 DEF MailTypes, Copy, Full
    <3> QED
      BY <2>1, <3>2 DEF Filled
  <2>6. CASE CreateNone
    <3>1. mail'.pc = "read" /\ createPlanetArg' = createPlanetArg
      BY <1>0, <2>6 DEF CreateNone, MailTypes
    <3> QED
      BY <2>1, <3>1 DEF Filled
  <2> QED
    BY <1>1, <2>2, <2>3, <2>4, <2>5, <2>6 DEF mailStep
<1>2. CASE do_drawing
  <2>1. UNCHANGED <<mailVars, pc, args>>
    BY <1>2 DEF do_drawing, DrawBegin, DrawLock, DrawPlanet, DrawEnd, DrawTrip, drawRest
  <2> QED
    BY <2>1 DEF mailVars, Filled
<1>3. ASSUME NEW t \in Thread, walked(t) PROVE Filled'
  <2>1. \A u \in Thread \ {t} : pc'[u] = pc[u] /\ args'[u] = args[u]
    BY <1>3, OthersStay DEF walked
  <2>2. CASE CreateThread(t)
    <3>1. /\ mail.pc = "create" /\ mail' = [mail EXCEPT !.pc = "read"]
          /\ pc' = [pc EXCEPT ![t] = "name"] /\ UNCHANGED <<createPlanetArg, args>>
      BY <2>2 DEF CreateThread
    <3>2. createPlanetArg \in Full /\ mail'.pc = "read"
      BY <1>0, <3>1 DEF Filled, MailTypes, Copy, Full
    <3> QED
      BY <1>0, <3>1, <3>2 DEF Filled, ThreadTypes
  <2>3. CASE CopyName(t)
    <3>1. /\ pc[t] = "name" /\ pc' = [pc EXCEPT ![t] = "rest"] /\ UNCHANGED mailVars
          /\ args' = [args EXCEPT ![t].name = createPlanetArg.name]
      BY <2>3 DEF CopyName, Goto
    <3>2. args'[t].name \in Request
      BY <1>0, <3>1 DEF Filled, Full, ThreadTypes, Copy
    <3> QED
      BY <1>0, <2>1, <3>1, <3>2 DEF Filled, ThreadTypes, mailVars
  <2>4. CASE CopyRest(t)
    <3>1. /\ pc[t] = "rest" /\ pc' = [pc EXCEPT ![t] = "lock add"] /\ UNCHANGED mailVars
          /\ args' = [args EXCEPT ![t].rest = createPlanetArg.rest]
      BY <2>4 DEF CopyRest, Goto
    <3>2. args'[t].rest \in Request /\ args'[t].name \in Request
      BY <1>0, <3>1 DEF Filled, Full, ThreadTypes, Copy
    <3> QED
      BY <1>0, <2>1, <3>1, <3>2 DEF Filled, ThreadTypes, mailVars
  <2>5. CASE ~CreateThread(t) /\ ~CopyName(t) /\ ~CopyRest(t)
    <3>1. pc[t] \notin {"none", "name", "rest"} /\ UNCHANGED <<mailVars, args>>
      BY <1>3, <2>5, NoTrip DEF Lock, AddWalk, AddLink, Unlock, Connect, Die, Survive, Reported,
         GravityTest, GravityPull, Move, Search, FreeNode, Goto
    <3> QED
      BY <2>1, <3>1 DEF Filled, mailVars
  <2> QED
    BY <2>2, <2>3, <2>4, <2>5
<1> QED
  BY <1>1, <1>2, <1>3

(* What a step of t does to the mutex.                                     *)
LEMMA MutexMoves ==
  ASSUME TypeOK, NEW t \in Thread, walked(t)
  PROVE  \/ mutex' = mutex /\ (pc'[t] \in Holding <=> pc[t] \in Holding)
         \/ /\ Lock(t) /\ mutex = Free /\ mutex' = t
         \/ /\ Unlock(t) /\ mutex' = Free /\ pc[t] \in Holding /\ pc'[t] \notin Holding
<1>0. ThreadTypes
  BY TypeParts
<1>1. CASE Lock(t)
  BY <1>1 DEF Lock
<1>2. CASE Unlock(t)
  BY <1>0, <1>2 DEF Unlock, Goto, Holding, ThreadTypes
<1>3. CASE CreateThread(t) \/ CopyName(t) \/ CopyRest(t) \/ AddWalk(t) \/ AddLink(t)
  BY <1>0, <1>3 DEF CreateThread, CopyName, CopyRest, AddWalk, AddLink, Goto, Holding, ThreadTypes
<1>4. CASE Connect(t) \/ Die(t) \/ Survive(t) \/ Reported(t) \/ GravityTest(t) \/ GravityPull(t)
  BY <1>0, <1>4 DEF Connect, Die, Survive, Reported, GravityTest, GravityPull, Goto, Holding,
     ThreadTypes
<1>5. CASE Move(t) \/ Search(t) \/ FreeNode(t)
  BY <1>0, <1>5 DEF Move, Search, FreeNode, Goto, Holding, ThreadTypes
<1> QED
  BY <1>1, <1>2, <1>3, <1>4, <1>5, NoTrip

LEMMA LocksStep ==
  ASSUME TypeOK, Locks, mailStep \/ do_drawing \/ \E t \in Thread : walked(t)
  PROVE  Locks'
<1>1. CASE mailStep
  <2>1. UNCHANGED <<pc, mutex, draw>>
    BY <1>1 DEF mailStep, InitList, ReadRequest, WriteName, WriteRest, CreateNone
  <2> QED
    BY <2>1 DEF Locks
<1>2. CASE do_drawing
  <2>1. pc' = pc
    BY <1>2 DEF do_drawing, DrawBegin, DrawLock, DrawPlanet, DrawEnd, DrawTrip, drawRest
  <2>2. CASE DrawBegin \/ DrawPlanet \/ DrawTrip
    <3>1. mutex' = mutex /\ (draw.pc = "draw" \/ draw'.pc = "lock")
      <4>1. DrawBegin => mutex' = mutex /\ draw'.pc = "lock"
        BY DEF DrawBegin
      <4>2. DrawPlanet \/ DrawTrip => mutex' = mutex /\ draw.pc = "draw"
        BY DEF DrawPlanet, DrawTrip
      <4> QED
        BY <2>2, <4>1, <4>2
    <3> QED
      BY <2>1, <3>1 DEF Locks
  <2>3. CASE DrawLock
    <3>1. mutex = Free /\ mutex' = Drawer
      BY <2>3 DEF DrawLock
    <3> QED
      BY <2>1, <3>1, OwnerAssumption DEF Locks
  <2>4. CASE DrawEnd
    <3>1. draw.pc = "draw" /\ draw'.pc = "begin"
      BY <2>4 DEF DrawEnd
    <3> QED
      BY <2>1, <3>1, OwnerAssumption DEF Locks
  <2> QED
    BY <1>2, <2>2, <2>3, <2>4 DEF do_drawing
<1>3. ASSUME NEW t \in Thread, walked(t) PROVE Locks'
  <2>1. (\A u \in Thread \ {t} : pc'[u] = pc[u]) /\ draw' = draw
    BY <1>3, OthersStay, OneThreadMoves, TypeParts DEF walked
  <2> QED
    BY <1>3, <2>1, MutexMoves, OwnerAssumption DEF Locks
<1> QED
  BY <1>1, <1>2, <1>3

LEMMA PointerSetStep ==
  ASSUME TypeOK, PointerSet, mailStep \/ do_drawing \/ \E t \in Thread : walked(t)
  PROVE  PointerSet'
<1>0. ThreadTypes /\ ListTypes
  BY TypeParts
<1>1. CASE mailStep \/ do_drawing
  <2>1. UNCHANGED <<pc, planetPointer>>
    BY <1>1 DEF mailStep, InitList, ReadRequest, WriteName, WriteRest, CreateNone, do_drawing,
       DrawBegin, DrawLock, DrawPlanet, DrawEnd, DrawTrip, drawRest
  <2> QED
    BY <2>1 DEF PointerSet
<1>2. ASSUME NEW t \in Thread, walked(t) PROVE PointerSet'
  <2>1. \A u \in Thread \ {t} : pc'[u] = pc[u] /\ planetPointer'[u] = planetPointer[u]
    BY <1>2, OthersStay DEF walked
  <2>2. CASE AddLink(t)
    <3>1. pc'[t] = "unlock add"
      BY <1>0, <2>2 DEF AddLink, Goto, ThreadTypes
    <3> QED
      BY <2>1, <3>1 DEF PointerSet, Arriving, Living
  <2>3. CASE Connect(t)
    <3>1. planetPointer' = planetPointer /\ pc'[t] = "test" /\ Valid(planetPointer[t])
      BY <1>0, <2>3 DEF Connect, Goto, ThreadTypes
    <3>2. planetPointer[t] # Wild
      BY <1>0, <3>1, PointerAssumption DEF Valid, ListTypes
    <3> QED
      BY <2>1, <3>1, <3>2 DEF PointerSet, Arriving
  <2>4. CASE ~AddLink(t) /\ ~Connect(t)
    <3>1. planetPointer' = planetPointer
      BY <1>2, <2>4, NoTrip DEF CreateThread, CopyName, CopyRest, Lock, AddWalk, Unlock, Die,
         Survive, Reported, GravityTest, GravityPull, Move, Search, FreeNode
    <3>2. SUFFICES /\ pc'[t] \in Arriving => pc[t] \in Arriving
                   /\ pc'[t] \in Living => pc[t] \in Living
      BY <2>1, <3>1 DEF PointerSet
    <3>3. CASE CreateThread(t) \/ CopyName(t) \/ CopyRest(t) \/ Lock(t) \/ AddWalk(t)
      BY <1>0, <3>3 DEF CreateThread, CopyName, CopyRest, Lock, AddWalk, Goto, ThreadTypes,
         Arriving, Living
    <3>4. CASE Unlock(t) \/ Die(t) \/ Survive(t) \/ Reported(t)
      BY <1>0, <3>4 DEF Unlock, Die, Survive, Reported, Goto, ThreadTypes, Arriving, Living
    <3>5. CASE GravityTest(t) \/ GravityPull(t) \/ Move(t) \/ FreeNode(t)
      BY <1>0, <3>5 DEF GravityTest, GravityPull, Move, FreeNode, Goto, ThreadTypes, Arriving,
         Living
    <3>6. CASE Search(t)
      BY <1>0, <3>6, SearchCases DEF Unlinked, ThreadTypes, Arriving, Living
    <3> QED
      BY <1>2, <2>4, <3>3, <3>4, <3>5, <3>6, NoTrip
  <2> QED
    BY <2>2, <2>3, <2>4
<1> QED
  BY <1>1, <1>2

-----------------------------------------------------------------------------
(* The list                                                                *)

(* While t is in the list functions nobody else has unlinked a node.       *)
LEMMA HolderAlone ==
  ASSUME Locks, NEW t \in Thread, pc[t] \in Holding \ {"free"}
  PROVE  /\ Linked = alloc
         /\ \A u \in Thread \ {t} : pc[u] \notin Holding
         /\ draw.pc # "draw"
<1>1. \A u \in Thread : pc[u] \in Holding => u = t
  BY DEF Locks
<1>2. Doomed = {}
  BY <1>1 DEF Doomed, Holding
<1> QED
  BY <1>1, <1>2, OwnerAssumption DEF Linked, Locks

LEMMA DrawerAlone ==
  ASSUME Locks, draw.pc = "draw" \/ mutex = Free
  PROVE  \A u \in Thread : pc[u] \notin Holding
BY OwnerAssumption DEF Locks

(* Which nodes are linked changes only in the second half of addToList and *)
(* where removeFromList unlinks: not when the node is freed.               *)
LEMMA LinkedKept ==
  ASSUME TypeOK, fault = "none" => Locks, NEW t \in Thread, thread(t), fault = "none",
         AddLink(t) => alloc' = alloc, Search(t) => pc' = pc
  PROVE  Linked' = Linked
<1>0. ThreadTypes
  BY TypeParts
<1>1. CASE FreeNode(t)
  <2>1. pc[t] = "free" /\ pc' = [pc EXCEPT ![t] = "unlock remove"] /\ temp' = temp
        /\ alloc' = alloc \ {temp[t]}
    BY <1>1 DEF FreeNode, Goto
  <2>2. \A u \in Thread : pc[u] = "free" => u = t
    BY <2>1 DEF Locks, Holding
  <2>3. Doomed = {temp[t]} /\ Doomed' = {}
    BY <1>0, <2>1, <2>2 DEF Doomed, ThreadTypes
  <2> QED
    BY <2>1, <2>3 DEF Linked
<1>2. CASE ~FreeNode(t)
  <2>1. alloc' = alloc
    <3>1. Search(t) => alloc' = alloc
      BY DEF Search
    <3> QED
      BY <1>2, <3>1, ListKept
  <2>2. pc[t] # "free" /\ pc'[t] # "free"
    BY <1>0, <1>2 DEF thread, planet, CreateThread, CopyName, CopyRest, Lock, AddWalk, AddLink,
       Unlock, Connect, Die, Survive, Reported, GravityTest, GravityPull, Move, Search, Trip,
       Crash, Goto, ThreadTypes
  <2>3. \A u \in Thread : pc'[u] = "free" <=> pc[u] = "free"
    BY <2>2, OthersStay
  <2>4. \A u \in Thread : pc[u] = "free" => temp'[u] = temp[u]
    BY <2>2, OthersStay
  <2>5. Doomed' = Doomed
    BY <2>3, <2>4 DEF Doomed
  <2> QED
    BY <2>1, <2>5 DEF Linked
<1> QED
  BY <1>1, <1>2

(* The walk of removeFromList: by what the list is, and what is ahead.     *)
LEMMA SearchFinds ==
  ASSUME TypeOK, Running, NEW t \in Thread, pc[t] = "search"
  PROVE  /\ Tame /\ temp[t] \in InList /\ Linked = alloc
         /\ next[temp[t]] \in Linked /\ ValidNext(temp[t])
         /\ next[next[temp[t]]] \in Linked \cup {NULL}
<1>1. Tame
  BY DEF Running, Barren, Tame
<1>2. Linked = alloc /\ temp[t] \in InList
  BY <1>1, HolderAlone DEF Running, Walkers, Holding
<1>3. PICK pos \in [Node \cup {HeadNode} -> Nat], len \in Nat : Chain(pos, len) /\ Ahead(pos)
  BY <1>1 DEF Running, List
<1>4. PICK m \in Linked : pos[m] > pos[temp[t]]
  BY <1>3 DEF Ahead
<1>5. next[temp[t]] # NULL
  <2>1. pos[m] \in 1 .. len /\ pos[temp[t]] \in Nat
    <3>1. temp[t] \in Node \cup {HeadNode}
      BY <1>2, TypeParts DEF InList, ListTypes
    <3> QED
      BY <1>3, <3>1 DEF Chain
  <2>2. pos[temp[t]] # len
    BY <1>4, <2>1
  <2> QED
    BY <1>2, <1>3, <2>2 DEF Chain
<1>6. next[temp[t]] \in Linked
  BY <1>2, <1>3, <1>5 DEF Chain
<1>7. next[next[temp[t]]] \in Linked \cup {NULL}
  BY <1>3, <1>6 DEF Chain, InList
<1> QED
  BY <1>1, <1>2, <1>6, <1>7 DEF ValidNext, Valid, InList

(* The walk of addToList.                                                  *)
LEMMA WalkIsSafe ==
  ASSUME TypeOK, Running, NEW t \in Thread, pc[t] \in {"walk", "link"}, Tame
  PROVE  /\ Linked = alloc /\ temp[t] \in InList /\ Valid(temp[t])
         /\ next[temp[t]] \in Linked \cup {NULL}
<1>1. Linked = alloc /\ temp[t] \in InList
  BY HolderAlone DEF Running, Walkers, Holding
<1>2. PICK pos \in [Node \cup {HeadNode} -> Nat], len \in Nat : Chain(pos, len)
  BY DEF Running, List
<1> QED
  BY <1>1, <1>2 DEF Chain, Valid, InList

LEMMA LinkIsTame ==
  ASSUME Barren, NEW t \in Thread, pc[t] \notin {"none", "name", "rest", "lock add", "walk"}
  PROVE  Tame
BY DEF Barren, Tame

(* Only initList can leave the server without a head.                      *)
LEMMA HeadKept ==
  ASSUME TypeOK, mailStep \/ do_drawing \/ \E t \in Thread : thread(t), ~InitList
  PROVE  headGlob' = headGlob /\ (HasHead' <=> HasHead)
<1>0. MailTypes
  BY TypeParts
<1>1. CASE ReadRequest \/ WriteName \/ WriteRest \/ CreateNone
  <2>1. headGlob' = headGlob /\ mail.pc # "init" /\ mail'.pc # "init"
    BY <1>0, <1>1 DEF ReadRequest, WriteName, WriteRest, CreateNone, MailTypes
  <2> QED
    BY <2>1 DEF HasHead
<1>2. ASSUME NEW t \in Thread, CreateThread(t) PROVE headGlob' = headGlob /\ (HasHead' <=> HasHead)
  <2>1. headGlob' = headGlob /\ mail.pc # "init" /\ mail'.pc # "init"
    BY <1>0, <1>2 DEF CreateThread, MailTypes
  <2> QED
    BY <2>1 DEF HasHead
<1>3. CASE do_drawing \/ \E t \in Thread : planet(t)
  <2>1. UNCHANGED mailVars
    <3>1. do_drawing => UNCHANGED mailVars
      BY DEF do_drawing, DrawBegin, DrawLock, DrawPlanet, DrawEnd, DrawTrip, drawRest
    <3>2. ASSUME NEW t \in Thread, planet(t) PROVE UNCHANGED mailVars
      BY <3>2 DEF planet, CopyName, CopyRest, Lock, AddWalk, AddLink, Unlock, Connect, Die,
         Survive, Reported, GravityTest, GravityPull, Move, Search, FreeNode, Trip, Crash
    <3> QED
      BY <1>3, <3>1, <3>2
  <2> QED
    BY <2>1 DEF mailVars, HasHead
<1> QED
  BY <1>1, <1>2, <1>3 DEF mailStep, thread

(* A planet thread that is to take the first statement of a walk, and what *)
(* it finds in headOfList.                                                 *)
LEMMA HeadRead ==
  ASSUME TypeOK, Barren, NEW t \in Thread, pc[t] # "none"
  PROVE  mail.pc # "init" /\ (Tame => headGlob = HeadNode)
BY TypeParts DEF Barren, Tame, HasHead, MailTypes

LEMMA BarrenStep ==
  ASSUME TypeOK, Running, mailStep \/ do_drawing \/ \E t \in Thread : walked(t)
  PROVE  Barren'
<1>0. ThreadTypes /\ ListTypes /\ MailTypes /\ Barren
  BY TypeParts DEF Running
<1>1. CASE do_drawing
  <2>1. UNCHANGED <<mail, headGlob, pc, alloc, next, temp>>
    BY <1>1 DEF do_drawing, DrawBegin, DrawLock, DrawPlanet, DrawEnd, DrawTrip, drawRest,
       listVars, mailVars
  <2> QED
    BY <1>0, <2>1 DEF Barren, Tame, HasHead
<1>2. CASE InitList
  <2>1. mail.pc = "init" /\ mail'.pc = "read" /\ UNCHANGED <<pc, alloc, temp>>
    BY <1>0, <1>2 DEF InitList, MailTypes
  <2> QED
    BY <1>0, <2>1 DEF Barren
<1>3. CASE ReadRequest \/ WriteName \/ WriteRest \/ CreateNone
  <2>1. mail'.pc # "init" /\ UNCHANGED <<pc, alloc, temp, next>> /\ ~InitList
    BY <1>0, <1>3 DEF InitList, ReadRequest, WriteName, WriteRest, CreateNone, MailTypes, listVars
  <2> QED
    BY <1>0, <1>3, <2>1, HeadKept DEF Barren, Tame, mailStep
<1>4. ASSUME NEW t \in Thread, CreateThread(t) PROVE Barren'
  <2>1. /\ mail'.pc # "init" /\ UNCHANGED <<alloc, temp, next>> /\ ~InitList
        /\ pc' = [pc EXCEPT ![t] = "name"]
    BY <1>0, <1>4 DEF InitList, CreateThread, MailTypes, listVars
  <2>2. headGlob' = headGlob /\ (Tame' <=> Tame)
    BY <1>4, <2>1, HeadKept DEF Tame, thread
  <2> QED
    BY <1>0, <2>1, <2>2 DEF Barren, ThreadTypes
<1>5. ASSUME NEW t \in Thread, walked(t), ~CreateThread(t) PROVE Barren'
  <2>1. mail.pc # "init" /\ UNCHANGED <<mail, headGlob>> /\ (HasHead' <=> HasHead)
    <3>1. pc[t] # "none" /\ UNCHANGED <<mail, headGlob>>
      BY <1>5, NoTrip DEF CopyName, CopyRest, Lock, AddWalk, AddLink, Unlock, Connect, Die,
         Survive, Reported, GravityTest, GravityPull, Move, Search, FreeNode, Goto, mailVars
    <3> QED
      BY <1>0, <3>1 DEF Barren, HasHead
  <2>2. \A u \in Thread \ {t} : pc'[u] = pc[u] /\ temp'[u] = temp[u]
    BY <1>5, OthersStay DEF walked
  <2>3. CASE Tame
    <3>1. Tame'
      <4>1. CASE AddLink(t)
        <5>1. temp[t] \in InList /\ temp[t] \in Node \cup {HeadNode}
          BY <2>3, <4>1, <1>0, WalkIsSafe DEF AddLink, Goto, InList, ListTypes
        <5>2. CASE next' = next
          BY <2>1, <2>3, <5>2 DEF Tame
        <5>3. ASSUME NEW n \in Node, next' = [next EXCEPT ![n] = NULL, ![temp[t]] = n]
              PROVE  Tame'
          BY <1>0, <2>1, <2>3, <5>3, PointerAssumption DEF Tame, ListTypes
        <5> QED
          BY <4>1, <5>2, <5>3, AddCases DEF Running, Added, listVars
      <4>2. CASE Search(t)
        <5>1. pc[t] = "search"
          BY <4>2, SearchCases
        <5>2. next[next[temp[t]]] # Wild
          BY <1>0, <5>1, SearchFinds, PointerAssumption DEF Linked, ListTypes
        <5>3. next' = next \/ next' = [next EXCEPT ![temp[t]] = next[next[temp[t]]]]
          BY <4>2, SearchCases DEF Unlinked
        <5> QED
          BY <1>0, <2>1, <2>3, <5>2, <5>3 DEF Tame, ListTypes
      <4>3. CASE FreeNode(t)
        BY <2>1, <2>3, <4>3 DEF FreeNode, Tame
      <4> QED
        BY <1>5, <2>1, <2>3, <4>1, <4>2, <4>3, ListKept DEF walked, Tame
    <3> QED
      BY <2>1, <3>1 DEF Barren
  <2>4. CASE ~Tame
    <3>1. /\ pc[t] \in {"none", "name", "rest", "lock add", "walk"} /\ alloc = {}
          /\ pc[t] = "walk" => temp[t] \in {headGlob, Wild}
          /\ headGlob # NULL => next[HeadNode] = Wild
      BY <1>0, <2>1, <2>4 DEF Barren, Tame, HasHead
    <3>2. CopyName(t) \/ CopyRest(t) \/ Lock(t) \/ AddWalk(t)
      BY <1>5, <3>1, NoTrip DEF AddLink, Unlock, Connect, Die, Survive, Reported, GravityTest,
         GravityPull, Move, Search, FreeNode, Goto
    <3>3. UNCHANGED <<next, alloc>>
      BY <3>2 DEF CopyName, CopyRest, Lock, AddWalk, listVars
    <3>4. ~Tame'
      BY <2>1, <2>4, <3>3 DEF Tame
    <3>5. /\ mail'.pc # "init" /\ alloc' = {} /\ headGlob' = headGlob
          /\ \A u \in Thread \ {t} :
               /\ pc'[u] \in {"none", "name", "rest", "lock add", "walk"}
               /\ pc'[u] = "walk" => temp'[u] \in {headGlob, Wild}
      BY <1>0, <2>1, <2>2, <2>4, <3>1, <3>3 DEF Barren
    <3>6. ASSUME /\ pc'[t] \in {"none", "name", "rest", "lock add", "walk"}
                 /\ pc'[t] = "walk" => temp'[t] \in {headGlob, Wild}
          PROVE  Barren'
      BY <3>4, <3>5, <3>6 DEF Barren
    <3>7. CASE CopyName(t) \/ CopyRest(t)
      <4>1. pc'[t] \in {"rest", "lock add"}
        BY <1>0, <3>7 DEF CopyName, CopyRest, Goto, ThreadTypes
      <4> QED
        BY <3>6, <4>1
    <3>8. CASE Lock(t)
      <4>1. pc'[t] = "walk" /\ temp'[t] = headGlob
        BY <1>0, <3>1, <3>8 DEF Lock, Goto, ThreadTypes
      <4> QED
        BY <3>6, <4>1
    <3>9. CASE AddWalk(t)
      <4>1. temp[t] = HeadNode /\ next[HeadNode] = Wild
        BY <1>0, <3>1, <3>9, PointerAssumption DEF AddWalk, Valid, MailTypes
      <4>2. pc' = pc /\ temp'[t] = Wild
        BY <1>0, <3>1, <3>9, <4>1, PointerAssumption DEF AddWalk, ThreadTypes, Goto
      <4>3. pc'[t] = "walk"
        BY <3>9, <4>2 DEF AddWalk
      <4> QED
        BY <3>6, <4>2, <4>3
    <3> QED
      BY <3>2, <3>7, <3>8, <3>9
  <2> QED
    BY <2>3, <2>4
<1> QED
  BY <1>1, <1>2, <1>3, <1>4, <1>5 DEF mailStep

(* What a step of t does to the nodes that are linked: nothing ...         *)
Quiet == UNCHANGED <<next, data>> /\ Linked' = Linked

(* ... or one is added behind the last ...                                 *)
Grown(t, n) ==
  /\ AddLink(t) /\ pc[t] = "link" /\ pc'[t] = "unlock add"
  /\ Added(t, n) /\ args' = args /\ temp[t] \in InList /\ next[temp[t]] = NULL
  /\ n \notin InList /\ Linked' = Linked \cup {n}
  /\ \A u \in Thread \ {t} : pc[u] \notin Holding
  /\ draw.pc # "draw"

(* ... or one with the name of t's planet is taken out.                    *)
Shrunk(t, m) ==
  /\ Search(t) /\ pc[t] = "search" /\ pc'[t] = "free"
  /\ NameAt(m) = NameIn(t) /\ args' = args /\ planetPointer' = planetPointer /\ data' = data
  /\ temp[t] \in InList /\ m = next[temp[t]] /\ m \in Linked
  /\ next' = [next EXCEPT ![temp[t]] = next[m]]
  /\ Linked' = Linked \ {m}
  /\ \A u \in Thread \ {t} : pc[u] \notin Holding
  /\ draw.pc # "draw"

LEMMA ListCases ==
  ASSUME TypeOK, Running, fault = "none", NEW t \in Thread, thread(t)
  PROVE  Quiet \/ (\E n \in Node : Grown(t, n)) \/ (\E m \in Node : Shrunk(t, m))
<1>0. ThreadTypes /\ ListTypes /\ Locks /\ Filled /\ Barren /\ Walkers
  BY TypeParts DEF Running
<1>1. CASE AddLink(t) /\ alloc' # alloc
  <2>1. pc[t] = "link"
    BY <1>0, <1>1, AddCases
  <2>2. PICK n \in Node : Added(t, n)
    BY <1>0, <1>1, AddCases DEF listVars
  <2>3. Tame
    BY <1>0, <2>1, LinkIsTame
  <2>4. temp[t] \in InList /\ Linked = alloc /\ next[temp[t]] = NULL
    BY <1>0, <2>1, <2>3, WalkIsSafe DEF Walkers
  <2>5. (\A u \in Thread \ {t} : pc[u] \notin Holding) /\ draw.pc # "draw"
    BY <1>0, <2>1, HolderAlone DEF Holding
  <2>6. pc'[t] = "unlock add" /\ args' = args /\ temp' = temp
    BY <1>0, <1>1, AddCases DEF ThreadTypes
  <2>7. Doomed' = {}
    <3>1. \A u \in Thread : pc'[u] # "free"
      BY <1>0, <2>5, <2>6, OthersStay DEF Holding
    <3> QED
      BY <3>1 DEF Doomed
  <2>8. n \notin InList /\ Linked' = Linked \cup {n}
    BY <2>2, <2>4, <2>7, PointerAssumption DEF Added, Linked, InList
  <2> QED
    BY <1>1, <2>1, <2>2, <2>4, <2>5, <2>6, <2>8 DEF Grown
<1>2. CASE Search(t) /\ pc' # pc
  <2>1. pc[t] = "search" /\ Unlinked(t) /\ temp' = [temp EXCEPT ![t] = next[temp[t]]]
        /\ UNCHANGED <<alloc, data, args, planetPointer>>
    BY <1>2, SearchCases
  <2>2. temp[t] \in InList /\ next[temp[t]] \in Linked /\ Linked = alloc
    BY <2>1, SearchFinds
  <2>3. (\A u \in Thread \ {t} : pc[u] \notin Holding) /\ draw.pc # "draw"
    BY <1>0, <2>1, HolderAlone DEF Holding
  <2>4. pc'[t] = "free" /\ temp'[t] = next[temp[t]]
    BY <1>0, <2>1 DEF Unlinked, ThreadTypes
  <2>5. Doomed' = {next[temp[t]]}
    <3>1. \A u \in Thread \ {t} : pc'[u] # "free"
      BY <2>3, OthersStay DEF Holding
    <3> QED
      BY <2>4, <3>1 DEF Doomed
  <2>6. Linked' = Linked \ {next[temp[t]]}
    BY <2>1, <2>2, <2>5 DEF Linked
  <2>7. next[temp[t]] \in Node
    BY <1>0, <2>2 DEF ListTypes
  <2> QED
    BY <1>2, <2>1, <2>2, <2>3, <2>4, <2>6, <2>7 DEF Shrunk, Unlinked
<1>3. CASE (AddLink(t) => alloc' = alloc) /\ (Search(t) => pc' = pc)
  <2>1. Linked' = Linked
    BY <1>0, <1>3, LinkedKept
  <2>2. UNCHANGED <<next, data>>
    <3>1. CASE AddLink(t)
      <4>1. \A n : ~Added(t, n)
        BY <1>3, <3>1 DEF Added
      <4> QED
        BY <1>0, <3>1, <4>1, AddCases DEF listVars
    <3>2. CASE Search(t)
      <4>1. ~Unlinked(t)
        <5>1. pc[t] = "search"
          BY <3>2, SearchCases
        <5> QED
          BY <1>0, <1>3, <3>2, <5>1 DEF Unlinked, ThreadTypes
      <4> QED
        BY <3>2, <4>1, SearchCases
    <3>3. CASE FreeNode(t)
      BY <3>3 DEF FreeNode
    <3> QED
      BY <3>1, <3>2, <3>3, ListKept
  <2> QED
    BY <2>1, <2>2 DEF Quiet
<1> QED
  BY <1>1, <1>2, <1>3

(* A step of a planet thread leaves the head where it is.                  *)
LEMMA ThreadKeepsHead ==
  ASSUME TypeOK, NEW t \in Thread, thread(t)
  PROVE  headGlob' = headGlob /\ (HasHead' <=> HasHead)
<1>1. ~InitList
  BY TypeParts DEF InitList, thread, planet, CreateThread, CopyName, CopyRest, Lock, AddWalk,
     AddLink, Unlock, Connect, Die, Survive, Reported, GravityTest, GravityPull, Move, Search,
     FreeNode, Trip, Crash, mailVars, MailTypes
<1> QED
  BY <1>1, HeadKept

(* A list with a wild end stays one.                                       *)
LEMMA TameBefore ==
  ASSUME TypeOK, Running, fault = "none", mailStep \/ do_drawing \/ \E t \in Thread : thread(t),
         Tame'
  PROVE  Tame
<1>0. Barren
  BY DEF Running
<1>1. CASE InitList
  BY <1>0, <1>1, PointerAssumption DEF InitList, Barren, Tame, HasHead
<1>2. CASE ReadRequest \/ WriteName \/ WriteRest \/ CreateNone \/ do_drawing
  <2>1. next' = next /\ ~InitList
    BY <1>2, TypeParts DEF InitList, ReadRequest, WriteName, WriteRest, CreateNone, do_drawing,
       DrawBegin, DrawLock, DrawPlanet, DrawEnd, DrawTrip, drawRest, listVars, mailVars, MailTypes
  <2> QED
    BY <2>1, HeadKept DEF Tame
<1>3. ASSUME NEW t \in Thread, thread(t) PROVE Tame
  <2>1. CASE Quiet
    BY <1>0, <1>3, <2>1, ThreadKeepsHead DEF Quiet, Tame
  <2>2. ASSUME NEW n \in Node, Grown(t, n) PROVE Tame
    BY <1>0, <2>2, LinkIsTame DEF Grown
  <2>3. ASSUME NEW m \in Node, Shrunk(t, m) PROVE Tame
    BY <1>0, <2>3, LinkIsTame DEF Shrunk
  <2> QED
    BY <1>3, <2>1, <2>2, <2>3, ListCases
<1> QED
  BY <1>1, <1>2, <1>3 DEF mailStep

(* The steps of the mail thread and of GTK leave the planets alone.        *)
LEMMA NoThreadStep ==
  ASSUME mailStep \/ do_drawing
  PROVE  /\ UNCHANGED <<alloc, data, pc, args, planetPointer, temp>> /\ Linked' = Linked
         /\ InitList \/ next' = next
<1>1. UNCHANGED <<alloc, data, pc, args, planetPointer, temp>> /\ (InitList \/ next' = next)
  BY DEF mailStep, InitList, ReadRequest, WriteName, WriteRest, CreateNone, do_drawing,
     DrawBegin, DrawLock, DrawPlanet, DrawEnd, DrawTrip, drawRest, listVars
<1>2. Linked' = Linked
  BY <1>1 DEF Linked, Doomed
<1> QED
  BY <1>1, <1>2

LEMMA WalkersStep ==
  ASSUME TypeOK, Running, fault = "none", mailStep \/ do_drawing \/ \E t \in Thread : walked(t)
  PROVE  Walkers'
<1>0. ThreadTypes /\ ListTypes /\ MailTypes /\ Barren /\ Walkers /\ Locks
  BY TypeParts DEF Running
<1>1. CASE InitList
  <2>1. UNCHANGED <<pc, draw>> /\ Linked' = Linked
    BY <1>1, NoThreadStep DEF mailStep, InitList
  <2>2. (\A t \in Thread : pc[t] = "none") /\ Tame
    BY <1>0, <1>1, PointerAssumption DEF InitList, Barren, Tame, HasHead
  <2> QED
    BY <1>0, <2>1, <2>2 DEF Walkers, InList
<1>2. CASE ReadRequest \/ WriteName \/ WriteRest \/ CreateNone
  <2>1. UNCHANGED <<pc, draw, next, temp>> /\ Linked' = Linked
    BY <1>2, NoThreadStep DEF mailStep, ReadRequest, WriteName, WriteRest, CreateNone, listVars
  <2>2. ~InitList
    BY <1>0, <1>2 DEF InitList, ReadRequest, WriteName, WriteRest, CreateNone
  <2>3. Tame' <=> Tame
    BY <1>2, <2>1, <2>2, HeadKept DEF Tame, mailStep
  <2> QED
    BY <1>0, <2>1, <2>3 DEF Walkers, InList
<1>3. CASE do_drawing
  <2>1. UNCHANGED <<pc, temp, next>> /\ Linked' = Linked
    <3>1. next' = next
      BY <1>3 DEF do_drawing, DrawBegin, DrawLock, DrawPlanet, DrawEnd, DrawTrip, drawRest, listVars
    <3> QED
      BY <1>3, <3>1, NoThreadStep
  <2>2. /\ \A t \in Thread :
             /\ Tame' /\ pc'[t] \in {"walk", "link", "search"} => temp'[t] \in InList'
             /\ pc'[t] = "link" => next'[temp'[t]] = NULL
        /\ (Tame' <=> Tame) /\ InList' = InList
    <3>1. UNCHANGED mailVars
      BY <1>3 DEF do_drawing, DrawBegin, DrawLock, DrawPlanet, DrawEnd, DrawTrip, drawRest
    <3>2. (Tame' <=> Tame) /\ InList' = InList
      BY <2>1, <3>1 DEF Tame, HasHead, InList, mailVars
    <3> QED
      BY <1>0, <2>1, <3>2 DEF Walkers
  <2>3. CASE DrawBegin
    <3>1. draw' = [pc |-> "lock", temp |-> headGlob]
      BY <2>3 DEF DrawBegin
    <3> QED
      BY <1>0, <2>2, <3>1 DEF Walkers, MailTypes
  <2>4. CASE DrawLock
    <3>1. draw.pc = "lock" /\ draw'.temp = draw.temp /\ draw'.pc = "draw"
      BY <2>4, TypeParts DEF DrawLock, OtherTypes
    <3> QED
      BY <1>0, <2>2, <3>1 DEF Walkers, InList
  <2>5. CASE DrawPlanet
    <3>1. draw'.temp = next[draw.temp] /\ draw.pc = "draw" /\ draw'.pc = "draw"
          /\ ValidNext(draw.temp)
      BY <2>5, TypeParts DEF DrawPlanet, OtherTypes
    <3>2. ASSUME Tame PROVE next[draw.temp] \in InList \cup {NULL}
      <4>1. draw.temp \in InList
        BY <1>0, <3>1, <3>2, PointerAssumption DEF Walkers, ValidNext, Valid, ListTypes
      <4>2. PICK pos \in [Node \cup {HeadNode} -> Nat], len \in Nat : Chain(pos, len)
        BY <3>2 DEF Running, List
      <4> QED
        BY <4>1, <4>2 DEF Chain, InList
    <3> QED
      BY <2>2, <3>1, <3>2 DEF Walkers
  <2>6. CASE DrawEnd \/ DrawTrip
    <3>1. draw'.pc \in {"begin", "crashed"}
      <4>1. DrawEnd => draw'.pc = "begin"
        BY DEF DrawEnd
      <4>2. DrawTrip => draw'.pc = "crashed"
        BY TypeParts DEF DrawTrip, OtherTypes
      <4> QED
        BY <2>6, <4>1, <4>2
    <3> QED
      BY <2>2, <3>1 DEF Walkers
  <2> QED
    BY <1>3, <2>3, <2>4, <2>5, <2>6 DEF do_drawing
<1>4. ASSUME NEW t \in Thread, walked(t) PROVE Walkers'
  <2>1. \A u \in Thread \ {t} : pc'[u] = pc[u] /\ temp'[u] = temp[u]
    BY <1>4, OthersStay DEF walked
  <2>2. draw' = draw
    BY <1>0, <1>4, OneThreadMoves DEF walked
  <2>3. CASE Quiet
    <3>1. (Tame' <=> Tame) /\ InList' = InList /\ next' = next
      BY <1>4, <2>3, ThreadKeepsHead DEF Quiet, Tame, InList, walked
    <3>2. ASSUME pc'[t] \in {"walk", "link", "search"}, Tame PROVE temp'[t] \in InList
      <4>1. Lock(t) \/ AddWalk(t) \/ Search(t)
        BY <1>0, <1>4, <3>2, NoTrip DEF CreateThread, CopyName, CopyRest, AddLink, Unlock,
           Connect, Die, Survive, Reported, GravityTest, GravityPull, Move, FreeNode, Goto,
           ThreadTypes
      <4>2. CASE Lock(t)
        <5>1. pc[t] # "none" /\ temp' = [temp EXCEPT ![t] = headGlob]
          BY <4>2 DEF Lock, Goto
        <5> QED
          BY <1>0, <3>2, <5>1, HeadRead DEF ThreadTypes, InList
      <4>3. CASE AddWalk(t)
        <5>1. pc[t] = "walk"
          BY <4>3 DEF AddWalk
        <5>2. temp[t] \in InList /\ next[temp[t]] \in Linked \cup {NULL}
          BY <3>2, <5>1, WalkIsSafe
        <5>3. \/ temp' = temp
              \/ next[temp[t]] # NULL /\ temp' = [temp EXCEPT ![t] = next[temp[t]]]
          BY <4>3 DEF AddWalk
        <5> QED
          BY <1>0, <5>2, <5>3 DEF InList, ThreadTypes
      <4>4. CASE Search(t)
        BY <1>0, <4>4, SearchCases, SearchFinds DEF InList, ThreadTypes
      <4> QED
        BY <4>1, <4>2, <4>3, <4>4
    <3>3. ASSUME pc'[t] = "link" PROVE next'[temp'[t]] = NULL
      <4>1. ~Search(t)
        BY <1>0, <3>3, SearchCases DEF Unlinked, ThreadTypes
      <4>2. /\ ~CreateThread(t) /\ ~CopyName(t) /\ ~CopyRest(t)
            /\ ~Lock(t) /\ ~AddLink(t) /\ ~Unlock(t)
        BY <1>0, <3>3 DEF CreateThread, CopyName, CopyRest, Lock, AddLink, Unlock, Goto, ThreadTypes
      <4>3. AddWalk(t)
        BY <1>0, <1>4, <3>3, <4>1, <4>2, NoTrip DEF Connect, Die, Survive, Reported, GravityTest,
           GravityPull, Move, FreeNode, Goto, ThreadTypes
      <4> QED
        BY <1>0, <3>1, <3>3, <4>3 DEF AddWalk
    <3> QED
      BY <1>0, <2>1, <2>2, <3>1, <3>2, <3>3 DEF Walkers
  <2>4. ASSUME pc'[t] \notin {"walk", "link", "search"}, draw.pc # "draw",
               \A u \in Thread \ {t} : pc[u] \notin Holding
        PROVE  Walkers'
    BY <1>0, <2>1, <2>2, <2>4 DEF Walkers, Holding
  <2>5. ASSUME NEW n \in Node, Grown(t, n) PROVE Walkers'
    BY <2>4, <2>5 DEF Grown
  <2>6. ASSUME NEW m \in Node, Shrunk(t, m) PROVE Walkers'
    BY <2>4, <2>6 DEF Shrunk
  <2> QED
    BY <1>4, <2>3, <2>5, <2>6, ListCases DEF walked
<1> QED
  BY <1>1, <1>2, <1>3, <1>4 DEF mailStep

(* What a step changes of a threads' place in the list.                    *)
LEMMA HoldersMove ==
  ASSUME TypeOK, Running, fault = "none", NEW t \in Thread, thread(t)
  PROVE  /\ \A u \in Thread \ {t} : (u \in Holders' <=> u \in Holders) /\ args'[u] = args[u]
         /\ Quiet /\ t \in Holders' => /\ t \in Holders /\ args'[t] = args[t]
                                       /\ planetPointer'[t] = planetPointer[t]
<1>0. ThreadTypes /\ PointerSet
  BY TypeParts DEF Running
<1>1. \A u \in Thread \ {t} : (u \in Holders' <=> u \in Holders) /\ args'[u] = args[u]
  BY OthersStay DEF Holders, Orbiting
<1>2. ASSUME Quiet, t \in Holders'
      PROVE  t \in Holders /\ args'[t] = args[t] /\ planetPointer'[t] = planetPointer[t]
  <2>1. pc'[t] \in {"unlock add", "connect", "test", "gravity", "pull", "move", "report",
                    "lock remove", "search"} /\ planetPointer'[t] # Wild
    BY <1>2 DEF Holders, Orbiting
  <2>2. CASE AddLink(t)
    <3>1. pc[t] = "link"
      BY <2>2 DEF AddLink, Goto
    <3>2. planetPointer[t] = Wild
      BY <1>0, <3>1 DEF PointerSet, Arriving
    <3>3. planetPointer' # planetPointer
      BY <2>1, <3>2
    <3>4. \E n \in Node : Added(t, n)
      BY <2>2, <3>3, AddCases DEF Running
    <3>5. ASSUME NEW n \in Node, Added(t, n) PROVE FALSE
      <4>1. next' = next
        BY <1>2 DEF Quiet
      <4>2. Tame /\ Linked = alloc /\ temp[t] \in InList /\ next[temp[t]] = NULL
        BY <3>1, LinkIsTame, WalkIsSafe DEF Running, Walkers
      <4>3. next'[temp[t]] = n
        <5>1. temp[t] \in Node \cup {HeadNode}
          BY <4>2, TypeParts DEF InList, ListTypes
        <5> QED
          BY <3>5, <5>1, TypeParts DEF Added, ListTypes
      <4> QED
        BY <4>1, <4>2, <4>3, PointerAssumption
    <3> QED
      BY <3>4, <3>5
  <2>3. CASE ~AddLink(t)
    <3>1. planetPointer' = planetPointer
      BY <2>3 DEF thread, planet, CreateThread, CopyName, CopyRest, Lock, AddWalk, Unlock,
         Connect, Die, Survive, Reported, GravityTest, GravityPull, Move, Search, FreeNode, Trip,
         Crash
    <3>2. ~CopyName(t) /\ ~CopyRest(t)
      BY <1>0, <2>1 DEF CopyName, CopyRest, Goto, ThreadTypes
    <3>3. args' = args
      BY <2>3, <3>2 DEF thread, planet, CreateThread, Lock, AddWalk, Unlock, Connect, Die,
         Survive, Reported, GravityTest, GravityPull, Move, Search, FreeNode, Trip, Crash
    <3>4. pc[t] \in {"unlock add", "connect", "test", "gravity", "pull", "move", "report",
                     "lock remove", "search"}
      <4>1. pc'[t] \in {"unlock add", "connect", "test", "gravity", "pull", "move", "report",
                     "lock remove", "search"}
        BY <2>1
      <4>2. CASE Trip(t) \/ CreateThread(t)
        BY <1>0, <4>1, <4>2 DEF Trip, Crash, CreateThread, ThreadTypes
      <4>3. CASE Search(t)
        BY <4>3, SearchCases
      <4>4. CASE AddWalk(t) \/ FreeNode(t) \/ Lock(t) \/ Unlock(t)
        BY <1>0, <4>1, <4>4 DEF AddWalk, FreeNode, Lock, Unlock, Goto, ThreadTypes
      <4>5. CASE Connect(t) \/ Die(t) \/ Survive(t) \/ Reported(t) \/ GravityTest(t)
                 \/ GravityPull(t) \/ Move(t)
        BY <4>5 DEF Connect, Die, Survive, Reported, GravityTest, GravityPull, Move, Goto
      <4> QED
        BY <2>3, <3>2, <4>2, <4>3, <4>4, <4>5 DEF thread, planet
    <3> QED
      BY <2>1, <3>1, <3>3, <3>4 DEF Holders, Orbiting
  <2> QED
    BY <2>2, <2>3
<1> QED
  BY <1>1, <1>2

LEMMA OwnersStep ==
  ASSUME TypeOK, Running, fault = "none", mailStep \/ do_drawing \/ \E t \in Thread : thread(t)
  PROVE  Owners'
<1>0. ThreadTypes /\ ListTypes
  BY TypeParts
<1>1. PICK own \in [Thread -> Node \cup {HeadNode}] : OwnedBy(own)
  BY DEF Running, Owners
<1>2. CASE mailStep \/ do_drawing
  <2>1. UNCHANGED <<pc, args, data, planetPointer>> /\ Linked' = Linked
    BY <1>2, NoThreadStep
  <2>2. OwnedBy(own)'
    BY <1>1, <2>1 DEF OwnedBy, Holders, Orbiting, NameAt, NameIn
  <2> QED
    BY <2>2 DEF Owners
<1>3. ASSUME NEW t \in Thread, thread(t) PROVE Owners'
  <2>1. \A u \in Thread \ {t} : (u \in Holders' <=> u \in Holders) /\ args'[u] = args[u]
    BY <1>3, HoldersMove
  <2>2. CASE Quiet
    <3>1. \A u \in Holders' : u \in Holders /\ args'[u] = args[u] /\ u \in Thread
      BY <1>3, <2>1, <2>2, HoldersMove DEF Holders, Orbiting
    <3>2. OwnedBy(own)'
      BY <1>1, <2>2, <3>1 DEF OwnedBy, Quiet, NameAt, NameIn
    <3> QED
      BY <3>2 DEF Owners
  <2>3. ASSUME NEW n \in Node, Grown(t, n) PROVE Owners'
    <3> DEFINE own2 == [own EXCEPT ![t] = n]
    <3>1. own2 \in [Thread -> Node \cup {HeadNode}] /\ own2[t] = n
          /\ \A u \in Thread \ {t} : own2[u] = own[u]
      BY <1>1
    <3>2. data' = [data EXCEPT ![n] = args[t]] /\ args' = args /\ Linked' = Linked \cup {n}
          /\ n \notin Linked /\ Linked \subseteq Node
      BY <1>0, <2>3 DEF Grown, Added, InList, Linked, ListTypes
    <3>3. NameAt(n)' = NameIn(t)'
      BY <1>0, <3>2 DEF NameAt, NameIn, ListTypes
    <3>4. \A u \in Holders' \ {t} : /\ u \in Holders /\ u \in Thread /\ own[u] \in Linked
                                    /\ NameAt(own[u]) = NameIn(u)
      BY <1>1, <2>1 DEF OwnedBy, Holders, Orbiting, NameAt, NameIn
    <3>5. \A u \in Holders' \ {t} : (data[own[u]])' = data[own[u]]
      BY <1>0, <3>2, <3>4 DEF ListTypes
    <3>6. \A u \in Holders' \ {t} : NameOf[data'[own[u]].name] = NameIn(u)'
      BY <3>2, <3>4, <3>5 DEF NameAt, NameIn
    <3>7. \A u, v \in Holders' : own2[u] = own2[v] => u = v
      BY <1>1, <3>1, <3>2, <3>4 DEF OwnedBy
    <3> HIDE DEF own2
    <3>8. OwnedBy(own2)'
      BY <3>1, <3>2, <3>3, <3>4, <3>6, <3>7 DEF OwnedBy, NameAt
    <3> QED
      BY <3>1, <3>8 DEF Owners
  <2>4. ASSUME NEW m \in Node, Shrunk(t, m) PROVE Owners'
    <3>1. /\ pc[t] = "search" /\ pc'[t] = "free" /\ NameAt(m) = NameIn(t)
          /\ args' = args /\ data' = data /\ m \in Linked /\ Linked' = Linked \ {m}
      BY <2>4 DEF Shrunk
    <3>2. t \in Holders /\ t \notin Holders'
      BY <3>1 DEF Running, PointerSet, Living, Holders, Orbiting
    <3>3. \A u \in Holders' : u \in Holders /\ u # t /\ u \in Thread
      BY <2>1, <3>2 DEF Holders, Orbiting
    <3>4. CASE \A u \in Holders : own[u] # m \/ u = t
      <4>1. OwnedBy(own)'
        BY <1>1, <3>1, <3>3, <3>4 DEF OwnedBy, NameAt, NameIn
      <4> QED
        BY <4>1 DEF Owners
    <3>5. ASSUME NEW w \in Holders, own[w] = m, w # t PROVE Owners'
      <4> DEFINE own2 == [own EXCEPT ![w] = own[t]]
      <4>1. w \in Thread
        BY DEF Holders, Orbiting
      <4>2. own2 \in [Thread -> Node \cup {HeadNode}] /\ own2[w] = own[t]
            /\ \A u \in Thread \ {w} : own2[u] = own[u]
        BY <1>1, <4>1
      <4>3. own[t] \in Linked /\ own[t] # m /\ NameAt(own[t]) = NameIn(w)
        BY <1>1, <3>1, <3>2, <3>5 DEF OwnedBy
      <4> HIDE DEF own2
      <4>4. \A u \in Holders' : own2[u] \in Linked' /\ NameAt(own2[u]) = NameIn(u)
        BY <1>1, <3>1, <3>3, <3>5, <4>2, <4>3 DEF OwnedBy
      <4>5. \A u, v \in Holders' : own2[u] = own2[v] => u = v
        BY <1>1, <3>2, <3>3, <3>5, <4>2 DEF OwnedBy
      <4>6. OwnedBy(own2)'
        BY <3>1, <4>4, <4>5 DEF OwnedBy, NameAt, NameIn
      <4> QED
        BY <4>2, <4>6 DEF Owners
    <3> QED
      BY <3>4, <3>5
  <2> QED
    BY <1>3, <2>2, <2>3, <2>4, ListCases
<1> QED
  BY <1>2, <1>3

LEMMA PullingStep ==
  ASSUME TypeOK, Running, fault = "none", mailStep \/ do_drawing \/ \E t \in Thread : walked(t)
  PROVE  Pulling'
<1>0. ThreadTypes /\ ListTypes /\ Pulling /\ Barren
  BY TypeParts DEF Running
<1>1. SUFFICES ASSUME Tame', Unremoved'
               PROVE  \A t \in Thread :
                        /\ pc'[t] \in {"gravity", "pull"} => temp'[t] \in InList'
                        /\ pc'[t] = "pull" => next'[temp'[t]] # NULL
  BY DEF Pulling
<1>2. Tame
  BY <1>1, TameBefore DEF walked
<1>3. PICK pos \in [Node \cup {HeadNode} -> Nat], len \in Nat : Chain(pos, len)
  BY <1>2 DEF Running, List
<1>4. CASE mailStep \/ do_drawing
  <2>1. UNCHANGED <<pc, temp>> /\ Linked' = Linked /\ (InitList \/ next' = next)
    BY <1>4, NoThreadStep
  <2>2. CASE InitList
    BY <1>0, <2>1, <2>2 DEF InitList, Barren
  <2>3. CASE next' = next
    BY <1>0, <1>1, <1>2, <2>1, <2>3 DEF Pulling, Unremoved, InList
  <2> QED
    BY <2>1, <2>2, <2>3
<1>5. ASSUME NEW t \in Thread, walked(t)
      PROVE  \A u \in Thread : /\ pc'[u] \in {"gravity", "pull"} => temp'[u] \in InList'
                               /\ pc'[u] = "pull" => next'[temp'[u]] # NULL
  <2>1. \A u \in Thread \ {t} : pc'[u] = pc[u] /\ temp'[u] = temp[u]
    BY <1>5, OthersStay DEF walked
  <2>2. Unremoved
    <3>1. pc[t] \in {"free", "unlock remove", "gone"} => FreeNode(t) \/ Unlock(t)
      BY <1>5, NoTrip DEF CreateThread, CopyName, CopyRest, Lock, AddWalk, AddLink, Connect, Die,
         Survive, Reported, GravityTest, GravityPull, Move, Search, Goto
    <3>2. FreeNode(t) => pc'[t] = "unlock remove"
      BY <1>0 DEF FreeNode, Goto, ThreadTypes
    <3>3. Unlock(t) /\ pc[t] \in {"free", "unlock remove", "gone"} => pc'[t] = "gone"
      BY <1>0 DEF Unlock, Goto, ThreadTypes
    <3>4. pc[t] \notin {"free", "unlock remove", "gone"}
      BY <1>1, <3>1, <3>2, <3>3 DEF Unremoved
    <3> QED
      BY <1>1, <2>1, <3>4 DEF Unremoved
  <2>3. \A u \in Thread : /\ pc[u] \in {"gravity", "pull"} => temp[u] \in InList
                          /\ pc[u] = "pull" => next[temp[u]] # NULL
    BY <1>0, <1>2, <2>2 DEF Pulling
  <2>4. CASE Quiet
    <3>1. next' = next /\ InList' = InList
      BY <2>4 DEF Quiet, InList
    <3>2. CASE pc'[t] \notin {"gravity", "pull"}
      BY <2>1, <2>3, <3>1, <3>2
    <3>3. CASE Survive(t)
      <4>1. pc[t] # "none" /\ pc'[t] = "gravity" /\ temp'[t] = headGlob
        BY <1>0, <3>3 DEF Survive, Goto, ThreadTypes
      <4>2. headGlob = HeadNode
        BY <1>2, <4>1, HeadRead DEF Running
      <4> QED
        BY <2>1, <2>3, <3>1, <4>1, <4>2 DEF InList
    <3>4. CASE GravityTest(t)
      <4>1. /\ pc[t] = "gravity" /\ temp' = temp
            /\ pc'[t] = "pull" => next[temp[t]] # NULL
        BY <1>0, <3>4 DEF GravityTest, Goto, ThreadTypes
      <4> QED
        BY <2>1, <2>3, <3>1, <4>1
    <3>5. CASE GravityPull(t)
      <4>1. pc[t] = "pull" /\ pc'[t] = "gravity" /\ temp'[t] = next[temp[t]]
        BY <1>0, <3>5 DEF GravityPull, Goto, ThreadTypes
      <4>2. next[temp[t]] \in Linked
        BY <1>3, <2>3, <4>1 DEF Chain
      <4> QED
        BY <2>1, <2>3, <3>1, <4>1, <4>2 DEF InList
    <3> QED
      <4>1. ASSUME Search(t) PROVE pc'[t] \notin {"gravity", "pull"}
        BY <1>0, <4>1, SearchCases DEF Unlinked, ThreadTypes
      <4>2. ASSUME \/ CreateThread(t) \/ CopyName(t) \/ CopyRest(t) \/ Lock(t) \/ AddWalk(t)
                   \/ AddLink(t) \/ Unlock(t)
            PROVE  pc'[t] \notin {"gravity", "pull"}
        BY <1>0, <4>2 DEF CreateThread, CopyName, CopyRest, Lock, AddWalk, AddLink, Unlock, Goto,
           ThreadTypes
      <4>3. ASSUME Connect(t) \/ Die(t) \/ Reported(t) \/ Move(t) \/ FreeNode(t)
            PROVE  pc'[t] \notin {"gravity", "pull"}
        BY <1>0, <4>3 DEF Connect, Die, Reported, Move, FreeNode, Goto, ThreadTypes
      <4> QED
        BY <1>5, <3>2, <3>3, <3>4, <3>5, <4>1, <4>2, <4>3, NoTrip
  <2>5. ASSUME NEW n \in Node, Grown(t, n)
        PROVE  \A u \in Thread : /\ pc'[u] \in {"gravity", "pull"} => temp'[u] \in InList'
                                 /\ pc'[u] = "pull" => next'[temp'[u]] # NULL
    <3>1. /\ pc'[t] = "unlock add" /\ InList' = InList \cup {n} /\ n \notin InList
          /\ next' = [next EXCEPT ![n] = NULL,
             ![temp[t]] = n] /\ InList \subseteq Node \cup {HeadNode}
      BY <1>0, <2>5 DEF Grown, Added, InList, Linked, ListTypes
    <3>2. \A p \in InList : next'[p] # next[p] => next'[p] # NULL
      BY <1>0, <3>1, PointerAssumption DEF ListTypes
    <3> QED
      BY <2>1, <2>3, <3>1, <3>2
  <2>6. ASSUME NEW m \in Node, Shrunk(t, m) PROVE FALSE
    BY <1>1, <2>6 DEF Shrunk, Unremoved
  <2> QED
    BY <1>5, <2>4, <2>5, <2>6, ListCases DEF walked
<1> QED
  BY <1>4, <1>5

(* A thread keeps the name that it has copied.                             *)
LEMMA NameStays ==
  ASSUME TypeOK, NEW t \in Thread, thread(t)
  PROVE  \A u \in Named : u \in Named' /\ args'[u].name = args[u].name
<1>0. ThreadTypes
  BY TypeParts
<1>1. \A u \in Thread \ {t} : pc'[u] = pc[u] /\ args'[u] = args[u]
  BY OthersStay
<1>2. ASSUME pc[t] \notin {"none", "name"}
      PROVE  pc'[t] \notin {"none", "name"} /\ args'[t].name = args[t].name
  <2>1. ~CreateThread(t) /\ ~CopyName(t)
    BY <1>2 DEF CreateThread, CopyName, Goto
  <2>2. CASE CopyRest(t)
    BY <1>0, <2>2 DEF CopyRest, Goto, ThreadTypes, Copy
  <2>3. CASE ~CopyRest(t)
    <3>1. args' = args
      BY <2>1, <2>3 DEF thread, planet, Lock, AddWalk, AddLink, Unlock, Connect, Die,
         Survive, Reported, GravityTest, GravityPull, Move, Search, FreeNode, Trip, Crash
    <3>2. pc'[t] \notin {"none", "name"}
      BY <1>0, <1>2, <2>1, <2>3 DEF thread, planet, Lock, AddWalk, AddLink, Unlock,
         Connect, Die, Survive, Reported, GravityTest, GravityPull, Move, Search, FreeNode,
         Trip, Crash, Goto, ThreadTypes
    <3> QED
      BY <3>1, <3>2
  <2> QED
    BY <2>2, <2>3
<1> QED
  BY <1>1, <1>2 DEF Named

(* While names differ nobody unlinks the planet of another thread.         *)
LEMMA OwnPlanetStaysStep ==
  ASSUME TypeOK, OwnPlanetStays, fault = "none" => Running, [Next]_vars
  PROVE  OwnPlanetStays'
<1>1. CASE UNCHANGED vars
  <2>1. UNCHANGED <<pc, args, data, planetPointer>> /\ Linked' = Linked
    BY <1>1 DEF vars, listVars, Linked, Doomed
  <2> QED
    BY <2>1 DEF OwnPlanetStays, NamesDistinct, Named, NameIn, Orbiting
<1>2. ASSUME fault = "none", mailStep \/ do_drawing PROVE OwnPlanetStays'
  <2>1. UNCHANGED <<pc, args, data, planetPointer>> /\ Linked' = Linked
    BY <1>2, NoThreadStep
  <2> QED
    BY <2>1 DEF OwnPlanetStays, NamesDistinct, Named, NameIn, Orbiting
<1>3. ASSUME fault = "none", NEW t \in Thread, thread(t) PROVE OwnPlanetStays'
  <2>0. ThreadTypes /\ ListTypes /\ Running
    BY <1>3, TypeParts
  <2>1. SUFFICES ASSUME NamesDistinct'
                 PROVE  \A u \in Holders' : planetPointer'[u] \in Linked'
                                            /\ data'[planetPointer'[u]] = args'[u]
    BY DEF OwnPlanetStays, Holders, Orbiting
  <2>2. NamesDistinct
    BY <1>3, <2>1, NameStays DEF NamesDistinct, NameIn, Named
  <2>3. \A u \in Holders : /\ u \in Thread /\ planetPointer[u] \in Linked
                           /\ data[planetPointer[u]] = args[u]
    BY <2>2 DEF OwnPlanetStays, Holders, Orbiting
  <2>4. \A u \in Thread \ {t} : /\ u \in Holders' => u \in Holders
                                /\ args'[u] = args[u] /\ planetPointer'[u] = planetPointer[u]
    BY <1>3, <2>0, HoldersMove, OthersStay
  <2>5. \A u \in Holders' : u \in Thread
    BY DEF Holders, Orbiting
  <2>6. CASE Quiet
    <3>1. \A u \in Holders' : /\ u \in Holders /\ args'[u] = args[u]
                              /\ planetPointer'[u] = planetPointer[u]
      BY <1>3, <2>0, <2>4, <2>5, <2>6, HoldersMove
    <3> QED
      BY <2>3, <2>6, <3>1 DEF Quiet
  <2>7. ASSUME NEW n \in Node, Grown(t, n)
        PROVE  \A u \in Holders' : planetPointer'[u] \in Linked'
                                   /\ data'[planetPointer'[u]] = args'[u]
    <3>1. /\ data' = [data EXCEPT ![n] = args[t]] /\ args' = args /\ Linked' = Linked \cup {n}
          /\ n \notin Linked /\ Linked \subseteq Node
          /\ planetPointer' = [planetPointer EXCEPT ![t] = n]
      BY <2>0, <2>7 DEF Grown, Added, InList, Linked, ListTypes
    <3>2. planetPointer'[t] = n /\ data'[n] = args'[t]
      BY <2>0, <3>1 DEF ThreadTypes, ListTypes
    <3>3. \A u \in Holders' \ {t} : planetPointer'[u] \in Linked
                                    /\ data[planetPointer'[u]] = args'[u]
      BY <2>3, <2>4, <2>5
    <3>4. \A p \in Linked : data'[p] = data[p]
      BY <2>0, <3>1 DEF ListTypes
    <3> QED
      BY <3>1, <3>2, <3>3, <3>4
  <2>8. ASSUME NEW m \in Node, Shrunk(t, m)
        PROVE  \A u \in Holders' : planetPointer'[u] \in Linked'
                                   /\ data'[planetPointer'[u]] = args'[u]
    <3>1. /\ pc[t] = "search" /\ pc'[t] = "free" /\ NameAt(m) = NameIn(t)
          /\ args' = args /\ data' = data /\ m \in Linked /\ Linked' = Linked \ {m}
      BY <2>8 DEF Shrunk
    <3>2. t \notin Holders' /\ t \in Named
      BY <3>1 DEF Holders, Orbiting, Named
    <3>3. \A u \in Holders : u \in Named
      BY DEF Holders, Orbiting, Named
    <3>4. ASSUME NEW u \in Holders', planetPointer[u] = m PROVE FALSE
      <4>1. u \in Holders /\ u # t
        BY <2>4, <2>5, <3>2
      <4>2. data[m] = args[u]
        BY <2>3, <3>4, <4>1
      <4>3. NameIn(u) = NameIn(t)
        BY <3>1, <4>2 DEF NameAt, NameIn
      <4> QED
        BY <2>2, <3>2, <3>3, <4>1, <4>3 DEF NamesDistinct
    <3>5. \A u \in Holders' : /\ u \in Holders /\ planetPointer'[u] = planetPointer[u]
      BY <2>4, <2>5, <3>2
    <3> QED
      BY <2>3, <3>1, <3>4, <3>5
  <2> QED
    BY <1>3, <2>0, <2>6, <2>7, <2>8, ListCases
<1> QED
  BY <1>1, <1>2, <1>3, Steps

(* A list with a new last node is a list ...                               *)
Longer(last, n) ==
  /\ last \in InList /\ next[last] = NULL /\ n \in Node \ InList
  /\ next' = [next EXCEPT ![n] = NULL, ![last] = n] /\ Linked' = Linked \cup {n}

LEMMA ChainGrows ==
  ASSUME ListTypes, NEW pos \in [Node \cup {HeadNode} -> Nat], NEW len \in Nat, Chain(pos, len),
         NEW last, NEW n, Longer(last, n)
  PROVE  Chain([pos EXCEPT ![n] = len + 1], len + 1)'
<1> DEFINE pos2 == [pos EXCEPT ![n] = len + 1]
<1>0. /\ next' = [next EXCEPT ![n] = NULL, ![last] = n]
      /\ last \in InList /\ next[last] = NULL /\ n \in Node /\ n \notin InList
      /\ Linked' = Linked \cup {n} /\ InList' = InList \cup {n}
      /\ InList \subseteq Node \cup {HeadNode} /\ HeadNode \in InList /\ Linked \subseteq Node
  BY DEF Longer, InList, Linked, ListTypes
<1>1. /\ pos2[n] = len + 1
      /\ \A p \in InList : pos2[p] = pos[p] /\ pos[p] \in 0 .. len
  <2>1. \A p \in InList : pos[p] \in 0 .. len
    BY DEF Chain, InList
  <2> QED
    BY <1>0, <2>1
<1>2. next'[n] = NULL /\ next'[last] = n /\ \A p \in InList \ {last} : next'[p] = next[p]
  BY <1>0 DEF ListTypes
<1>3. pos[last] = len /\ \A p \in InList : pos[p] = len => p = last
  <2>1. pos[last] = len
    BY <1>0 DEF Chain
  <2>2. ASSUME NEW p \in InList, pos[p] = len PROVE p = last
    <3>1. \A q \in Linked : pos[q] # 0
      BY DEF Chain
    <3> QED
      BY <1>0, <2>1, <2>2, <3>1 DEF Chain, InList
  <2> QED
    BY <2>1, <2>2
<1> HIDE DEF pos2
<1>4. pos2[HeadNode] = 0 /\ \A p \in Linked' : pos2[p] \in 1 .. len + 1
  <2>1. pos2[HeadNode] = 0 /\ \A p \in Linked : pos2[p] = pos[p] /\ pos[p] \in 1 .. len
    BY <1>0, <1>1 DEF Chain, InList
  <2> QED
    BY <1>0, <1>1, <2>1
<1>5. \A p, q \in Linked' : pos2[p] = pos2[q] => p = q
  <2>1. \A p, q \in Linked : pos2[p] = pos2[q] => p = q
    BY <1>1 DEF Chain, InList
  <2>2. \A p \in Linked : pos2[p] # pos2[n]
    BY <1>1 DEF InList
  <2> QED
    BY <1>0, <2>1, <2>2
<1>6. \A p \in InList' :
        /\ pos2[p] = len + 1 <=> next'[p] = NULL
        /\ next'[p] # NULL => next'[p] \in Linked' /\ pos2[next'[p]] = pos2[p] + 1
  <2>1. n # NULL
    BY <1>0, PointerAssumption
  <2>2. ASSUME NEW p \in InList \ {last}
        PROVE  /\ pos2[p] # len + 1 /\ next'[p] # NULL
               /\ next'[p] \in Linked' /\ pos2[next'[p]] = pos2[p] + 1
    <3>1. next'[p] = next[p] /\ pos2[p] = pos[p] /\ pos[p] \in 0 .. len /\ pos[p] # len
      BY <1>1, <1>2, <1>3
    <3>2. next[p] # NULL /\ next[p] \in Linked /\ pos[next[p]] = pos[p] + 1
      BY <3>1 DEF Chain
    <3>3. pos2[next[p]] = pos[next[p]]
      BY <1>1, <3>2 DEF InList
    <3>4. pos2[p] # len + 1
      BY <3>1
    <3> QED
      BY <1>0, <3>1, <3>2, <3>3, <3>4
  <2>3. pos2[last] = len /\ len # len + 1
    BY <1>0, <1>1, <1>3
  <2>4. next'[last] # NULL /\ n \in Linked' /\ pos2[n] = pos2[last] + 1
    BY <1>0, <1>1, <1>2, <2>1, <2>3
  <2>5. \A p \in InList' : p = n \/ p = last \/ p \in InList \ {last}
    BY <1>0
  <2> QED
    BY <1>1, <1>2, <2>2, <2>3, <2>4, <2>5
<1>7. Chain(pos2, len + 1)'
  BY <1>4, <1>5, <1>6 DEF Chain
<1> QED
  BY <1>7 DEF pos2

(* ... and one with a node unlinked too; those behind it move up.          *)
Shorter(prior, m) ==
  /\ prior \in InList /\ m = next[prior] /\ m \in Linked
  /\ next' = [next EXCEPT ![prior] = next[m]] /\ Linked' = Linked \ {m}

LEMMA ChainShrinks ==
  ASSUME ListTypes, NEW pos \in [Node \cup {HeadNode} -> Nat], NEW len \in Nat, Chain(pos, len),
         NEW prior, NEW m, Shorter(prior, m)
  PROVE  \E pos2 \in [Node \cup {HeadNode} -> Nat] : len - 1 \in Nat /\ Chain(pos2, len - 1)'
<1> DEFINE pos2 == [p \in Node \cup {HeadNode} |-> IF pos[p] > pos[m] THEN pos[p] - 1 ELSE pos[p]]
<1>0. /\ prior \in InList /\ m = next[prior] /\ m \in Linked
      /\ next' = [next EXCEPT ![prior] = next[m]]
      /\ Linked' = Linked \ {m} /\ InList' = InList \ {m}
      /\ InList \subseteq Node \cup {HeadNode} /\ HeadNode \in InList /\ Linked \subseteq Node
      /\ m # NULL
  BY PointerAssumption DEF Shorter, InList, Linked, ListTypes
<1>1. /\ pos[m] \in 1 .. len /\ pos[HeadNode] = 0 /\ pos[m] = pos[prior] + 1
      /\ \A p \in InList : pos[p] \in 0 .. len
      /\ \A p \in Linked : pos[p] \in 1 .. len /\ (pos[p] = pos[m] => p = m)
  BY <1>0 DEF Chain, InList
<1>2. \A p \in Node \cup {HeadNode} :
        /\ pos[p] > pos[m] => pos2[p] = pos[p] - 1
        /\ ~(pos[p] > pos[m]) => pos2[p] = pos[p]
  OBVIOUS
<1>3. pos2 \in [Node \cup {HeadNode} -> Nat]
  <2>1. pos[m] \in Nat
    BY <1>0
  <2> QED
    BY <2>1
<1> HIDE DEF pos2
<1>4. \A p \in InList \ {m} : pos2[p] = (IF pos[p] > pos[m] THEN pos[p] - 1 ELSE pos[p])
                              /\ pos[p] # pos[m] /\ pos[p] \in 0 .. len /\ pos[m] \in 1 .. len
  <2>1. \A p \in InList \ {m} : pos[p] # pos[m]
    BY <1>1 DEF InList
  <2> QED
    BY <1>0, <1>1, <1>2, <2>1
<1>5. pos2[HeadNode] = 0 /\ \A p \in Linked' : pos2[p] \in 1 .. len - 1
  <2>1. pos2[HeadNode] = 0
    <3>1. HeadNode # m
      BY <1>1
    <3> QED
      BY <1>0, <1>1, <1>4, <3>1
  <2>2. ASSUME NEW p \in Linked' PROVE pos2[p] \in 1 .. len - 1
    <3>1. p \in InList \ {m} /\ pos[p] \in 1 .. len
      BY <1>0, <1>1 DEF InList
    <3> QED
      BY <1>4, <3>1
  <2> QED
    BY <2>1, <2>2
<1>6. \A p, q \in Linked' : pos2[p] = pos2[q] => p = q
  <2>1. ASSUME NEW p \in Linked', NEW q \in Linked', pos2[p] = pos2[q] PROVE p = q
    <3>1. p \in InList \ {m} /\ q \in InList \ {m} /\ p \in Linked /\ q \in Linked
      BY <1>0 DEF InList
    <3>2. pos[p] = pos[q]
      BY <1>4, <2>1, <3>1
    <3> QED
      BY <3>1, <3>2 DEF Chain
  <2> QED
    BY <2>1
<1>7. ASSUME NEW p \in InList \ {m}
      PROVE  /\ pos2[p] = len - 1 <=> next'[p] = NULL
             /\ next'[p] # NULL => next'[p] \in Linked' /\ pos2[next'[p]] = pos2[p] + 1
  <2>1. CASE p = prior
    <3>1. next'[p] = next[m] /\ pos2[p] = pos[m] - 1
      <4>1. next'[p] = next[m]
        BY <1>0, <2>1 DEF ListTypes
      <4> QED
        BY <1>1, <1>4, <2>1, <4>1
    <3>2. CASE next[m] = NULL
      <4>1. pos[m] = len
        BY <1>0, <3>2 DEF Chain, InList
      <4> QED
        BY <3>1, <3>2, <4>1
    <3>3. CASE next[m] # NULL
      <4>1. next[m] \in Linked /\ pos[next[m]] = pos[m] + 1 /\ pos[m] # len
        BY <1>0, <3>3 DEF Chain, InList
      <4>2. next[m] \in InList \ {m}
        BY <1>1, <4>1 DEF InList
      <4>3. pos2[next[m]] = pos[m]
        BY <1>4, <4>1, <4>2
      <4> QED
        BY <1>0, <1>1, <3>1, <3>3, <4>1, <4>2, <4>3 DEF InList
    <3> QED
      BY <3>2, <3>3
  <2>2. CASE p # prior
    <3>1. next'[p] = next[p]
      BY <1>0, <2>2 DEF ListTypes
    <3>2. CASE next[p] = NULL
      <4>1. pos[p] = len
        BY <3>2 DEF Chain
      <4>2. pos2[p] = len - 1
        BY <1>1, <1>4, <4>1
      <4> QED
        BY <3>1, <3>2, <4>2
    <3>3. CASE next[p] # NULL
      <4>1. next[p] \in Linked /\ pos[next[p]] = pos[p] + 1 /\ pos[p] # len
        BY <3>3 DEF Chain
      <4>2. pos[p] # pos[prior]
        <5>1. \A q \in Linked : pos[q] # 0
          BY <1>1
        <5> QED
          BY <1>0, <1>1, <2>2, <5>1 DEF Chain, InList
      <4>3. pos[next[p]] # pos[m]
        BY <1>1, <1>4, <1>0, <4>1, <4>2
      <4>4. next[p] \in InList \ {m}
        BY <4>1, <4>3 DEF InList
      <4>5. pos2[next[p]] = pos2[p] + 1 /\ pos2[p] # len - 1
        <5>1. CASE pos[p] > pos[m]
          BY <1>1, <1>4, <4>1, <4>4, <5>1
        <5>2. CASE ~(pos[p] > pos[m])
          <6>1. pos[p] < pos[m] /\ pos2[p] = pos[p]
            BY <1>4, <5>2
          <6>2. ~(pos[next[p]] > pos[m]) /\ pos[p] # len - 1
            BY <1>1, <1>4, <4>1, <4>3, <6>1
          <6> QED
            BY <1>4, <4>1, <4>4, <6>1, <6>2
        <5> QED
          BY <5>1, <5>2
      <4> QED
        BY <1>0, <3>1, <3>3, <4>1, <4>4, <4>5 DEF InList
    <3> QED
      BY <3>2, <3>3
  <2> QED
    BY <2>1, <2>2
<1>8. Chain(pos2, len - 1)'
  BY <1>0, <1>5, <1>6, <1>7 DEF Chain
<1>9. len - 1 \in Nat
  BY <1>1
<1> QED
  BY <1>3, <1>8, <1>9

(* Whoever searches next finds a planet of its name: its own, or that of a *)
(* thread of the same name, which has its planet or another's.             *)
LEMMA ListStays ==
  ASSUME TypeOK, Running, fault = "none", mailStep \/ do_drawing \/ \E t \in Thread : walked(t)
  PROVE  List'
<1>0. ThreadTypes /\ ListTypes /\ Barren
  BY TypeParts DEF Running
<1>1. SUFFICES ASSUME Tame'
               PROVE  \E pos \in [Node \cup {HeadNode} -> Nat], len \in Nat :
                        Chain(pos, len)' /\ Ahead(pos)'
  BY DEF List
<1>2. Tame
  BY <1>1, TameBefore DEF walked
<1>3. PICK pos \in [Node \cup {HeadNode} -> Nat], len \in Nat : Chain(pos, len) /\ Ahead(pos)
  BY <1>2 DEF Running, List
<1>4. CASE mailStep \/ do_drawing
  <2>1. UNCHANGED <<pc, temp, data, args>> /\ Linked' = Linked /\ (InitList \/ next' = next)
    BY <1>4, NoThreadStep
  <2>2. Ahead(pos)'
    BY <1>3, <2>1 DEF Ahead, NameAt, NameIn
  <2>3. CASE next' = next
    <3>1. Chain(pos, len)'
      BY <1>3, <2>1, <2>3 DEF Chain, InList
    <3> QED
      BY <2>2, <3>1
  <2>4. CASE InitList
    <3>1. /\ \A t \in Thread : pc[t] = "none"
          /\ alloc = {} /\ next[HeadNode] = NULL
      BY <1>0, <2>4 DEF InitList, Barren
    <3>2. next' = next
      BY <1>0, <1>1, <2>4, <3>1, PointerAssumption DEF InitList, Tame, ListTypes
    <3> QED
      BY <2>3, <3>2
  <2> QED
    BY <2>1, <2>3, <2>4
<1>5. ASSUME NEW t \in Thread, walked(t)
      PROVE  \E pos2 \in [Node \cup {HeadNode} -> Nat], len2 \in Nat :
               Chain(pos2, len2)' /\ Ahead(pos2)'
  <2>1. \A u \in Thread \ {t} : pc'[u] = pc[u] /\ temp'[u] = temp[u] /\ args'[u] = args[u]
    BY <1>5, OthersStay DEF walked
  <2>2. CASE Quiet
    <3>1. Chain(pos, len)'
      BY <1>3, <2>2 DEF Chain, InList, Quiet
    <3>2. \A u \in Thread \ {t} : pc'[u] = "search" =>
            \E m \in Linked' : NameAt(m)' = NameIn(u)' /\ pos[m] > pos[temp'[u]]
      BY <1>3, <2>1, <2>2 DEF Ahead, NameAt, NameIn, Quiet
    <3>3. ASSUME pc'[t] = "search"
          PROVE  \E m \in Linked' : NameAt(m)' = NameIn(t)' /\ pos[m] > pos[temp'[t]]
      <4>1. Lock(t) \/ Search(t)
        BY <1>0, <1>5, <3>3, NoTrip DEF CreateThread, CopyName, CopyRest, AddWalk, AddLink,
           Unlock, Connect, Die, Survive, Reported, GravityTest, GravityPull, Move, FreeNode,
           Goto, ThreadTypes
      <4>2. CASE Lock(t)
        <5>1. pc[t] = "lock remove" /\ temp'[t] = headGlob /\ args' = args
          BY <1>0, <3>3, <4>2 DEF Lock, Goto, ThreadTypes
        <5>2. headGlob = HeadNode
          BY <1>2, <5>1, HeadRead DEF Running
        <5>3. PICK own \in [Thread -> Node \cup {HeadNode}] : OwnedBy(own)
          BY DEF Running, Owners
        <5>4. t \in Holders
          BY <5>1 DEF Running, PointerSet, Living, Holders, Orbiting
        <5>5. own[t] \in Linked /\ NameAt(own[t]) = NameIn(t)
          BY <5>3, <5>4 DEF OwnedBy
        <5>6. pos[own[t]] > pos[HeadNode]
          BY <1>3, <5>5 DEF Chain
        <5> QED
          BY <2>2, <5>1, <5>5, <5>6, <5>2 DEF Quiet, NameAt, NameIn
      <4>3. CASE Search(t)
        <5>1. /\ pc[t] = "search" /\ temp'[t] = next[temp[t]] /\ args' = args
              /\ NameAt(next[temp[t]]) # NameIn(t)
          <6>1. pc[t] = "search" /\ temp'[t] = next[temp[t]] /\ args' = args
            BY <1>0, <4>3, SearchCases DEF ThreadTypes
          <6>2. ~Unlinked(t)
            BY <1>0, <3>3 DEF Unlinked, ThreadTypes
          <6> QED
            BY <4>3, <6>1, <6>2, SearchCases
        <5>2. PICK m \in Linked : NameAt(m) = NameIn(t) /\ pos[m] > pos[temp[t]]
          BY <1>3, <5>1 DEF Ahead
        <5>3. temp[t] \in InList /\ next[temp[t]] \in Linked
          BY <5>1, SearchFinds
        <5>4. pos[next[temp[t]]] = pos[temp[t]] + 1 /\ pos[m] # pos[next[temp[t]]]
          <6>1. next[temp[t]] # NULL
            BY <1>0, <5>3, PointerAssumption DEF Linked, ListTypes
          <6> QED
            BY <1>3, <5>1, <5>2, <5>3, <6>1 DEF Chain
        <5>5. pos[m] \in Nat /\ pos[temp[t]] \in Nat
          BY <1>0, <5>2, <5>3 DEF InList, Linked, ListTypes
        <5>6. pos[m] > pos[next[temp[t]]]
          BY <5>2, <5>4, <5>5
        <5> QED
          BY <2>2, <5>1, <5>2, <5>6 DEF Quiet, NameAt, NameIn
      <4> QED
        BY <4>1, <4>2, <4>3
    <3>4. Ahead(pos)'
      BY <3>2, <3>3 DEF Ahead
    <3> QED
      BY <3>1, <3>4
  <2>3. ASSUME \A u \in Thread \ {t} : pc[u] \notin Holding, pc'[t] # "search",
               NEW pos2 \in [Node \cup {HeadNode} -> Nat]
        PROVE  Ahead(pos2)'
    BY <2>1, <2>3 DEF Ahead, Holding
  <2>4. ASSUME NEW n \in Node, Grown(t, n)
        PROVE  \E pos2 \in [Node \cup {HeadNode} -> Nat], len2 \in Nat :
                 Chain(pos2, len2)' /\ Ahead(pos2)'
    <3> DEFINE pos2 == [pos EXCEPT ![n] = len + 1]
    <3>1. pos2 \in [Node \cup {HeadNode} -> Nat] /\ len + 1 \in Nat
      OBVIOUS
    <3>2. Chain(pos2, len + 1)'
      <4>1. Longer(temp[t], n)
        BY <2>4 DEF Grown, Added, Longer
      <4> QED
        BY <1>0, <1>3, <4>1, ChainGrows
    <3> HIDE DEF pos2
    <3>3. Ahead(pos2)'
      BY <2>3, <2>4, <3>1 DEF Grown
    <3> QED
      BY <3>1, <3>2, <3>3
  <2>5. ASSUME NEW m \in Node, Shrunk(t, m)
        PROVE  \E pos2 \in [Node \cup {HeadNode} -> Nat], len2 \in Nat :
                 Chain(pos2, len2)' /\ Ahead(pos2)'
    <3>1. PICK pos2 \in [Node \cup {HeadNode} -> Nat] : len - 1 \in Nat /\ Chain(pos2, len - 1)'
      <4>1. Shorter(temp[t], m)
        BY <2>5 DEF Shrunk, Shorter
      <4> QED
        BY <1>0, <1>3, <4>1, ChainShrinks
    <3>2. Ahead(pos2)'
      BY <2>3, <2>5, <3>1 DEF Shrunk
    <3> QED
      BY <3>1, <3>2
  <2> QED
    BY <1>5, <2>2, <2>4, <2>5, ListCases DEF walked
<1> QED
  BY <1>4, <1>5

-----------------------------------------------------------------------------
(* The inductive invariant                                                 *)
LEMMA RunningStep ==
  ASSUME TypeOK, Running, fault = "none", fault' = "none",
         mailStep \/ do_drawing \/ \E t \in Thread : thread(t)
  PROVE  Running'
<1>1. mailStep \/ do_drawing \/ \E t \in Thread : walked(t)
  BY DEF walked
<1>2. Filled /\ Locks /\ PointerSet
  BY DEF Running
<1>3. Filled' /\ Locks' /\ PointerSet'
  BY <1>1, <1>2, FilledStep, LocksStep, PointerSetStep
<1>4. Barren' /\ Walkers' /\ List'
  BY <1>1, BarrenStep, WalkersStep, ListStays
<1>5. Owners' /\ Pulling'
  BY <1>1, OwnersStep, PullingStep
<1> QED
  BY <1>3, <1>4, <1>5 DEF Running

LEMMA InitInv == ASSUME Init PROVE IInv
<1>1. TypeOK
  <2>1. ListTypes
    BY PointerAssumption DEF Init, ListTypes, Pointer, Copy, Blank
  <2>2. MailTypes
    BY DEF Init, MailTypes, Copy, Blank
  <2>3. ThreadTypes
    BY DEF Init, ThreadTypes, ThreadPC, Copy, Blank, Pointer
  <2>4. OtherTypes
    BY DEF Init, OtherTypes, Pointer
  <2> QED
    BY <2>1, <2>2, <2>3, <2>4, TypeParts
<1>2. Doomed = {} /\ Linked = {} /\ InList = {HeadNode} /\ Holders = {}
      /\ \A t \in Thread : pc[t] = "none"
  BY DEF Init, Doomed, Linked, InList, Holders, Orbiting
<1>3. OwnPlanetStays
  BY <1>2 DEF OwnPlanetStays, Orbiting
<1>4. Filled /\ Locks /\ PointerSet /\ Barren
  <2>1. Filled
    BY <1>2 DEF Init, Filled
  <2>2. Locks
    BY <1>2 DEF Init, Locks, Holding
  <2>3. PointerSet /\ Barren
    BY <1>2, PointerAssumption DEF Init, PointerSet, Arriving, Living, Barren
  <2> QED
    BY <2>1, <2>2, <2>3
<1>5. Walkers /\ Pulling
  BY <1>2 DEF Init, Walkers, Pulling
<1>6. List
  <2> DEFINE pos == [p \in Node \cup {HeadNode} |-> 0]
  <2>1. pos \in [Node \cup {HeadNode} -> Nat] /\ pos[HeadNode] = 0
    OBVIOUS
  <2> HIDE DEF pos
  <2>2. next[HeadNode] = NULL
    BY DEF Init
  <2>3. Chain(pos, 0) /\ Ahead(pos)
    BY <1>2, <2>1, <2>2 DEF Chain, Ahead
  <2> QED
    BY <2>1, <2>3 DEF List
<1>7. Owners
  <2>1. [t \in Thread |-> HeadNode] \in [Thread -> Node \cup {HeadNode}]
    OBVIOUS
  <2>2. OwnedBy([t \in Thread |-> HeadNode])
    BY <1>2 DEF OwnedBy
  <2> QED
    BY <2>1, <2>2 DEF Owners
<1> QED
  BY <1>1, <1>3, <1>4, <1>5, <1>6, <1>7 DEF IInv, Running

LEMMA Inductive == ASSUME IInv, [Next]_vars PROVE IInv'
<1>1. TypeOK' /\ OwnPlanetStays'
  BY TypeStep, OwnPlanetStaysStep DEF IInv, Running
<1>2. ASSUME fault' = "none" PROVE Running'
  <2>1. CASE UNCHANGED vars
    <3>1. Running
      BY <1>2, <2>1 DEF IInv, vars
    <3>2. Filled' /\ Locks' /\ PointerSet'
      BY <2>1, <3>1 DEF Running, vars, mailVars, Filled, Locks, PointerSet
    <3>3. Linked' = Linked /\ InList' = InList /\ Tame' = Tame
      BY <2>1 DEF vars, listVars, mailVars, Linked, Doomed, InList, Tame, HasHead
    <3>4. Barren' /\ Walkers'
      BY <2>1, <3>1, <3>3 DEF Running, vars, listVars, mailVars, Barren, Walkers
    <3>5. List'
      <4>1. UNCHANGED <<next, data, pc, temp, args>>
        BY <2>1 DEF vars, listVars
      <4>2. CASE ~Tame
        BY <3>3, <4>2 DEF List
      <4>3. ASSUME Tame
            PROVE  \E pos \in [Node \cup {HeadNode} -> Nat], len \in Nat :
                     Chain(pos, len)' /\ Ahead(pos)'
        <5>1. PICK pos \in [Node \cup {HeadNode} -> Nat], len \in Nat :
                     Chain(pos, len) /\ Ahead(pos)
          BY <3>1, <4>3 DEF Running, List
        <5>2. Chain(pos, len)'
          BY <3>3, <4>1, <5>1 DEF Chain
        <5>3. Ahead(pos)'
          BY <3>3, <4>1, <5>1 DEF Ahead, NameAt, NameIn
        <5> QED
          BY <5>2, <5>3
      <4> QED
        BY <3>3, <4>2, <4>3 DEF List
    <3>6. Owners'
      <4>1. UNCHANGED <<data, pc, planetPointer, args>>
        BY <2>1 DEF vars, listVars
      <4>2. PICK own \in [Thread -> Node \cup {HeadNode}] : OwnedBy(own)
        BY <3>1 DEF Running, Owners
      <4>3. OwnedBy(own)'
        BY <3>3, <4>1, <4>2 DEF OwnedBy, Holders, Orbiting, NameAt, NameIn
      <4> QED
        BY <4>3 DEF Owners
    <3>7. Pulling'
      BY <2>1, <3>1, <3>3 DEF Running, vars, listVars, Pulling, Unremoved
    <3> QED
      BY <3>2, <3>4, <3>5, <3>6, <3>7 DEF Running
  <2> QED
    BY <1>2, <2>1, Steps, RunningStep DEF IInv
<1> QED
  BY <1>1, <1>2 DEF IInv

-----------------------------------------------------------------------------
(* The properties                                                          *)

(* A walk that holds the mutex trips over nothing.                         *)
LEMMA LockedStep ==
  ASSUME IInv, LockedWalksSafe, [Next]_vars PROVE LockedWalksSafe'
<1>1. CASE UNCHANGED vars
  BY <1>1 DEF LockedWalksSafe, Tame, HasHead, vars, listVars, mailVars
<1>2. SUFFICES ASSUME fault = "none", fault' \in {"add", "remove", "draw"},
                      mailStep \/ do_drawing \/ \E t \in Thread : thread(t)
               PROVE  ~Tame'
  BY <1>1, Steps DEF LockedWalksSafe
<1>3. TypeOK /\ Running
  BY <1>2 DEF IInv
<1>4. CASE mailStep
  BY <1>2, <1>4 DEF mailStep, InitList, ReadRequest, WriteName, WriteRest, CreateNone
<1>5. CASE do_drawing
  <2>1. DrawTrip
    BY <1>2, <1>5 DEF do_drawing, DrawBegin, DrawLock, DrawPlanet, DrawEnd
  <2>2. /\ draw.pc = "draw" /\ draw.temp # NULL /\ next' = next
        /\ ~(Valid(draw.temp) /\ (next[draw.temp] = NULL \/ Valid(next[draw.temp])))
    BY <1>2, <2>1 DEF DrawTrip, drawRest, listVars
  <2>3. ASSUME Tame PROVE FALSE
    <3>1. draw.temp \in InList
      BY <1>3, <2>2, <2>3 DEF Running, Walkers
    <3>2. PICK pos \in [Node \cup {HeadNode} -> Nat], len \in Nat : Chain(pos, len)
      BY <1>3, <2>3 DEF Running, List
    <3>3. next[draw.temp] \in Linked \cup {NULL}
      BY <3>1, <3>2 DEF Chain
    <3> QED
      BY <2>2, <3>1, <3>3 DEF Valid, InList, Linked
  <2> QED
    BY <1>2, <1>3, <2>3, TameBefore
<1>6. ASSUME NEW t \in Thread, thread(t) PROVE ~Tame'
  <2>1. Trip(t) /\ next' = next
    BY <1>2, <1>6 DEF thread, planet, CreateThread, CopyName, CopyRest, Lock, AddWalk, AddLink,
       Unlock, Connect, Die, Survive, Reported, GravityTest, GravityPull, Move, Search, FreeNode,
       Trip, Crash, listVars
  <2>2. \/ pc[t] = "walk" /\ ~Valid(temp[t])
        \/ pc[t] = "search" /\ ~ValidNext(temp[t])
    BY <1>2, <2>1 DEF Trip, Crash
  <2>3. ~Tame
    BY <1>3, <2>2, WalkIsSafe, SearchFinds
  <2> QED
    BY <1>2, <1>3, <2>3, TameBefore
<1> QED
  BY <1>2, <1>4, <1>5, <1>6

(* Nor does the calculation, until a planet is unlinked.                   *)
LEMMA UnlockedStep ==
  ASSUME IInv, OnlyRemovalHurts, [Next]_vars PROVE OnlyRemovalHurts'
<1>1. CASE UNCHANGED vars
  BY <1>1 DEF OnlyRemovalHurts, Tame, HasHead, vars, listVars, mailVars
<1>2. SUFFICES ASSUME fault = "none", fault' = "gravity", Tame',
                      mailStep \/ do_drawing \/ \E t \in Thread : thread(t)
               PROVE  ~Unremoved'
  BY <1>1, Steps DEF OnlyRemovalHurts, Unremoved
<1>3. TypeOK /\ Running
  BY <1>2 DEF IInv
<1>4. CASE mailStep \/ do_drawing
  BY <1>2, <1>4 DEF mailStep, InitList, ReadRequest, WriteName, WriteRest, CreateNone,
                    do_drawing, DrawBegin, DrawLock, DrawPlanet, DrawEnd, DrawTrip
<1>5. ASSUME NEW t \in Thread, thread(t) PROVE ~Unremoved'
  <2>1. Trip(t) /\ next' = next
    BY <1>2, <1>5 DEF thread, planet, CreateThread, CopyName, CopyRest, Lock, AddWalk, AddLink,
       Unlock, Connect, Die, Survive, Reported, GravityTest, GravityPull, Move, Search, FreeNode,
       Trip, Crash, listVars
  <2>2. \/ pc[t] = "gravity" /\ ~Valid(temp[t])
        \/ pc[t] = "pull" /\ ~ValidNext(temp[t])
    BY <1>2, <2>1 DEF Trip, Crash
  <2>3. Tame
    BY <1>2, <1>3, TameBefore
  <2>4. PICK pos \in [Node \cup {HeadNode} -> Nat], len \in Nat : Chain(pos, len)
    BY <1>3, <2>3 DEF Running, List
  <2>5. ASSUME Unremoved PROVE FALSE
    <3>1. temp[t] \in InList /\ (pc[t] = "pull" => next[temp[t]] # NULL)
      BY <1>3, <2>2, <2>3, <2>5 DEF Running, Pulling
    <3>2. Valid(temp[t])
      BY <3>1 DEF Valid, InList, Linked
    <3>3. pc[t] = "pull" => next[temp[t]] \in Linked
      BY <2>4, <3>1 DEF Chain
    <3> QED
      BY <2>2, <3>2, <3>3 DEF ValidNext, Valid, Linked
  <2>6. \A u \in Thread \ {t} : pc'[u] = pc[u]
    BY <1>3, <1>5, OthersStay
  <2> QED
    BY <2>2, <2>5, <2>6 DEF Unremoved
<1> QED
  BY <1>2, <1>4, <1>5

LEMMA Safe == Spec => [](IInv /\ LockedWalksSafe /\ OnlyRemovalHurts)
<1>1. Init => IInv /\ LockedWalksSafe /\ OnlyRemovalHurts
  BY InitInv DEF Init, LockedWalksSafe, OnlyRemovalHurts
<1>2. IInv /\ LockedWalksSafe /\ OnlyRemovalHurts /\ [Next]_vars
      => (IInv /\ LockedWalksSafe /\ OnlyRemovalHurts)'
  BY Inductive, LockedStep, UnlockedStep
<1> QED
  BY <1>1, <1>2, PTL DEF Spec

(* The variables of the list, of the mail thread, of the planet threads    *)
(* and of GTK keep their types, whatever nodes malloc gives out.           *)
THEOREM PlanetTypes == Spec => []TypeOK
<1>1. IInv => TypeOK
  BY DEF IInv
<1> QED
  BY <1>1, Safe, PTL

(* addToList, removeFromList and do_drawing, which walk the list with the  *)
(* mutex, never follow a pointer to memory that is not allocated, provided *)
(* only that malloc returned the head with a NULL in it; removeFromList,   *)
(* which does not test for the end of the list, always finds its name,     *)
(* even when planets share one and remove each other's nodes.              *)
THEOREM LockedWalksAreSafe == Spec => []LockedWalksSafe
<1> QED
  BY Safe, PTL

(* A planet is in the list from addToList to its own removeFromList, with  *)
(* the data its thread was given, if no two planets have the same name.    *)
THEOREM PlanetsStay == Spec => []OwnPlanetStays
<1>1. IInv => OwnPlanetStays
  BY DEF IInv
<1> QED
  BY <1>1, Safe, PTL

(* The loop over temp->next in planet(), which takes no lock, trips over   *)
(* nothing until removeFromList has unlinked some planet: addToList alone  *)
(* never hurts it.                                                         *)
THEOREM GravityIsSafeUntilRemoval == Spec => []OnlyRemovalHurts
<1> QED
  BY Safe, PTL

(* While the server runs, the nodes that were added and not removed can be *)
(* numbered from the head to the one NULL, and a removeFromList under way  *)
(* has a node of its name before it.                                       *)
THEOREM NodesFormOneList == Spec => [](fault = "none" => List)
<1>1. IInv => (fault = "none" => List)
  BY DEF IInv, Running
<1> QED
  BY <1>1, Safe, PTL
-----------------------------------------------------------------------------
(* A walk from the head                                                    *)

(* A set of naturals that is not empty has a least element.                *)
LEMMA LeastNat ==
  ASSUME NEW S \in SUBSET Nat, S # {}
  PROVE  \E x \in S : \A y \in S : x <= y
<1> DEFINE R == OpToRel(<, Nat)
<1>1. IsWellFoundedOn(R, Nat)
  BY NatLessThanWellFounded
<1>2. \E x \in S : \A y \in S : ~(<<y, x>> \in R)
  BY <1>1, WFMin
<1>3. \A x, y \in Nat : x < y => <<x, y>> \in R
  BY DEF OpToRel
<1> HIDE DEF R
<1>4. \A x, y \in Nat : ~(x <= y) => y < x
  OBVIOUS
<1> QED
  BY <1>2, <1>3, <1>4

(* A numbering of the nodes of the list, from the head to the last.        *)
Numbering(pos, len) ==
  pos \in [Node \cup {HeadNode} -> Nat] /\ len \in Nat /\ Chain(pos, len)

(* No position is left out: a least one left out would follow the head or  *)
(* a node with a next.                                                     *)
LEMMA EveryPosition ==
  ASSUME NEW pos, NEW len, Numbering(pos, len), ListTypes
  PROVE  \A p \in 0 .. len : \E n \in InList : pos[n] = p
<1> USE DEF Numbering
<1> DEFINE Missed == {p \in 0 .. len : \A n \in InList : pos[n] # p}
<1>1. CASE Missed = {}
  BY <1>1
<1>2. CASE Missed # {}
  <2>0. Missed \in SUBSET Nat
    OBVIOUS
  <2>1. PICK p \in Missed : \A q \in Missed : p <= q
    <3> HIDE DEF Missed
    <3> QED
      BY <1>2, <2>0, LeastNat
  <2>2. p \in Nat /\ p <= len /\ (\A n \in InList : pos[n] # p)
    OBVIOUS
  <2>3. p # 0
    BY <2>2 DEF Chain, InList
  <2>4. p - 1 \in 0 .. len /\ p - 1 \notin Missed
    BY <2>1, <2>2, <2>3
  <2>5. PICK n \in InList : pos[n] = p - 1
    BY <2>4
  <2>6. next[n] # NULL
    BY <2>2, <2>5 DEF Chain
  <2>7. next[n] \in Linked /\ pos[next[n]] = p
    BY <2>2, <2>5, <2>6 DEF Chain
  <2> QED
    BY <2>2, <2>7 DEF InList
<1> QED
  BY <1>1, <1>2

(* Every planet in the list is the next of the head or of another planet.  *)
LEMMA Predecessor ==
  ASSUME NEW pos, NEW len, Numbering(pos, len), ListTypes, NEW m \in Linked
  PROVE  \E n \in InList : pos[n] = pos[m] - 1 /\ next[n] = m
<1> USE DEF Numbering
<1>1. pos[m] \in 1 .. len
  BY DEF Chain
<1>2. pos[m] - 1 \in 0 .. len /\ pos[m] \in Nat
  BY <1>1
<1>3. PICK n \in InList : pos[n] = pos[m] - 1
  BY <1>2, EveryPosition
<1>4. pos[n] # len
  BY <1>1, <1>3
<1>5. next[n] \in Linked /\ pos[next[n]] = pos[n] + 1
  BY <1>4 DEF Chain
<1>6. pos[next[n]] = pos[m]
  BY <1>2, <1>3, <1>5
<1>7. next[n] = m
  BY <1>5, <1>6 DEF Chain
<1> QED
  BY <1>3, <1>7

(* The list is no longer than there are addresses.                         *)
LEMMA ShortList ==
  ASSUME NEW pos, NEW len, Numbering(pos, len), ListTypes
  PROVE  Cardinality(Node) \in Nat /\ len <= Cardinality(Node)
<1> USE DEF Numbering
<1> DEFINE place == [n \in Linked |-> pos[n]]
<1>1. Linked \in SUBSET Node
  BY DEF ListTypes, Linked
<1>2. place \in [Linked -> 1 .. len]
  BY DEF Chain
<1>3. \A p \in 1 .. len : \E n \in Linked : place[n] = p
  <2>1. SUFFICES ASSUME NEW p \in 1 .. len PROVE \E n \in Linked : pos[n] = p
    OBVIOUS
  <2>2. p \in 0 .. len /\ p # 0
    OBVIOUS
  <2>3. PICK n \in InList : pos[n] = p
    BY <2>2, EveryPosition
  <2> QED
    BY <2>2, <2>3 DEF InList, Chain
<1>4. place \in Surjection(Linked, 1 .. len)
  BY <1>2, <1>3 DEF Surjection
<1>5. IsFiniteSet(Linked) /\ Cardinality(Linked) <= Cardinality(Node)
  BY <1>1, FS_Subset, AddressAssumption
<1>6. Cardinality(1 .. len) <= Cardinality(Linked)
  BY <1>4, <1>5, FS_Surjection
<1>7. Cardinality(1 .. len) = len
  <2>1. Cardinality(1 .. len) = IF 1 > len THEN 0 ELSE len - 1 + 1
    BY FS_Interval
  <2> QED
    BY <2>1
<1>8. Cardinality(Linked) \in Nat /\ Cardinality(Node) \in Nat
  BY <1>5, AddressAssumption, FS_CardinalityType
<1> QED
  BY <1>5, <1>6, <1>7, <1>8

(* The equation of the function in Reach, and its value: after k steps the *)
(* walk has met the nodes of the positions up to k.                        *)
Met(W) ==
  [k \in 0 .. Cardinality(Node) |->
     IF k = 0 THEN {HeadNode} ELSE W[k - 1] \cup ({next[n] : n \in W[k - 1]} \cap Node)]
UpTo(pos, k) == {n \in InList : pos[n] <= k}

(* One more step of the walk meets the nodes of one more position.         *)
LEMMA OneFurther ==
  ASSUME NEW pos, NEW len, Numbering(pos, len), ListTypes, NEW k \in Nat \ {0}
  PROVE  UpTo(pos, k) = UpTo(pos, k - 1) \cup ({next[n] : n \in UpTo(pos, k - 1)} \cap Node)
<1> USE DEF Numbering
<1>0. \A n \in InList : pos[n] \in Nat
  BY DEF InList, Linked, ListTypes
<1>1. ASSUME NEW m \in InList, pos[m] <= k
      PROVE  m \in UpTo(pos, k - 1) \cup ({next[n] : n \in UpTo(pos, k - 1)} \cap Node)
  <2>1. CASE m = HeadNode
    BY <2>1 DEF UpTo, InList, Chain
  <2>2. CASE m \in Linked
    <3>1. PICK n \in InList : pos[n] = pos[m] - 1 /\ next[n] = m
      BY <2>2, Predecessor
    <3>2. pos[n] <= k - 1
      BY <1>0, <1>1, <3>1
    <3>3. m \in Node
      BY <2>2 DEF Linked, ListTypes
    <3> QED
      BY <3>1, <3>2, <3>3 DEF UpTo
  <2> QED
    BY <2>1, <2>2 DEF InList
<1>2. ASSUME NEW n \in InList, pos[n] <= k - 1 PROVE n \in UpTo(pos, k)
  BY <1>0, <1>2 DEF UpTo
<1>3. ASSUME NEW n \in InList, pos[n] <= k - 1, next[n] \in Node PROVE next[n] \in UpTo(pos, k)
  <2>1. next[n] \in Linked /\ pos[next[n]] = pos[n] + 1
    BY <1>3, PointerAssumption DEF Chain
  <2>2. pos[next[n]] <= k
    BY <1>0, <1>3, <2>1
  <2> QED
    BY <2>1, <2>2 DEF UpTo, InList
<1> QED
  BY <1>1, <1>2, <1>3 DEF UpTo

(* The walk meets the nodes in the order of their positions.               *)
LEMMA MetInOrder ==
  ASSUME NEW pos, NEW len, Numbering(pos, len), ListTypes, NEW W, W = Met(W)
  PROVE  \A k \in 0 .. Cardinality(Node) : W[k] = UpTo(pos, k)
<1> DEFINE N == Cardinality(Node)
           Late == {k \in 0 .. N : W[k] # UpTo(pos, k)}
<1>0. N \in Nat /\ len \in Nat
  BY ShortList DEF Numbering
<1> HIDE DEF N
<1>1. \A k \in 0 .. N :
        W[k] = IF k = 0 THEN {HeadNode} ELSE W[k - 1] \cup ({next[n] : n \in W[k - 1]} \cap Node)
  BY DEF Met, N
<1>2. CASE Late = {}
  BY <1>2 DEF N
<1>3. CASE Late # {}
  <2>0. Late \in SUBSET Nat
    OBVIOUS
  <2>1. PICK k \in Late : \A j \in Late : k <= j
    <3> HIDE DEF Late
    <3> QED
      BY <1>3, <2>0, LeastNat
  <2>2. k \in 0 .. N /\ W[k] # UpTo(pos, k)
    OBVIOUS
  <2>3. CASE k = 0
    <3>1. W[k] = {HeadNode}
      BY <1>1, <2>2, <2>3
    <3>2. UpTo(pos, 0) = {HeadNode}
      BY DEF UpTo, InList, Numbering, Chain
    <3> QED
      BY <2>2, <2>3, <3>1, <3>2
  <2>4. CASE k # 0
    <3>1. k - 1 \in 0 .. N /\ k \in Nat \ {0} /\ ~(k <= k - 1)
      BY <1>0, <2>2, <2>4
    <3>2. W[k - 1] = UpTo(pos, k - 1)
      BY <2>1, <3>1
    <3>3. W[k] = W[k - 1] \cup ({next[n] : n \in W[k - 1]} \cap Node)
      BY <1>1, <2>2, <2>4
    <3> HIDE DEF Late
    <3> QED
      BY <2>2, <3>1, <3>2, <3>3, OneFurther
  <2> QED
    BY <2>3, <2>4
<1> QED
  BY <1>2, <1>3

(* There is such a function: the positions themselves.                     *)
LEMMA MetExists ==
  ASSUME NEW pos, NEW len, Numbering(pos, len), ListTypes
  PROVE  \E W : W = Met(W)
<1> DEFINE N == Cardinality(Node)
           W == [k \in 0 .. N |-> UpTo(pos, k)]
<1>1. \A k \in 0 .. N :
        W[k] = IF k = 0 THEN {HeadNode} ELSE W[k - 1] \cup ({next[n] : n \in W[k - 1]} \cap Node)
  <2>1. SUFFICES ASSUME NEW k \in 0 .. N
        PROVE  UpTo(pos, k) = IF k = 0 THEN {HeadNode}
                              ELSE W[k - 1] \cup ({next[n] : n \in W[k - 1]} \cap Node)
    OBVIOUS
  <2>2. CASE k = 0
    BY <2>2 DEF UpTo, InList, Numbering, Chain
  <2>3. CASE k # 0
    <3>0. N \in Nat
      BY ShortList
    <3>1. k - 1 \in 0 .. N /\ k \in Nat \ {0}
      BY <2>3, <3>0
    <3>2. W[k - 1] = UpTo(pos, k - 1)
      BY <3>1
    <3> HIDE DEF W
    <3> QED
      BY <2>3, <3>1, <3>2, OneFurther
  <2> QED
    BY <2>2, <2>3
<1>2. W = [k \in 0 .. N |-> W[k]]
  OBVIOUS
<1> HIDE DEF W
<1>3. W = Met(W)
  BY <1>1, <1>2 DEF Met
<1> QED
  BY <1>3

(* A walk from the head meets the nodes of the list and comes to its end.  *)
LEMMA ReachIsList ==
  ASSUME NEW pos, NEW len, Numbering(pos, len), ListTypes
  PROVE  Reach = InList /\ \E n \in Reach : next[n] = NULL
<1> DEFINE W == CHOOSE f : f = Met(f)
<1>1. Reach = W[Cardinality(Node)]
  BY DEF Reach, Met
<1>2. W = Met(W)
  BY MetExists
<1> HIDE DEF W
<1>3. Cardinality(Node) \in Nat /\ len <= Cardinality(Node) /\ len \in Nat
  BY ShortList DEF Numbering
<1>4. Reach = UpTo(pos, Cardinality(Node))
  BY <1>1, <1>2, <1>3, MetInOrder
<1>5. \A n \in InList : pos[n] \in Nat /\ pos[n] <= len
  BY <1>3 DEF InList, Numbering, Chain
<1>6. Reach = InList
  BY <1>3, <1>4, <1>5 DEF UpTo
<1>7. PICK n \in InList : pos[n] = len
  BY <1>3, EveryPosition
<1>8. next[n] = NULL
  BY <1>7 DEF Numbering, Chain
<1> QED
  BY <1>6, <1>8

(* Whatever has happened to the process, its memory holds a list.          *)
Ordered == Tame => \E pos \in [Node \cup {HeadNode} -> Nat], len \in Nat : Chain(pos, len)

(* A process that has ended leaves its list as it was.                     *)
LEMMA OrderedStep ==
  ASSUME IInv, Ordered, [Next]_vars PROVE Ordered'
<1>1. CASE fault' = "none"
  BY <1>1, Inductive DEF IInv, Running, List, Ordered
<1>2. CASE UNCHANGED vars
  <2>1. Linked' = Linked /\ InList' = InList /\ next' = next
    BY <1>2 DEF vars, listVars, Linked, Doomed, InList
  <2> QED
    BY <1>2, <2>1 DEF Ordered, Tame, HasHead, Chain, vars, mailVars
<1>3. CASE /\ fault = "none" /\ fault' # "none"
           /\ mailStep \/ do_drawing \/ \E t \in Thread : thread(t)
  <2>1. Linked' = Linked /\ next' = next
    <3>1. CASE mailStep \/ do_drawing
      BY <1>3, <3>1, NoThreadStep DEF InitList
    <3>2. ASSUME NEW t \in Thread, thread(t) PROVE Linked' = Linked /\ next' = next
      <4>1. Trip(t)
        BY <1>3, <3>2 DEF thread, planet, CreateThread, CopyName, CopyRest, Lock, AddWalk, AddLink,
           Unlock, Connect, Die, Survive, Reported, GravityTest, GravityPull, Move, Search, FreeNode
      <4>2. /\ pc[t] # "free" /\ pc' = [pc EXCEPT ![t] = "crashed"]
            /\ UNCHANGED <<listVars, temp>>
        BY <4>1 DEF Trip, Crash
      <4>3. pc \in [Thread -> ThreadPC]
        BY DEF IInv, TypeOK
      <4>4. Doomed' = Doomed
        BY <4>2, <4>3 DEF Doomed
      <4> QED
        BY <4>2, <4>4 DEF Linked, listVars
    <3> QED
      BY <1>3, <3>1, <3>2
  <2> QED
    BY <1>3, <2>1, TameBefore DEF IInv, Ordered, Chain, InList
<1> QED
  BY <1>1, <1>2, <1>3, Steps

(* addToList and removeFromList keep the list a list, whatever the planet  *)
(* threads do between their critical sections and whether or not one of    *)
(* them has followed a bad pointer: the nodes that a walk from the head    *)
(* meets are those that were added and not removed, and the walk ends.     *)
THEOREM ListStaysIntact == Spec => []ListIntact
<1>1. Init => Ordered
  BY InitInv DEF Init, IInv, Running, List, Ordered
<1>2. IInv /\ Ordered /\ [Next]_vars => Ordered'
  BY OrderedStep
<1>3. IInv /\ Ordered => ListIntact
  BY ReachIsList, TypeParts DEF IInv, Ordered, Numbering, InList, ListIntact
<1> QED
  BY <1>1, <1>2, <1>3, Safe, PTL DEF Spec
=============================================================================
