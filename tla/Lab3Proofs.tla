----------------------------- MODULE Lab3Proofs -----------------------------
(***************************************************************************)
(* lab3 with its clients.  A step of PlanetServer is a step of the planet  *)
(* list, of the death channel, of both or of neither, so that all that is  *)
(* proved of the two holds of the whole.  A planet that leaves has told    *)
(* the client that its own request came from: the thread opens the         *)
(* mailslot that its node names, the node is still its own when it does,   *)
(* and the channel neither loses nor misdirects what is written.           *)
(*                                                                         *)
(* lab3felix: without a mutex, adding planets never makes a pointer bad,   *)
(* and updates one at a time keep the list as PlanetListProofs has it.     *)
(***************************************************************************)
EXTENDS PlanetServer, FelixList, PlanetListProofs

ChannelProofs == INSTANCE DeathChannelProofs

(* A node that is allocated holds a whole request, though the request may  *)
(* not be the one that its thread was created for.                         *)
AllocFull == \A n \in alloc : data[n] \in Full

(* A thread connects once its planet is added, reports between its last    *)
(* test and removeFromList, and does nothing else with the channel.        *)
Before == Arriving \cup {"unlock add", "connect"}
Alive == {"test", "gravity", "pull", "move"}
After == {"lock remove", "search", "free", "unlock remove", "gone"}
Phases ==
  \A t \in Thread : /\ pc[t] \in Before => rpc[t] = "connect"
                    /\ pc[t] \in Alive => rpc[t] = "alive"
                    /\ pc[t] \in After => rpc[t] = "reported"

(* A thread that has connected has the mailslot of its own client open, or *)
(* none, while no two threads share a name.                                *)
Addressed ==
  \A t \in Thread : rpc[t] # "connect" =>
    /\ args[t].rest \in Request
    /\ NamesDistinct => mq1[t] \in {Closed, pid[Asker[args[t].rest]]}

ServerInv == IInv /\ AllocFull /\ Channel!TypeOK /\ Phases /\ Addressed

-----------------------------------------------------------------------------
(* The whole implements its parts                                          *)

(* Every step is one of the planet list's, or leaves the list alone.       *)
LEMMA ListSide == ASSUME [ServerNext]_serverVars PROVE [Next]_vars
<1>1. CASE fault = "none" /\ mailOrDraw
  BY <1>1 DEF mailOrDraw, Next
<1>2. ASSUME NEW t \in Thread, fault = "none", planetThread(t) PROVE [Next]_vars
  <2>1. planet(t) \/ UNCHANGED vars
    BY <1>2 DEF planetThread, ListStep, ConnectTo, DieAndReport, ReportStep, ReportDone, planet
  <2> QED
    BY <1>2, <2>1 DEF Next
<1>3. CASE (\E c \in Client : DeathServerStep(c)) \/ Crashed \/ UNCHANGED serverVars
  BY <1>3 DEF DeathServerStep, Crashed, serverVars
<1> QED
  BY <1>1, <1>2, <1>3 DEF ServerNext

(* Only addToList fills a node, and it copies a whole request.             *)
LEMMA AllocFullStep ==
  ASSUME IInv, AllocFull, [Next]_vars PROVE AllocFull'
<1>0. TypeOK /\ ListTypes
  BY TypeParts DEF IInv
<1>1. CASE UNCHANGED vars
  BY <1>1 DEF AllocFull, vars, listVars
<1>2. CASE mailStep \/ do_drawing
  BY <1>2, NoThreadStep DEF AllocFull
<1>3. ASSUME NEW t \in Thread, fault = "none", thread(t) PROVE AllocFull'
  <2>1. CASE UNCHANGED <<next, alloc, data>>
    BY <2>1 DEF AllocFull
  <2>2. CASE AddLink(t)
    <3>1. CASE UNCHANGED listVars
      BY <3>1 DEF AllocFull, listVars
    <3>2. ASSUME NEW n \in Node, alloc' = alloc \cup {n}, data' = [data EXCEPT ![n] = args[t]]
          PROVE  AllocFull'
      <4>1. args[t] \in Copy /\ args[t].name \in Request /\ args[t].rest \in Request
        BY <1>3, <2>2 DEF IInv, TypeOK, Running, Filled, AddLink, Goto
      <4>2. args[t] \in Full
        BY <4>1 DEF Copy, Full
      <4>3. data'[n] = args[t] /\ \A m \in Node : m # n => data'[m] = data[m]
        BY <1>0, <3>2 DEF ListTypes
      <4>4. alloc' \subseteq Node
        BY <1>0, <3>2 DEF ListTypes
      <4> QED
        BY <3>2, <4>2, <4>3, <4>4 DEF AllocFull
    <3> QED
      BY <2>2, <3>1, <3>2 DEF AddLink
  <2>3. CASE Search(t) \/ FreeNode(t)
    BY <2>3 DEF AllocFull, Search, FreeNode
  <2> QED
    BY <1>3, <2>1, <2>2, <2>3, ListKept
<1> QED
  BY <1>1, <1>2, <1>3, Steps

(* Every step is one of the death channel's, or leaves the channel alone:  *)
(* the node that a thread connects by names a client.                      *)
LEMMA ChannelSide ==
  ASSUME IInv, AllocFull, [ServerNext]_serverVars
  PROVE  [Channel!Next]_(Channel!channelVars)
<1>1. CASE UNCHANGED channelVars
  BY <1>1 DEF channelVars, Channel!channelVars, Channel!heard
<1>2. ASSUME NEW t \in Thread, ConnectTo(t) PROVE Channel!Next
  <2>1. planetPointer[t] \in alloc
    BY <1>2, PointerAssumption DEF ConnectTo, Connect, Valid, IInv, TypeOK
  <2>2. Asker[data[planetPointer[t]].rest] \in Client
    BY <2>1, ClientAssumption DEF AllocFull, Full
  <2> QED
    BY <1>2, <2>2 DEF ConnectTo, Channel!Next
<1>3. ASSUME NEW t \in Thread, DieAndReport(t) \/ ReportStep(t) PROVE Channel!Next
  BY <1>3 DEF DieAndReport, ReportStep, Channel!Next
<1>4. ASSUME NEW c \in Client, DeathServerStep(c) PROVE Channel!Next
  BY <1>4 DEF DeathServerStep, Channel!Next
<1> QED
  BY <1>1, <1>2, <1>3, <1>4
  DEF ServerNext, planetThread, ListStep, ReportDone, mailOrDraw, serverVars

(* The server with its clients does to the list nothing that the server    *)
(* of PlanetList does not: its clients cannot break it.                    *)
THEOREM ServerKeepsList == ServerSpec => Spec
<1>1. ServerInit => Init
  BY DEF ServerInit
<1> QED
  BY <1>1, ListSide, PTL DEF ServerSpec, Spec

(* So whatever clients come, end and return, and if memory was found for   *)
(* the head: walks under the lock follow no bad pointer, the list stays    *)
(* one, and planets with different names stay in it (server.c:34, 321).    *)
THEOREM ServerListSafe == ServerSpec => [](LockedWalksSafe /\ OwnPlanetStays /\ ListIntact)
BY ServerKeepsList, LockedWalksAreSafe, PlanetsStay, ListStaysIntact, PTL

LEMMA AllocFullAlways == ServerSpec => [](IInv /\ AllocFull)
<1>1. ServerInit => IInv /\ AllocFull
  BY InitInv DEF ServerInit, Init, AllocFull
<1>2. IInv /\ AllocFull /\ [ServerNext]_serverVars => (IInv /\ AllocFull)'
  BY ListSide, Inductive, AllocFullStep
<1> QED
  BY <1>1, <1>2, PTL DEF ServerSpec

(* The planet threads of server.c use the channel as DeathChannel says:    *)
(* each connects once, reports once, and only then removes its planet.     *)
THEOREM ServerUsesChannel == ServerSpec => Channel!Spec
<1>1. ServerInit => Channel!Init
  BY DEF ServerInit
<1> QED
  BY <1>1, ChannelSide, AllocFullAlways, PTL DEF ServerSpec, Channel!Spec

-----------------------------------------------------------------------------
(* Who has told whom                                                       *)

(* A step that leaves the channel alone is one of the list, and moves no   *)
(* thread to another phase, unless its report is out.                      *)
LEMMA PhasesStep ==
  ASSUME IInv, Channel!TypeOK, Phases, [ServerNext]_serverVars PROVE Phases'
<1>a. pc \in [Thread -> ThreadPC]
  BY DEF IInv, TypeOK
<1>b. PICK R : rpc \in [Thread -> R]
  BY DEF Channel!TypeOK
<1>1. CASE UNCHANGED <<pc, rpc>>
  BY <1>1 DEF Phases
<1>2. ASSUME NEW t \in Thread, NEW p, NEW r, pc' = [pc EXCEPT ![t] = p],
             rpc' = [rpc EXCEPT ![t] = r],
             /\ p \in Before => r = "connect"
             /\ p \in Alive => r = "alive"
             /\ p \in After => r = "reported"
      PROVE  Phases'
  <2>1. pc'[t] = p /\ rpc'[t] = r
    BY <1>a, <1>b, <1>2
  <2>2. \A u \in Thread : u # t => pc'[u] = pc[u] /\ rpc'[u] = rpc[u]
    BY <1>a, <1>b, <1>2
  <2> QED
    BY <1>2, <2>1, <2>2 DEF Phases
<1>3. ASSUME NEW t \in Thread, planetThread(t) PROVE Phases'
  <2>1. rpc = [rpc EXCEPT ![t] = rpc[t]] /\ pc = [pc EXCEPT ![t] = pc[t]]
    BY <1>a, <1>b
  <2>2. /\ pc[t] \in Before => rpc[t] = "connect"
        /\ pc[t] \in Alive => rpc[t] = "alive"
        /\ pc[t] \in After => rpc[t] = "reported"
    BY DEF Phases
  <2>3. CASE ListStep(t)
    <3>1. rpc' = [rpc EXCEPT ![t] = rpc[t]]
      BY <2>1, <2>3 DEF ListStep, channelVars
    <3>2. \E p : /\ pc' = [pc EXCEPT ![t] = p]
                 /\ p \in Before => pc[t] \in Before
                 /\ p \in Alive => pc[t] \in Alive
                 /\ p \in After => pc[t] \in After
      <4>1. CASE CopyName(t) \/ CopyRest(t) \/ AddLink(t)
        BY <4>1 DEF CopyName, CopyRest, AddLink, Goto, Before, Arriving, Alive, After
      <4>2. CASE Lock(t)
        BY <4>2 DEF Lock, Goto, Before, Arriving, Alive, After
      <4>3. CASE Unlock(t)
        BY <4>3 DEF Unlock, Goto, Before, Arriving, Alive, After
      <4>4. CASE AddWalk(t)
        BY <2>1, <4>4 DEF AddWalk, Goto, Before, Arriving, Alive, After
      <4>5. CASE Survive(t) \/ GravityTest(t) \/ GravityPull(t) \/ Move(t)
        BY <4>5 DEF Survive, GravityTest, GravityPull, Move, Goto, Before, Arriving, Alive, After
      <4>6. CASE Search(t)
        BY <2>1, <4>6 DEF Search, Before, Arriving, Alive, After
      <4>7. CASE FreeNode(t)
        BY <4>7 DEF FreeNode, Goto, Before, Arriving, Alive, After
      <4>8. CASE Trip(t)
        BY <4>8 DEF Trip, Crash, Before, Arriving, Alive, After
      <4> QED
        BY <2>3, <4>1, <4>2, <4>3, <4>4, <4>5, <4>6, <4>7, <4>8 DEF ListStep
    <3> QED
      BY <1>2, <2>2, <3>1, <3>2
  <2>4. CASE ConnectTo(t)
    <3>1. pc' = [pc EXCEPT ![t] = "test"] /\ rpc' = [rpc EXCEPT ![t] = "alive"]
      BY <2>4 DEF ConnectTo, Connect, Goto, Channel!Connect, Channel!StepR
    <3> QED
      BY <1>2, <3>1 DEF Before, Arriving, Alive, After
  <2>5. CASE DieAndReport(t)
    <3>1. pc' = [pc EXCEPT ![t] = "report"] /\ rpc' = [rpc EXCEPT ![t] = "wait empty"]
      BY <2>5 DEF DieAndReport, Die, Goto, Channel!Begin, Channel!StepR
    <3> QED
      BY <1>2, <3>1 DEF Before, Arriving, Alive, After
  <2>6. CASE ReportStep(t)
    <3>1. /\ rpc[t] \in {"wait empty", "wait mutex", "write", "post mutex", "post full"}
          /\ \E r : rpc' = [rpc EXCEPT ![t] = r]
      BY <2>6 DEF ReportStep, Channel!report, Channel!WaitEmpty2, Channel!WaitMutex2,
         Channel!Write, Channel!PostMutex2, Channel!PostFull2, Channel!StepR
    <3>2. pc[t] \notin Before \cup Alive \cup After
      BY <2>2, <3>1
    <3>3. pc' = [pc EXCEPT ![t] = pc[t]]
      BY <2>1, <2>6 DEF ReportStep, vars
    <3> QED
      BY <1>2, <3>1, <3>2, <3>3
  <2>7. CASE ReportDone(t)
    <3>1. pc' = [pc EXCEPT ![t] = "lock remove"] /\ rpc' = [rpc EXCEPT ![t] = "reported"]
      BY <2>1, <2>7 DEF ReportDone, Reported, Goto, channelVars
    <3> QED
      BY <1>2, <3>1 DEF Before, Arriving, Alive, After
  <2> QED
    BY <1>3, <2>3, <2>4, <2>5, <2>6, <2>7 DEF planetThread
<1>4. CASE mailOrDraw
  <2>1. rpc' = rpc
    BY <1>4 DEF mailOrDraw, channelVars
  <2>2. CASE UNCHANGED pc
    BY <1>1, <2>1, <2>2
  <2>3. ASSUME NEW t \in Thread, CreateThread(t) PROVE Phases'
    <3>1. pc[t] = "none" /\ pc' = [pc EXCEPT ![t] = "name"]
      BY <2>3 DEF CreateThread
    <3>2. rpc' = [rpc EXCEPT ![t] = rpc[t]] /\ rpc[t] = "connect"
      BY <1>b, <2>1, <3>1 DEF Phases, Before, Arriving
    <3> QED
      BY <1>2, <3>1, <3>2 DEF Before, Arriving, Alive, After
  <2> QED
    BY <1>4, <2>2, <2>3, NoThreadStep DEF mailOrDraw, manageMail, mailStep
<1>5. ASSUME NEW c \in Client, DeathServerStep(c) PROVE Phases'
  <2>1. UNCHANGED <<pc, rpc>>
    BY <1>5 DEF DeathServerStep, vars, Channel!death_server, Channel!CreateSlot,
       Channel!WaitFull2, Channel!LockMutex2, Channel!Read, Channel!UnlockMutex2,
       Channel!RepostFull2
  <2> QED
    BY <1>1, <2>1
<1> QED
  BY <1>1, <1>3, <1>4, <1>5 DEF ServerNext, Crashed, vars, channelVars, serverVars

(* A descriptor is opened by the thread's one call of MQconnect, and the   *)
(* names of the mailslots never change.                                    *)
LEMMA ChannelMoves ==
  ASSUME Channel!TypeOK, [ServerNext]_serverVars
  PROVE  /\ pid' = pid
         /\ \A u \in Thread : rpc[u] # "connect" => mq1'[u] = mq1[u]
         /\ \A u \in Thread :
              rpc[u] = "connect" /\ rpc'[u] # "connect" => fault = "none" /\ ConnectTo(u)
<1>1. PICK R, M : rpc \in [Thread -> R] /\ mq1 \in [Thread -> M]
  BY DEF Channel!TypeOK
<1>2. CASE UNCHANGED <<pid, mq1, rpc>>
  BY <1>2
<1>3. ASSUME NEW t \in Thread, fault = "none", ConnectTo(t)
      PROVE  /\ pid' = pid
             /\ \A u \in Thread : rpc[u] # "connect" => mq1'[u] = mq1[u]
             /\ \A u \in Thread :
                  rpc[u] = "connect" /\ rpc'[u] # "connect" => fault = "none" /\ ConnectTo(u)
  <2>1. /\ rpc[t] = "connect" /\ rpc' = [rpc EXCEPT ![t] = "alive"] /\ pid' = pid
        /\ \E m : mq1' = [mq1 EXCEPT ![t] = m]
    BY <1>3 DEF ConnectTo, Channel!Connect, Channel!StepR, Channel!heard
  <2>2. \A u \in Thread : u # t => rpc'[u] = rpc[u] /\ mq1'[u] = mq1[u]
    BY <1>1, <2>1
  <2> QED
    BY <1>3, <2>1, <2>2
<1>4. ASSUME NEW t \in Thread, DieAndReport(t) \/ ReportStep(t)
      PROVE  /\ UNCHANGED <<pid, mq1>>
             /\ \A u \in Thread : rpc[u] = "connect" => rpc'[u] = "connect"
  <2>1. /\ UNCHANGED <<pid, mq1>> /\ rpc[t] # "connect"
        /\ \E r : rpc' = [rpc EXCEPT ![t] = r]
    BY <1>4 DEF DieAndReport, ReportStep, Channel!Begin, Channel!report, Channel!WaitEmpty2,
       Channel!WaitMutex2, Channel!Write, Channel!PostMutex2, Channel!PostFull2, Channel!StepR,
       Channel!heard
  <2> QED
    BY <1>1, <2>1
<1>5. ASSUME NEW t \in Thread, planetThread(t), ~ConnectTo(t)
      PROVE  /\ UNCHANGED <<pid, mq1>>
             /\ \A u \in Thread : rpc[u] = "connect" => rpc'[u] = "connect"
  BY <1>4, <1>5 DEF planetThread, ListStep, ReportDone, channelVars
<1>6. ASSUME NEW c \in Client, DeathServerStep(c) PROVE UNCHANGED <<pid, mq1, rpc>>
  BY <1>6 DEF DeathServerStep, Channel!death_server, Channel!CreateSlot, Channel!WaitFull2,
     Channel!LockMutex2, Channel!Read, Channel!UnlockMutex2, Channel!RepostFull2, Channel!heard
<1>7. mailOrDraw \/ UNCHANGED channelVars => UNCHANGED <<pid, mq1, rpc>>
  BY DEF mailOrDraw, channelVars
<1> QED
  BY <1>2, <1>3, <1>5, <1>6, <1>7 DEF ServerNext, serverVars

(* A thread does not change its request once it has copied it, nor does a  *)
(* step make names differ that were the same.                              *)
LEMMA RequestsStay ==
  ASSUME IInv, [Next]_vars
  PROVE  /\ \A u \in Thread : pc[u] \notin {"none", "name", "rest"} => args'[u] = args[u]
         /\ NamesDistinct' => NamesDistinct
<1>0. TypeOK /\ ThreadTypes
  BY TypeParts DEF IInv
<1>1. CASE UNCHANGED <<pc, args>>
  BY <1>1 DEF NamesDistinct, Named, NameIn
<1>2. ASSUME NEW t \in Thread, thread(t)
      PROVE  /\ \A u \in Thread : pc[u] \notin {"none", "name", "rest"} => args'[u] = args[u]
             /\ NamesDistinct' => NamesDistinct
  <2>1. \A u \in Named : u \in Named' /\ args'[u].name = args[u].name
    BY <1>0, <1>2, NameStays
  <2>2. \A u \in Thread : u # t => args'[u] = args[u]
    BY <1>0, <1>2, OthersStay
  <2>3. pc[t] \notin {"none", "name", "rest"} => args'[t] = args[t]
    BY <1>2 DEF thread, planet, CreateThread, CopyName, CopyRest, Lock, AddWalk, AddLink, Unlock,
       Connect, Die, Survive, Reported, GravityTest, GravityPull, Move, Search, FreeNode, Trip,
       Crash, Goto
  <2>4. NamesDistinct' => NamesDistinct
    BY <2>1 DEF NamesDistinct, NameIn, Named
  <2> QED
    BY <2>2, <2>3, <2>4
<1>3. CASE mailStep \/ do_drawing
  BY <1>1, <1>3, NoThreadStep
<1> QED
  BY <1>1, <1>2, <1>3, Steps DEF vars

LEMMA AddressedStep ==
  ASSUME ServerInv, [ServerNext]_serverVars PROVE Addressed'
<1>0. IInv /\ Channel!TypeOK /\ Phases /\ Addressed /\ [Next]_vars
  BY ListSide DEF ServerInv
<1>1. SUFFICES ASSUME NEW u \in Thread, rpc'[u] # "connect"
               PROVE  /\ args'[u].rest \in Request
                      /\ NamesDistinct' => mq1'[u] \in {Closed, pid'[Asker[args'[u].rest]]}
  BY DEF Addressed
<1>2. CASE rpc[u] # "connect"
  <2>1. args'[u] = args[u]
    BY <1>0, <1>2, RequestsStay DEF Phases, Before, Arriving
  <2> QED
    BY <1>0, <1>2, <2>1, ChannelMoves, RequestsStay DEF Addressed
<1>3. CASE rpc[u] = "connect"
  <2>1. fault = "none" /\ ConnectTo(u) /\ pid' = pid
    BY <1>0, <1>1, <1>3, ChannelMoves
  <2>2. pc[u] = "connect" /\ args' = args /\ planetPointer[u] # Wild
    BY <1>0, <2>1, PointerAssumption DEF ConnectTo, Connect, Goto, Valid, IInv, TypeOK
  <2>3. args[u].rest \in Request
    BY <1>0, <2>1, <2>2 DEF IInv, Running, Filled
  <2>4. NamesDistinct' => data[planetPointer[u]] = args[u]
    BY <1>0, <2>2, RequestsStay DEF IInv, OwnPlanetStays, Orbiting
  <2>5. mq1'[u] \in {Closed, pid[Asker[data[planetPointer[u]].rest]]}
    BY <1>0, <2>1 DEF ConnectTo, Channel!Connect, Channel!TypeOK
  <2> QED
    BY <2>1, <2>2, <2>3, <2>4, <2>5
<1> QED
  BY <1>2, <1>3

-----------------------------------------------------------------------------
(* The channel of PlanetServer and the channel that DeathChannelProofs is  *)
(* about are one.                                                          *)
LEMMA OneChannel ==
  /\ Channel!Init <=> ChannelProofs!Init
  /\ [Channel!Next]_(Channel!channelVars) <=> [ChannelProofs!Next]_(ChannelProofs!channelVars)
  /\ Channel!TypeOK <=> ChannelProofs!TypeOK
<1>1. Channel!Init <=> ChannelProofs!Init
  BY DEF Channel!Init, ChannelProofs!Init
<1>2. [Channel!Next]_(Channel!channelVars) <=> [ChannelProofs!Next]_(ChannelProofs!channelVars)
  BY
  DEF Channel!StepR, ChannelProofs!StepR, Channel!StepD, ChannelProofs!StepD, Channel!Made,
      ChannelProofs!Made, Channel!Connect, ChannelProofs!Connect, Channel!Begin,
      ChannelProofs!Begin, Channel!WaitEmpty2, ChannelProofs!WaitEmpty2, Channel!WaitMutex2,
      ChannelProofs!WaitMutex2, Channel!Write, ChannelProofs!Write, Channel!PostMutex2,
      ChannelProofs!PostMutex2, Channel!PostFull2, ChannelProofs!PostFull2, Channel!report,
      ChannelProofs!report, Channel!CreateSlot, ChannelProofs!CreateSlot, Channel!WaitFull2,
      ChannelProofs!WaitFull2, Channel!LockMutex2, ChannelProofs!LockMutex2, Channel!Read,
      ChannelProofs!Read, Channel!UnlockMutex2, ChannelProofs!UnlockMutex2, Channel!RepostFull2,
      ChannelProofs!RepostFull2, Channel!death_server, ChannelProofs!death_server, Channel!Quiet,
      ChannelProofs!Quiet, Channel!Next, ChannelProofs!Next, Channel!channelVars,
      ChannelProofs!channelVars, Channel!heard, ChannelProofs!heard
<1>3. Channel!TypeOK <=> ChannelProofs!TypeOK
  BY DEF Channel!TypeOK, ChannelProofs!TypeOK
<1> QED
  BY <1>1, <1>2, <1>3

(* Each planet that leaves is reported to the client that asked for it     *)
(* and to no other, whatever the planet threads, the mail thread, GTK and  *)
(* the death servers do in what order, as long as the planets have         *)
(* different names and whether or not the server then follows a bad        *)
(* pointer; it is reported to nobody only if its client had no mailslot    *)
(* when the planet started.                                                *)
THEOREM LeaversTell == ServerSpec => []LeaverTold
<1>1. ServerInit => Phases /\ Addressed
  BY DEF ServerInit, Init, Channel!Init, Phases, Addressed, Before, Alive, After, Arriving
<1>2. ServerSpec => [](Channel!TypeOK /\ ChannelProofs!NoReportLost)
  <2>1. ChannelProofs!ChannelAssumption
    BY ServerAssumption DEF Channel!ChannelAssumption, ChannelProofs!ChannelAssumption,
       Channel!IsFiniteSet, ChannelProofs!IsFiniteSet
  <2>2. ChannelProofs!Spec => []ChannelProofs!TokensCount
    BY <2>1, ChannelProofs!ReportsCounted
  <2>3. ChannelProofs!Spec => []ChannelProofs!NoReportLost
    BY <2>1, ChannelProofs!ReportsKept
  <2>4. Channel!Spec => ChannelProofs!Spec
    BY OneChannel, PTL DEF Channel!Spec, ChannelProofs!Spec
  <2>5. ChannelProofs!TokensCount => Channel!TypeOK
    BY OneChannel DEF ChannelProofs!TokensCount
  <2> QED
    BY <2>2, <2>3, <2>4, <2>5, ServerUsesChannel, PTL
<1>3. IInv /\ AllocFull /\ Channel!TypeOK /\ Phases /\ Addressed /\ [ServerNext]_serverVars
      => Phases' /\ Addressed'
  BY PhasesStep, AddressedStep DEF ServerInv
<1>4. Channel!TypeOK /\ ChannelProofs!NoReportLost /\ Phases /\ Addressed => LeaverTold
  <2> SUFFICES ASSUME Channel!TypeOK, ChannelProofs!NoReportLost, Phases, Addressed,
                      NamesDistinct, NEW t \in Leaving
      PROVE  /\ {m \in Mailslot : t \in Channel!Elements(slot[m]) \cup Channel!Elements(read[m])}
                  = {pid[Asker[args[t].rest]]} \ (IF mq1[t] = Closed THEN Mailslot ELSE {})
             /\ \A c \in Client : t \in told[c] => pid[c] = pid[Asker[args[t].rest]]
    BY DEF LeaverTold
  <2>1. t \in Thread /\ rpc[t] = "reported"
    BY DEF Leaving, Phases, After
  <2>2. args[t].rest \in Request /\ mq1[t] \in {Closed, pid[Asker[args[t].rest]]}
    BY <2>1 DEF Addressed
  <2>3. pid \in [Client -> Mailslot] /\ pid[Asker[args[t].rest]] \in Mailslot
    BY <2>2, ClientAssumption DEF Channel!TypeOK
  <2>4. \A m \in Mailslot : t \in Channel!Elements(slot[m]) \cup Channel!Elements(read[m])
                             <=> mq1[t] = m
    BY <2>1 DEF ChannelProofs!NoReportLost, ChannelProofs!SentTo, ChannelProofs!Sent,
       Channel!Elements, ChannelProofs!Elements
  <2>5. Closed \notin Mailslot
    BY ServerAssumption DEF Channel!ChannelAssumption
  <2>6. \A c \in Client : t \in told[c] => mq1[t] = pid[c]
    <3>1. SUFFICES ASSUME NEW c \in Client, t \in told[c] PROVE mq1[t] = pid[c]
      OBVIOUS
    <3>2. pid[c] \in Mailslot /\ t \in ChannelProofs!Printed(pid[c])
      BY <2>3, <3>1 DEF ChannelProofs!Printed
    <3>3. t \in Channel!Elements(read[pid[c]])
      BY <3>2 DEF ChannelProofs!NoReportLost, Channel!Elements, ChannelProofs!Elements
    <3> QED
      BY <2>4, <3>2, <3>3
  <2> QED
    BY <2>2, <2>3, <2>4, <2>5, <2>6
<1> QED
  BY <1>1, <1>2, <1>3, <1>4, AllocFullAlways, PTL DEF ServerSpec
-----------------------------------------------------------------------------
(* lab3felix: the list before it had a mutex                               *)

(* What PlanetListProofs says of lists; the node being freed is in held.   *)
Felix == INSTANCE PlanetListProofs WITH temp <- [t \in Thread |-> held[t].node]

Updating == Adding \cup Removing
FelixPC == Started \cup Removing \cup {"none", "test", "gravity", "pull", "move", "gone", "crashed"}
FelixPointer == Pointer \ {HeadNode}

FelixThreadTypes ==
  /\ pc \in [Thread -> FelixPC] /\ args \in [Thread -> Copy]
  /\ planetPointer \in [Thread -> Node \cup {Wild}] /\ temp \in [Thread -> Pointer]
FelixOtherTypes ==
  /\ held \in [Thread \cup {Drawer} -> [node : FelixPointer, succ : Node \cup {NULL}]]
  /\ draw \in [pc : {"begin", "test", "call", "draw", "on", "crashed"}, temp : Pointer]
  /\ mutex = Free
  /\ fault \in {"none", "add", "remove", "gravity", "own planet", "first draw", "draw"}

(* Types, and that only the head can have a wild next.                     *)
FelixTyped ==
  /\ ListTypes /\ MailTypes /\ FelixThreadTypes /\ FelixOtherTypes
  /\ \A n \in Node : next[n] # Wild

(* Nothing is added before initList, or if it leaves no head or one with a *)
(* wild next; the pointer to the own planet is set when it is added.       *)
FelixWaiting == {"none", "name", "rest", "lock add", "walk", "step", "crashed"}
FelixBarren ==
  /\ mail.pc = "init" => /\ \A t \in Thread : pc[t] = "none"
                         /\ alloc = {} /\ next[HeadNode] = NULL
  /\ ~Tame => \A t \in Thread : /\ pc[t] \in FelixWaiting
                                /\ pc[t] \in {"walk", "step"} => temp[t] = headGlob
  /\ \A t \in Thread : pc[t] \in Started \cup {"none"} => planetPointer[t] = Wild
  /\ fault = "none" => \A t \in Thread : pc[t] # "crashed"

FelixBase == FelixTyped /\ FelixBarren

(* The steps of a thread, and the one that starts it; and the others.      *)
felixThread(t) == (CreateThread(t) /\ UNCHANGED held) \/ felixPlanet(t)
felixOther == (mailStep /\ UNCHANGED held) \/ felixDrawing

LEMMA FelixSteps ==
  ASSUME [FelixNext]_<<felixVars, raced>>
  PROVE  \/ /\ fault = "none" /\ (felixOther \/ \E t \in Thread : felixThread(t))
            /\ raced' = (raced \/ Overlap')
         \/ UNCHANGED <<vars, held>> /\ (raced' = raced \/ raced' = (raced \/ Overlap'))
BY DEF FelixNext, felixVars, felixMail, felixThread, felixOther, manageMail, mailStep, Crashed

(* Only the end of addToList and of removeFromList change the list.        *)
LEMMA FelixListKept ==
  ASSUME NEW t \in Thread, felixThread(t)
  PROVE  \/ UNCHANGED <<next, alloc, data>>
         \/ FelixLink(t) \/ FelixStore(t) \/ FelixFree(t)
BY DEF felixThread, felixPlanet, CreateThread, CopyName, CopyRest, GravityTest, GravityPull,
   FelixAdd, FelixWalk, FelixStep, FelixTest, FelixMove, FelixSearch, FelixEnd, FelixOn,
   FelixTake, FelixLoad, FelixTrip, Crash, felixRest, listVars

(* A step of t changes of the threads' variables only what is t's.         *)
LEMMA FelixMoves ==
  ASSUME FelixTyped, NEW t \in Thread, felixThread(t)
  PROVE  /\ \E p \in FelixPC : pc' = [pc EXCEPT ![t] = p]
         /\ \E a \in Copy : args' = [args EXCEPT ![t] = a]
         /\ \E p \in Node \cup {Wild} : planetPointer' = [planetPointer EXCEPT ![t] = p]
         /\ \E p \in Pointer : temp' = [temp EXCEPT ![t] = p]
         /\ \E h \in [node : FelixPointer, succ : Node \cup {NULL}] : held' = [held EXCEPT ![t] = h]
         /\ UNCHANGED <<draw, mutex, life, headGlob, pending, createPlanetArg>>
<1>0. /\ args = [args EXCEPT ![t] = args[t]] /\ args[t] \in Copy
      /\ planetPointer = [planetPointer EXCEPT ![t] = planetPointer[t]]
      /\ planetPointer[t] \in Node \cup {Wild}
      /\ temp = [temp EXCEPT ![t] = temp[t]] /\ temp[t] \in Pointer
      /\ pc = [pc EXCEPT ![t] = pc[t]] /\ pc[t] \in FelixPC
      /\ held = [held EXCEPT ![t] = held[t]]
      /\ held[t] \in [node : FelixPointer, succ : Node \cup {NULL}]
  BY DEF FelixTyped, FelixThreadTypes, FelixOtherTypes
<1>1. UNCHANGED <<draw, mutex, life, headGlob, pending, createPlanetArg>>
  BY DEF felixThread, felixPlanet, CreateThread, CopyName, CopyRest, GravityTest, GravityPull,
     FelixAdd, FelixWalk, FelixStep, FelixLink, FelixTest, FelixMove, FelixSearch, FelixEnd,
     FelixOn, FelixTake, FelixLoad, FelixStore, FelixFree, FelixTrip, Crash, felixRest, mailVars,
     listVars
<1>2. \E p \in FelixPC : pc' = [pc EXCEPT ![t] = p]
  <2>1. pc' = pc \/ \E p \in FelixPC : pc' = [pc EXCEPT ![t] = p]
    BY DEF felixThread, felixPlanet, CreateThread, CopyName, CopyRest, GravityTest, GravityPull,
       FelixAdd, FelixWalk, FelixStep, FelixLink, FelixTest, FelixMove, FelixSearch, FelixEnd,
       FelixOn, FelixTake, FelixLoad, FelixStore, FelixFree, FelixTrip, Crash, Goto, FelixPC,
       Started, Adding, Removing
  <2> QED
    BY <1>0, <2>1
<1>3. \E a \in Copy : args' = [args EXCEPT ![t] = a]
  <2>1. CASE CopyName(t)
    <3>1. [args[t] EXCEPT !.name = createPlanetArg.name] \in Copy
      BY <1>0 DEF FelixTyped, MailTypes, Copy
    <3> QED
      BY <2>1, <3>1 DEF CopyName
  <2>2. CASE CopyRest(t)
    <3>1. [args[t] EXCEPT !.rest = createPlanetArg.rest] \in Copy
      BY <1>0 DEF FelixTyped, MailTypes, Copy
    <3> QED
      BY <2>2, <3>1 DEF CopyRest
  <2>3. args' = args \/ CopyName(t) \/ CopyRest(t)
    BY DEF felixThread, felixPlanet, CreateThread, GravityTest, GravityPull, FelixAdd, FelixWalk,
       FelixStep, FelixLink, FelixTest, FelixMove, FelixSearch, FelixEnd, FelixOn, FelixTake,
       FelixLoad, FelixStore, FelixFree, FelixTrip, Crash, felixRest
  <2> QED
    BY <1>0, <2>1, <2>2, <2>3
<1>4. \E p \in Node \cup {Wild} : planetPointer' = [planetPointer EXCEPT ![t] = p]
  <2>1. CASE FelixLink(t)
    BY <1>0, <2>1 DEF FelixLink
  <2>2. planetPointer' = planetPointer \/ FelixLink(t)
    BY DEF felixThread, felixPlanet, CreateThread, CopyName, CopyRest, GravityTest, GravityPull,
       FelixAdd, FelixWalk, FelixStep, FelixTest, FelixMove, FelixSearch, FelixEnd, FelixOn,
       FelixTake, FelixLoad, FelixStore, FelixFree, FelixTrip, Crash
  <2> QED
    BY <1>0, <2>1, <2>2
<1>5. Valid(temp[t]) => next[temp[t]] \in FelixPointer
  BY DEF Valid, FelixTyped, ListTypes, FelixPointer
<1>6. \E p \in Pointer : temp' = [temp EXCEPT ![t] = p]
  <2>0. headGlob \in Pointer
    BY DEF FelixTyped, MailTypes, Pointer
  <2>1. CASE FelixAdd(t)
    BY <2>0, <2>1 DEF FelixAdd
  <2>2. CASE FelixTest(t)
    BY <1>0, <2>0, <2>2 DEF FelixTest, Pointer
  <2>3. CASE FelixStep(t) \/ FelixOn(t) \/ GravityPull(t)
    BY <1>0, <1>5, <2>3 DEF FelixStep, FelixOn, GravityPull, ValidNext, FelixPointer
  <2>4. \/ temp' = temp \/ FelixAdd(t) \/ FelixTest(t) \/ FelixStep(t) \/ FelixOn(t)
        \/ GravityPull(t)
    BY DEF felixThread, felixPlanet, CreateThread, CopyName, CopyRest, GravityTest, FelixWalk,
       FelixLink, FelixMove, FelixSearch, FelixEnd, FelixTake, FelixLoad, FelixStore, FelixFree,
       FelixTrip, Crash
  <2> QED
    BY <1>0, <2>1, <2>2, <2>3, <2>4
<1>7. \E h \in [node : FelixPointer, succ : Node \cup {NULL}] : held' = [held EXCEPT ![t] = h]
  <2>1. CASE FelixTake(t)
    <3>1. [held[t] EXCEPT !.node = next[temp[t]]] \in [node : FelixPointer, succ : Node \cup {NULL}]
      BY <1>0, <1>5, <2>1 DEF FelixTake
    <3> QED
      BY <2>1, <3>1 DEF FelixTake
  <2>2. CASE FelixLoad(t)
    <3>1. next[temp[t]] \in Node
      BY <1>5, <2>2 DEF FelixLoad, ValidNext, Valid, FelixTyped, ListTypes, FelixPointer
    <3>2. next[next[temp[t]]] \in Node \cup {NULL}
      BY <3>1 DEF FelixTyped, ListTypes, Pointer
    <3>3. [held[t] EXCEPT !.succ = next[next[temp[t]]]]
            \in [node : FelixPointer, succ : Node \cup {NULL}]
      BY <1>0, <3>2
    <3> QED
      BY <2>2, <3>3 DEF FelixLoad
  <2>3. held' = held \/ FelixTake(t) \/ FelixLoad(t)
    BY DEF felixThread, felixPlanet, FelixAdd, FelixWalk, FelixStep, FelixLink, FelixTest,
       FelixMove, FelixSearch, FelixEnd, FelixOn, FelixStore, FelixFree, FelixTrip
  <2> QED
    BY <1>0, <2>1, <2>2, <2>3
<1> QED
  BY <1>1, <1>2, <1>3, <1>4, <1>6, <1>7

(* So the others stay where they are.                                      *)
LEMMA FelixOthersStay ==
  ASSUME FelixTyped, NEW t \in Thread, felixThread(t), NEW u \in Thread, u # t
  PROVE  /\ pc'[u] = pc[u] /\ args'[u] = args[u] /\ planetPointer'[u] = planetPointer[u]
         /\ temp'[u] = temp[u] /\ held'[u] = held[u]
<1>1. PICK p \in FelixPC, a \in Copy, q \in Node \cup {Wild}, r \in Pointer,
           h \in [node : FelixPointer, succ : Node \cup {NULL}] :
        /\ pc' = [pc EXCEPT ![t] = p] /\ args' = [args EXCEPT ![t] = a]
        /\ planetPointer' = [planetPointer EXCEPT ![t] = q] /\ temp' = [temp EXCEPT ![t] = r]
        /\ held' = [held EXCEPT ![t] = h]
  BY FelixMoves
<1> QED
  BY <1>1 DEF FelixTyped, FelixThreadTypes, FelixOtherTypes

(* The mail thread and the drawer leave list and planet threads alone.     *)
LEMMA FelixOthersStep ==
  ASSUME FelixTyped, felixOther
  PROVE  /\ UNCHANGED <<alloc, data, life, mutex, pc, args, planetPointer, temp>>
         /\ \A t \in Thread : held'[t] = held[t]
         /\ InitList \/ next' = next
<1>1. UNCHANGED <<alloc, data, life, mutex, pc, args, planetPointer, temp>>
      /\ (InitList \/ next' = next)
  BY DEF felixOther, mailStep, InitList, ReadRequest, WriteName, WriteRest, CreateNone,
     felixDrawing, FelixDrawBegin, FelixDrawTest, FelixDrawCall, FelixDrawPlanet, FelixDrawOn,
     FelixDrawTrip, drawUnchanged, listVars
<1>2. held' = held \/ FelixDrawBegin \/ FelixDrawCall
  BY DEF felixOther, felixDrawing, FelixDrawTest, FelixDrawPlanet, FelixDrawOn, FelixDrawTrip
<1>3. held' = held \/ \E p : held' = [held EXCEPT ![Drawer].node = p]
  BY <1>2 DEF FelixDrawBegin, FelixDrawCall
<1> QED
  BY <1>1, <1>3, OwnerAssumption DEF FelixTyped, FelixOtherTypes

(* A planet has been added, or malloc has failed.                          *)
FelixAdded(t, n) ==
  /\ n \in Node \ alloc
  /\ alloc' = alloc \cup {n} /\ data' = [data EXCEPT ![n] = args[t]]
  /\ next' = [next EXCEPT ![n] = NULL, ![temp[t]] = n]
  /\ planetPointer' = [planetPointer EXCEPT ![t] = n]

LEMMA FelixLinkCases ==
  ASSUME FelixTyped, NEW t \in Thread, FelixLink(t)
  PROVE  /\ Valid(temp[t]) /\ pc[t] = "link" /\ pc' = [pc EXCEPT ![t] = "test"]
         /\ pc'[t] = "test" /\ UNCHANGED <<felixRest, life, temp, held>>
         /\ \/ UNCHANGED <<alloc, data, next, planetPointer>>
            \/ \E n \in Node : FelixAdded(t, n)
BY DEF FelixLink, Goto, FelixAdded, FelixTyped, FelixThreadTypes

LEMMA FelixListTypesStep ==
  ASSUME FelixBase, felixOther \/ \E t \in Thread : felixThread(t)
  PROVE  ListTypes' /\ \A n \in Node : next'[n] # Wild
<1>0. ListTypes /\ FelixTyped /\ \A n \in Node : next[n] # Wild
  BY DEF FelixBase, FelixTyped
<1>1. CASE InitList
  <2>1. UNCHANGED <<alloc, data, life>>
    BY <1>1 DEF InitList
  <2>2. ASSUME NEW p \in {NULL, Wild}, next' = [next EXCEPT ![HeadNode] = p]
        PROVE  ListTypes' /\ \A n \in Node : next'[n] # Wild
    <3>1. p \in Pointer \ {HeadNode}
      BY PointerAssumption DEF Pointer
    <3> QED
      BY <1>0, <2>1, <2>2, <3>1, PointerAssumption DEF ListTypes
  <2>3. CASE next' = next
    BY <1>0, <2>1, <2>3 DEF ListTypes
  <2> QED
    BY <1>1, <2>2, <2>3, PointerAssumption DEF InitList
<1>2. CASE felixOther /\ ~InitList
  BY <1>0, <1>2, FelixOthersStep DEF ListTypes
<1>3. ASSUME NEW t \in Thread, felixThread(t)
      PROVE  ListTypes' /\ \A n \in Node : next'[n] # Wild
  <2>0. life' = life
    BY <1>0, <1>3, FelixMoves
  <2>1. CASE UNCHANGED <<next, alloc, data>>
    BY <1>0, <2>0, <2>1 DEF ListTypes
  <2>2. ASSUME NEW n \in Node, FelixAdded(t, n)
        PROVE  ListTypes' /\ \A m \in Node : next'[m] # Wild
    <3>1. args[t] \in Copy
      BY <1>0 DEF FelixTyped, FelixThreadTypes
    <3>2. alloc' \in SUBSET Node /\ data' \in [Node -> Copy]
      BY <1>0, <2>2, <3>1 DEF FelixAdded, ListTypes
    <3>3. n \in Pointer \ {HeadNode} /\ NULL \in Pointer \ {HeadNode} /\ n # Wild /\ NULL # Wild
      BY PointerAssumption DEF Pointer
    <3>4. next' \in [Node \cup {HeadNode} -> Pointer \ {HeadNode}]
      BY <1>0, <2>2, <3>3 DEF FelixAdded, ListTypes
    <3>5. \A m \in Node : next'[m] # Wild
      BY <1>0, <2>2, <3>3 DEF FelixAdded, ListTypes
    <3> QED
      BY <1>0, <2>0, <3>2, <3>4, <3>5 DEF ListTypes
  <2>3. CASE FelixStore(t)
    <3>1. held[t].succ \in Node \cup {NULL}
      BY <1>0 DEF FelixTyped, FelixOtherTypes
    <3>2. held[t].succ \in Pointer \ {HeadNode} /\ held[t].succ # Wild
      BY <3>1, PointerAssumption DEF Pointer
    <3>3. next' = [next EXCEPT ![temp[t]] = held[t].succ] /\ UNCHANGED <<alloc, data>>
      BY <2>3 DEF FelixStore
    <3> QED
      BY <1>0, <2>0, <3>2, <3>3 DEF ListTypes
  <2>4. CASE FelixFree(t)
    BY <1>0, <2>0, <2>4 DEF FelixFree, ListTypes
  <2>5. CASE FelixLink(t)
    BY <1>0, <2>1, <2>2, <2>5, FelixLinkCases
  <2> QED
    BY <1>3, <2>1, <2>3, <2>4, <2>5, FelixListKept
<1> QED
  BY <1>1, <1>2, <1>3

LEMMA FelixMailTypesStep ==
  ASSUME FelixBase, felixOther \/ \E t \in Thread : felixThread(t)
  PROVE  MailTypes'
<1>0. MailTypes /\ FelixTyped
  BY DEF FelixBase, FelixTyped
<1>1. CASE InitList
  BY <1>0, <1>1 DEF InitList, MailTypes
<1>2. CASE ReadRequest
  <2>1. PICK r \in pending : pending' = pending \ {r} /\ mail' = [pc |-> "name", msg |-> r]
    BY <1>2 DEF ReadRequest
  <2>2. r \in Request
    BY <1>0, <2>1 DEF MailTypes
  <2>3. UNCHANGED <<headGlob, createPlanetArg, asked>>
    BY <1>2 DEF ReadRequest
  <2> QED
    BY <1>0, <2>1, <2>2, <2>3 DEF MailTypes
<1>3. CASE WriteName
  <2>1. createPlanetArg' \in Copy
    BY <1>0, <1>3 DEF WriteName, Copy, MailTypes
  <2> QED
    BY <1>0, <1>3, <2>1 DEF WriteName, MailTypes
<1>4. CASE WriteRest
  <2>1. createPlanetArg' \in Copy
    BY <1>0, <1>4 DEF WriteRest, Copy, MailTypes
  <2> QED
    BY <1>0, <1>4, <2>1 DEF WriteRest, MailTypes
<1>5. CASE felixDrawing
  <2>1. UNCHANGED mailVars
    BY <1>5 DEF felixDrawing, FelixDrawBegin, FelixDrawTest, FelixDrawCall, FelixDrawPlanet,
       FelixDrawOn, FelixDrawTrip, drawUnchanged
  <2> QED
    BY <1>0, <2>1 DEF mailVars, MailTypes
<1>6. ASSUME NEW t \in Thread, felixThread(t) PROVE MailTypes'
  <2>1. CASE CreateThread(t)
    BY <1>0, <2>1 DEF CreateThread, MailTypes
  <2>2. CASE felixPlanet(t)
    <3>1. UNCHANGED mailVars
      BY <2>2 DEF felixPlanet, CopyName, CopyRest, GravityTest, GravityPull, FelixAdd, FelixWalk,
         FelixStep, FelixLink, FelixTest, FelixMove, FelixSearch, FelixEnd, FelixOn, FelixTake,
         FelixLoad, FelixStore, FelixFree, FelixTrip, Crash, felixRest
    <3> QED
      BY <1>0, <3>1 DEF mailVars, MailTypes
  <2> QED
    BY <1>6, <2>1, <2>2 DEF felixThread
<1>7. CASE CreateNone
  BY <1>0, <1>7 DEF CreateNone, MailTypes
<1> QED
  BY <1>1, <1>2, <1>3, <1>4, <1>5, <1>6, <1>7 DEF felixOther, mailStep

LEMMA FelixOtherTypesStep ==
  ASSUME FelixBase, fault = "none", felixOther \/ \E t \in Thread : felixThread(t)
  PROVE  FelixThreadTypes' /\ FelixOtherTypes'
<1>0. FelixThreadTypes /\ FelixOtherTypes /\ FelixTyped /\ ListTypes /\ MailTypes
  BY DEF FelixBase, FelixTyped
<1>1. CASE mailStep /\ UNCHANGED held
  <2>1. UNCHANGED <<draw, fault>>
    BY <1>1 DEF mailStep, InitList, ReadRequest, WriteName, WriteRest, CreateNone
  <2> QED
    BY <1>0, <1>1, <2>1, FelixOthersStep DEF felixOther, FelixThreadTypes, FelixOtherTypes
<1>2. CASE felixDrawing
  <2>0. FelixThreadTypes' /\ mutex' = mutex
    BY <1>0, <1>2, FelixOthersStep DEF felixOther, FelixThreadTypes
  <2>1. Valid(draw.temp) => next[draw.temp] \in FelixPointer /\ next[draw.temp] \in Pointer
    BY <1>0 DEF Valid, ListTypes, FelixPointer
  <2>2. held' \in [Thread \cup {Drawer} -> [node : FelixPointer, succ : Node \cup {NULL}]]
    <3>1. held' = held \/ \E p \in FelixPointer : held' = [held EXCEPT ![Drawer].node = p]
      <4>1. NULL \in FelixPointer
        BY PointerAssumption DEF FelixPointer, Pointer
      <4> QED
        BY <1>2, <2>1, <4>1 DEF felixDrawing, FelixDrawBegin, FelixDrawTest, FelixDrawCall,
           FelixDrawPlanet, FelixDrawOn, FelixDrawTrip
    <3> QED
      BY <1>0, <3>1 DEF FelixOtherTypes
  <2>3. draw' \in [pc : {"begin", "test", "call", "draw", "on", "crashed"}, temp : Pointer]
    <3>1. CASE FelixDrawBegin \/ FelixDrawOn
      <4>1. \/ draw' = [pc |-> "test", temp |-> headGlob]
            \/ draw' = [pc |-> "test", temp |-> next[draw.temp]] /\ Valid(draw.temp)
        BY <3>1 DEF FelixDrawBegin, FelixDrawOn
      <4>2. headGlob \in Pointer
        BY <1>0 DEF MailTypes, Pointer
      <4> QED
        BY <2>1, <4>1, <4>2
    <3>2. CASE FelixDrawTest \/ FelixDrawCall \/ FelixDrawPlanet \/ FelixDrawTrip
      BY <1>0, <3>2 DEF FelixDrawTest, FelixDrawCall, FelixDrawPlanet, FelixDrawTrip, Draw,
         FelixOtherTypes
    <3> QED
      BY <1>2, <3>1, <3>2 DEF felixDrawing
  <2>4. fault' \in {"none", "add", "remove", "gravity", "own planet", "first draw", "draw"}
    BY <1>2 DEF felixDrawing, FelixDrawBegin, FelixDrawTest, FelixDrawCall, FelixDrawPlanet,
       FelixDrawOn, FelixDrawTrip, drawUnchanged
  <2> QED
    BY <1>0, <2>0, <2>2, <2>3, <2>4 DEF FelixOtherTypes
<1>3. ASSUME NEW t \in Thread, felixThread(t) PROVE FelixThreadTypes' /\ FelixOtherTypes'
  <2>1. PICK p \in FelixPC, a \in Copy, q \in Node \cup {Wild}, r \in Pointer,
             h \in [node : FelixPointer, succ : Node \cup {NULL}] :
          /\ pc' = [pc EXCEPT ![t] = p] /\ args' = [args EXCEPT ![t] = a]
          /\ planetPointer' = [planetPointer EXCEPT ![t] = q] /\ temp' = [temp EXCEPT ![t] = r]
          /\ held' = [held EXCEPT ![t] = h]
    BY <1>0, <1>3, FelixMoves
  <2>2. UNCHANGED <<draw, mutex>>
    BY <1>0, <1>3, FelixMoves
  <2>3. fault' \in {"none", "add", "remove", "gravity", "own planet"}
    BY <1>3 DEF felixThread, felixPlanet, CreateThread, CopyName, CopyRest, GravityTest,
       GravityPull, FelixAdd, FelixWalk, FelixStep, FelixLink, FelixTest, FelixMove, FelixSearch,
       FelixEnd, FelixOn, FelixTake, FelixLoad, FelixStore, FelixFree, FelixTrip, Crash, felixRest
  <2>4. FelixThreadTypes'
    BY <1>0, <2>1 DEF FelixThreadTypes
  <2> QED
    BY <1>0, <2>1, <2>2, <2>3, <2>4 DEF FelixOtherTypes
<1> QED
  BY <1>1, <1>2, <1>3 DEF felixOther

(* Where a thread comes from when it is at a statement.                    *)
LEMMA FelixPath ==
  ASSUME FelixTyped, NEW t \in Thread, felixThread(t)
  PROVE  /\ pc[t] = "none" => CreateThread(t) /\ mail.pc = "create"
         /\ pc'[t] \in Started \cup {"none"} => pc[t] \in Started \cup {"none"} /\ ~FelixLink(t)
         /\ pc'[t] = "crashed" => FelixTrip(t) /\ fault' # "none"
         /\ pc'[t] # "crashed" => ~FelixTrip(t) /\ fault' = fault
         /\ pc[t] # "crashed"
<1>0. pc \in [Thread -> FelixPC]
  BY DEF FelixTyped, FelixThreadTypes
<1>1. CASE CreateThread(t)
  BY <1>0, <1>1 DEF CreateThread, Started, FelixLink, FelixTrip, Goto, Crash
<1>2. CASE CopyName(t) \/ CopyRest(t) \/ GravityTest(t) \/ GravityPull(t)
  BY <1>0, <1>2 DEF CopyName, CopyRest, GravityTest, GravityPull, Started, Adding, Goto, FelixLink,
     FelixTrip, Crash
<1>3. CASE FelixAdd(t) \/ FelixWalk(t) \/ FelixStep(t) \/ FelixLink(t)
  BY <1>0, <1>3 DEF FelixAdd, FelixWalk, FelixStep, FelixLink, Goto, Started, Adding, felixRest,
     FelixTrip, Crash
<1>4. CASE FelixTest(t) \/ FelixMove(t) \/ FelixSearch(t) \/ FelixEnd(t) \/ FelixOn(t)
  BY <1>0, <1>4 DEF FelixTest, FelixMove, FelixSearch, FelixEnd, FelixOn, Goto, Started, Adding,
     FelixLink, felixRest, FelixTrip, Crash
<1>5. CASE FelixTake(t) \/ FelixLoad(t) \/ FelixStore(t) \/ FelixFree(t)
  BY <1>0, <1>5 DEF FelixTake, FelixLoad, FelixStore, FelixFree, Goto, Started, Adding, FelixLink,
     felixRest, FelixTrip, Crash
<1>6. CASE FelixTrip(t)
  <2>1. pc'[t] = "crashed" /\ fault' # "none"
    BY <1>0, <1>6 DEF FelixTrip, Crash
  <2>2. pc[t] \in {"walk", "link", "step", "search", "load", "end", "on", "take", "store", "free",
                   "gravity", "pull", "move"}
    BY <1>6 DEF FelixTrip
  <2> QED
    BY <1>6, <2>1, <2>2 DEF Started, Adding
<1> QED
  BY <1>1, <1>2, <1>3, <1>4, <1>5, <1>6 DEF felixThread, felixPlanet

(* Only initList sets headGlob.                                            *)
LEMMA FelixKeepsHead ==
  ASSUME FelixTyped, felixOther \/ \E t \in Thread : felixThread(t), ~InitList
  PROVE  headGlob' = headGlob /\ (HasHead' <=> HasHead)
<1>0. MailTypes
  BY DEF FelixTyped
<1>1. CASE ReadRequest \/ WriteName \/ WriteRest \/ CreateNone
  <2>1. headGlob' = headGlob /\ mail.pc # "init" /\ mail'.pc # "init"
    BY <1>0, <1>1 DEF ReadRequest, WriteName, WriteRest, CreateNone, MailTypes
  <2> QED
    BY <2>1 DEF HasHead
<1>2. ASSUME NEW t \in Thread, CreateThread(t) PROVE headGlob' = headGlob /\ (HasHead' <=> HasHead)
  <2>1. headGlob' = headGlob /\ mail.pc # "init" /\ mail'.pc # "init"
    BY <1>0, <1>2 DEF CreateThread, MailTypes
  <2> QED
    BY <2>1 DEF HasHead
<1>3. ASSUME NEW t \in Thread, felixPlanet(t) PROVE UNCHANGED mailVars
  BY <1>3 DEF felixPlanet, CopyName, CopyRest, GravityTest, GravityPull, FelixAdd, FelixWalk,
     FelixStep, FelixLink, FelixTest, FelixMove, FelixSearch, FelixEnd, FelixOn, FelixTake,
     FelixLoad, FelixStore, FelixFree, FelixTrip, Crash, felixRest
<1>4. felixDrawing => UNCHANGED mailVars
  BY DEF felixDrawing, FelixDrawBegin, FelixDrawTest, FelixDrawCall, FelixDrawPlanet,
     FelixDrawOn, FelixDrawTrip, drawUnchanged
<1>5. UNCHANGED mailVars => headGlob' = headGlob /\ (HasHead' <=> HasHead)
  BY DEF mailVars, HasHead
<1> QED
  BY <1>1, <1>2, <1>3, <1>4, <1>5 DEF felixOther, felixThread, mailStep

LEMMA FelixThreadKeepsHead ==
  ASSUME FelixTyped, NEW t \in Thread, felixThread(t)
  PROVE  headGlob' = headGlob /\ (HasHead' <=> HasHead)
<1>1. CreateThread(t) => mail.pc # "init"
  BY DEF CreateThread, FelixTyped, MailTypes
<1>2. felixPlanet(t) => UNCHANGED mail
  BY DEF felixPlanet, CopyName, CopyRest, GravityTest, GravityPull, FelixAdd, FelixWalk,
     FelixStep, FelixLink, FelixTest, FelixMove, FelixSearch, FelixEnd, FelixOn, FelixTake,
     FelixLoad, FelixStore, FelixFree, FelixTrip, Crash, felixRest, mailVars
<1>3. InitList => mail.pc = "init" /\ mail' # mail
  BY DEF InitList, FelixTyped, MailTypes
<1> QED
  BY <1>1, <1>2, <1>3, FelixKeepsHead DEF felixThread

(* A thread runs only after initList; its walks begin at a head.           *)
LEMMA FelixHeadRead ==
  ASSUME FelixBase, NEW t \in Thread, pc[t] # "none"
  PROVE  mail.pc # "init" /\ (Tame => headGlob = HeadNode)
BY DEF FelixBase, FelixTyped, FelixBarren, Tame, HasHead, MailTypes

(* Without a good head it stays so, and every walk ends in a fault.        *)
LEMMA FelixWildStays ==
  ASSUME FelixBase, fault = "none", ~Tame,
         felixOther \/ \E t \in Thread : felixThread(t)
  PROVE  /\ next' = next /\ headGlob' = headGlob /\ ~Tame'
         /\ \A t \in Thread :
              /\ pc'[t] \in FelixWaiting
              /\ pc'[t] \in {"walk", "step"} => temp'[t] = headGlob
<1>0. /\ FelixTyped /\ FelixThreadTypes
      /\ \A t \in Thread : /\ pc[t] \in FelixWaiting
                           /\ pc[t] \in {"walk", "step"} => temp[t] = headGlob
  <2>1. FelixTyped /\ FelixThreadTypes
    BY DEF FelixBase, FelixTyped
  <2> QED
    BY <2>1, Zenon DEF FelixBase, FelixBarren
<1> USE DEF FelixWaiting
<1>1. mail.pc # "init"
  BY PointerAssumption DEF FelixBase, FelixBarren, Tame, HasHead
<1>2. ~InitList
  BY <1>1 DEF InitList
<1>3. headGlob' = headGlob /\ (next' = next => ~Tame')
  BY <1>0, <1>2, FelixKeepsHead DEF Tame
<1>4. CASE felixOther
  BY <1>0, <1>2, <1>3, <1>4, FelixOthersStep
<1>5. ASSUME NEW t \in Thread, felixThread(t)
      PROVE  /\ next' = next
             /\ \A u \in Thread :
                  /\ pc'[u] \in FelixWaiting
                  /\ pc'[u] \in {"walk", "step"} => temp'[u] = headGlob
  <2>1. ~FelixLink(t) /\ ~FelixStore(t) /\ ~FelixFree(t)
    BY <1>0 DEF FelixLink, FelixStore, FelixFree, Goto
  <2>2. next' = next
    BY <1>5, <2>1, FelixListKept
  <2>3. ~Valid(Wild) /\ ~Valid(NULL) /\ (headGlob = NULL \/ headGlob = HeadNode)
    BY <1>0, PointerAssumption DEF Valid, FelixTyped, ListTypes, MailTypes
  <2>4. headGlob = HeadNode => next[HeadNode] = Wild
    BY PointerAssumption DEF Tame, HasHead
  <2>5. /\ pc'[t] \in FelixWaiting
        /\ pc'[t] \in {"walk", "step"} => temp'[t] = headGlob
    <3>1. CASE CreateThread(t) \/ CopyName(t) \/ CopyRest(t)
      BY <1>0, <3>1 DEF CreateThread, CopyName, CopyRest, Goto, FelixThreadTypes
    <3>2. CASE FelixAdd(t)
      BY <1>0, <3>2 DEF FelixAdd, Goto, FelixThreadTypes
    <3>3. CASE FelixWalk(t)
      <4>1. temp[t] = headGlob /\ next[temp[t]] # NULL
        BY <1>0, <2>3, <2>4, <3>3, PointerAssumption DEF FelixWalk, Goto
      <4> QED
        BY <1>0, <3>3, <4>1 DEF FelixWalk, Goto, FelixThreadTypes
    <3>4. CASE FelixStep(t)
      <4>1. temp[t] = headGlob
        BY <1>0, <3>4 DEF FelixStep, Goto
      <4> QED
        BY <2>3, <2>4, <3>4, <4>1 DEF FelixStep, ValidNext
    <3>5. CASE FelixTrip(t)
      BY <1>0, <3>5 DEF FelixTrip, Crash, FelixThreadTypes
    <3> QED
      BY <1>0, <1>5, <2>1, <3>1, <3>2, <3>3, <3>4, <3>5 DEF felixThread, felixPlanet, GravityTest,
         GravityPull, FelixTest, FelixMove, FelixSearch, FelixEnd, FelixOn, FelixTake, FelixLoad,
         Goto
  <2> QED
    BY <1>0, <1>5, <2>2, <2>5, FelixOthersStay
<1> QED
  BY <1>3, <1>4, <1>5

LEMMA FelixBarrenStep ==
  ASSUME FelixBase, fault = "none", felixOther \/ \E t \in Thread : felixThread(t)
  PROVE  FelixBarren' /\ (~Tame' => ~Tame \/ InitList)
<1>0. FelixTyped /\ FelixThreadTypes /\ ListTypes /\ FelixBarren
  BY DEF FelixBase, FelixTyped
<1>1. CASE felixOther
  <2>1. UNCHANGED <<alloc, pc, temp, planetPointer>> /\ (InitList \/ next' = next)
    BY <1>0, <1>1, FelixOthersStep
  <2>2. mail'.pc = "init" => mail.pc = "init" /\ ~InitList
    <3>1. mail \in [pc : {"init", "read", "name", "rest", "create"}, msg : Request \cup {NULL}]
      BY <1>0 DEF FelixTyped, MailTypes
    <3>2. mailStep => mail'.pc # "init"
      BY <3>1 DEF mailStep, InitList, ReadRequest, WriteName, WriteRest, CreateNone
    <3>3. felixDrawing => mail' = mail
      BY DEF felixDrawing, FelixDrawBegin, FelixDrawTest, FelixDrawCall, FelixDrawPlanet,
         FelixDrawOn, FelixDrawTrip, drawUnchanged, mailVars
    <3> QED
      BY <1>1, <3>2, <3>3 DEF felixOther, mailStep
  <2>3. InitList => \A t \in Thread : pc[t] = "none"
    BY <1>0 DEF InitList, FelixBarren
  <2>4. ~Tame' => ~Tame \/ InitList
    BY <1>0, <1>1, <2>1, FelixKeepsHead DEF Tame
  <2>5. ~Tame' => \A t \in Thread : /\ pc'[t] \in FelixWaiting
                                    /\ pc'[t] \in {"walk", "step"} => temp'[t] = headGlob'
    <3>1. CASE InitList
      BY <2>1, <2>3, <3>1 DEF FelixWaiting
    <3> QED
      BY <1>1, <2>4, <3>1, FelixWildStays
  <2>6. fault' = "none" => \A t \in Thread : pc'[t] # "crashed"
    BY <1>0, <2>1 DEF FelixBarren
  <2>7. mail'.pc = "init" => /\ \A t \in Thread : pc'[t] = "none"
                            /\ alloc' = {} /\ next'[HeadNode] = NULL
    BY <1>0, <2>1, <2>2 DEF FelixBarren
  <2>8. \A t \in Thread : pc'[t] \in Started \cup {"none"} => planetPointer'[t] = Wild
    BY <1>0, <2>1 DEF FelixBarren
  <2> QED
    BY <2>4, <2>5, <2>6, <2>7, <2>8 DEF FelixBarren
<1>2. ASSUME NEW t \in Thread, felixThread(t)
      PROVE  FelixBarren' /\ (~Tame' => ~Tame)
  <2>1. mail.pc # "init" /\ mail'.pc # "init"
    <3>1. mail.pc # "init"
      BY <1>0, <1>2, FelixPath DEF FelixBarren
    <3>2. CASE CreateThread(t)
      BY <1>0, <3>1, <3>2 DEF CreateThread, FelixTyped, MailTypes
    <3>3. CASE ~CreateThread(t)
      <4>1. mail' = mail
        BY <1>2, <3>3 DEF felixThread, felixPlanet, CopyName, CopyRest, GravityTest, GravityPull,
           FelixAdd, FelixWalk, FelixStep, FelixLink, FelixTest, FelixMove, FelixSearch, FelixEnd,
           FelixOn, FelixTake, FelixLoad, FelixStore, FelixFree, FelixTrip, Crash, felixRest,
           mailVars
      <4> QED
        BY <3>1, <4>1
    <3> QED
      BY <3>2, <3>3
  <2>2. next'[HeadNode] = Wild => next[HeadNode] = Wild
    <3>1. ASSUME NEW n \in Node, FelixAdded(t, n) PROVE next'[HeadNode] \in {next[HeadNode], n}
      BY <1>0, <3>1, PointerAssumption DEF FelixAdded, ListTypes
    <3>2. CASE FelixStore(t)
      <4>1. held[t].succ # Wild
        BY <1>0, PointerAssumption DEF FelixTyped, FelixOtherTypes
      <4>2. next' = [next EXCEPT ![temp[t]] = held[t].succ]
        BY <3>2 DEF FelixStore
      <4> QED
        BY <1>0, <4>1, <4>2 DEF ListTypes
    <3>3. CASE FelixLink(t)
      BY <1>0, <3>1, <3>3, FelixLinkCases, PointerAssumption
    <3>4. CASE FelixFree(t)
      BY <3>4 DEF FelixFree
    <3> QED
      BY <1>2, <3>2, <3>3, <3>4, FelixListKept
  <2>3. /\ ~Tame' => ~Tame
        /\ ~Tame' => \A u \in Thread :
                       /\ pc'[u] \in FelixWaiting
                       /\ pc'[u] \in {"walk", "step"} => temp'[u] = headGlob'
    <3>1. ~Tame' => ~Tame
      BY <1>0, <1>2, <2>2, FelixThreadKeepsHead DEF Tame
    <3> QED
      BY <1>2, <3>1, FelixWildStays
  <2>4. ASSUME NEW u \in Thread, pc'[u] \in Started \cup {"none"} PROVE planetPointer'[u] = Wild
    <3>1. CASE u = t
      <4>1. pc[t] \in Started \cup {"none"} /\ ~FelixLink(t)
        BY <1>0, <1>2, <2>4, <3>1, FelixPath
      <4>2. planetPointer' = planetPointer
        BY <1>2, <4>1 DEF felixThread, felixPlanet, CreateThread, CopyName, CopyRest, GravityTest,
           GravityPull, FelixAdd, FelixWalk, FelixStep, FelixTest, FelixMove, FelixSearch,
           FelixEnd, FelixOn, FelixTake, FelixLoad, FelixStore, FelixFree, FelixTrip, Crash
      <4> QED
        BY <1>0, <3>1, <4>1, <4>2 DEF FelixBarren
    <3>2. CASE u # t
      BY <1>0, <1>2, <2>4, <3>2, FelixOthersStay DEF FelixBarren
    <3> QED
      BY <3>1, <3>2
  <2>5. fault' = "none" => \A u \in Thread : pc'[u] # "crashed"
    BY <1>0, <1>2, FelixPath, FelixOthersStay DEF FelixBarren
  <2> QED
    BY <2>1, <2>2, <2>3, <2>4, <2>5 DEF FelixBarren
<1> QED
  BY <1>1, <1>2

LEMMA FelixBaseStep ==
  ASSUME FelixBase, [FelixNext]_<<felixVars, raced>> PROVE FelixBase'
<1>1. CASE UNCHANGED <<vars, held>>
  <2>1. /\ UNCHANGED <<next, alloc, data, life, headGlob, pending, mail, createPlanetArg, asked>>
        /\ UNCHANGED <<mutex, pc, args, planetPointer, temp, draw, fault, held>>
    BY <1>1 DEF vars, listVars, mailVars
  <2>2. ListTypes' /\ (\A n \in Node : next'[n] # Wild)
    BY <2>1 DEF FelixBase, FelixTyped, ListTypes
  <2>3. MailTypes'
    BY <2>1 DEF FelixBase, FelixTyped, MailTypes
  <2>4. FelixThreadTypes' /\ FelixOtherTypes'
    BY <2>1 DEF FelixBase, FelixTyped, FelixThreadTypes, FelixOtherTypes
  <2>5. FelixBarren'
    BY <2>1 DEF FelixBase, FelixBarren, Tame, HasHead
  <2> QED
    BY <2>2, <2>3, <2>4, <2>5 DEF FelixBase, FelixTyped
<1>2. CASE fault = "none" /\ (felixOther \/ \E t \in Thread : felixThread(t))
  BY <1>2, FelixListTypesStep, FelixMailTypesStep, FelixOtherTypesStep, FelixBarrenStep
  DEF FelixBase, FelixTyped
<1> QED
  BY <1>1, <1>2, FelixSteps

LEMMA FelixBaseInit == FelixInit => FelixBase
<1> SUFFICES ASSUME FelixInit PROVE FelixBase
  OBVIOUS
<1>0. Init
  BY DEF FelixInit
<1>1. IInv
  BY <1>0, InitInv
<1>2. ListTypes /\ MailTypes
  BY <1>1, TypeParts DEF IInv
<1>3. FelixThreadTypes
  BY <1>0 DEF Init, FelixThreadTypes, FelixPC, Copy, Blank, Pointer
<1>4. FelixOtherTypes
  BY <1>0, PointerAssumption DEF Init, FelixInit, FelixOtherTypes, FelixPointer, Pointer
<1>5. FelixBarren /\ \A n \in Node : next[n] # Wild
  BY <1>0, PointerAssumption DEF Init, FelixBarren, Tame, HasHead
<1> QED
  BY <1>2, <1>3, <1>4, <1>5 DEF FelixBase, FelixTyped

LEMMA FelixBaseAlways == FelixSpec => []FelixBase
  BY FelixBaseInit, FelixBaseStep, PTL DEF FelixSpec

(* While no planet has been unlinked, the list and every walk are sound,   *)
(* even if threads have added planets at the same time and lost some.      *)
FelixCalm == Tame /\ \A t \in Thread : pc[t] \notin {"free", "gone"}
FelixClosed == \A n \in alloc \cup {HeadNode} : next[n] \in alloc \cup {NULL}
FelixSoundThread(t) ==
  /\ planetPointer[t] \in alloc \cup {Wild}
  /\ pc[t] \in Adding => Valid(temp[t])
  /\ pc[t] \in {"gravity", "pull"} /\ Valid(planetPointer[t]) => Valid(temp[t])
  /\ pc[t] = "step" => next[temp[t]] # NULL
  /\ pc[t] = "pull" /\ Valid(planetPointer[t]) => next[temp[t]] # NULL
FelixSoundDrawer ==
  /\ draw.pc = "test" => Valid(draw.temp) \/ (draw.temp = NULL /\ held[Drawer].node = NULL)
  /\ draw.pc \in {"call", "draw", "on"} => Valid(draw.temp) /\ next[draw.temp] # NULL
  /\ draw.pc = "draw" => Valid(held[Drawer].node)
FelixSound == FelixClosed /\ FelixSoundDrawer /\ \A t \in Thread : FelixSoundThread(t)

(* It was calm before a calm state, and before any fault but one in        *)
(* removeFromList.                                                         *)
LEMMA FelixCalmBefore ==
  ASSUME FelixBase, fault = "none", felixOther \/ \E t \in Thread : felixThread(t),
         FelixCalm', fault' # "remove"
  PROVE  FelixCalm
<1>0. FelixTyped /\ FelixThreadTypes
  BY DEF FelixBase, FelixTyped
<1>1. Tame
  BY FelixWildStays DEF FelixCalm
<1>2. ASSUME NEW u \in Thread, pc[u] \in {"free", "gone"} PROVE FALSE
  <2>1. CASE felixOther
    BY <1>0, <1>2, <2>1, FelixOthersStep DEF FelixCalm
  <2>2. ASSUME NEW t \in Thread, felixThread(t) PROVE FALSE
    <3>1. CASE t = u
      <4>1. FelixFree(t) \/ FelixTrip(t)
        BY <1>2, <2>2, <3>1 DEF felixThread, felixPlanet, CreateThread, CopyName, CopyRest,
           GravityTest, GravityPull, FelixAdd, FelixWalk, FelixStep, FelixLink, FelixTest,
           FelixMove, FelixSearch, FelixEnd, FelixOn, FelixTake, FelixLoad, FelixStore, Goto
      <4>2. ~FelixFree(t)
        BY <1>0 DEF FelixFree, Goto, FelixCalm, FelixThreadTypes
      <4>3. ~FelixTrip(t)
        BY <1>2, <3>1 DEF FelixTrip, Crash
      <4> QED
        BY <4>1, <4>2, <4>3
    <3>2. CASE t # u
      BY <1>0, <1>2, <2>2, <3>2, FelixOthersStay DEF FelixCalm
    <3> QED
      BY <3>1, <3>2
  <2> QED
    BY <2>1, <2>2
<1> QED
  BY <1>1, <1>2 DEF FelixCalm

(* In a calm step the list stays, or grows at the node of temp.            *)
LEMMA FelixCalmList ==
  ASSUME FelixBase, fault = "none", FelixCalm, FelixCalm', FelixClosed,
         felixOther \/ \E t \in Thread : felixThread(t)
  PROVE  /\ FelixClosed' /\ alloc \subseteq alloc'
         /\ \A n \in alloc \cup {HeadNode} : next[n] # NULL => next'[n] # NULL
<1>0. FelixTyped /\ FelixThreadTypes /\ ListTypes /\ FelixBarren
  BY DEF FelixBase, FelixTyped
<1>1. CASE felixOther
  <2>1. alloc' = alloc /\ (InitList \/ next' = next)
    BY <1>0, <1>1, FelixOthersStep
  <2>2. CASE InitList
    <3>1. next[HeadNode] = NULL
      BY <1>0, <2>2 DEF InitList, FelixBarren
    <3>2. next' = next
      <4>1. next'[HeadNode] # Wild
        BY DEF FelixCalm, Tame
      <4> QED
        BY <1>0, <2>2, <3>1, <4>1, PointerAssumption DEF InitList, ListTypes
    <3> QED
      BY <2>1, <3>2 DEF FelixClosed
  <2> QED
    BY <2>1, <2>2 DEF FelixClosed
<1>2. ASSUME NEW t \in Thread, felixThread(t)
      PROVE  /\ FelixClosed' /\ alloc \subseteq alloc'
             /\ \A n \in alloc \cup {HeadNode} : next[n] # NULL => next'[n] # NULL
  <2>1. ~FelixStore(t) /\ ~FelixFree(t)
    BY <1>0 DEF FelixStore, FelixFree, Goto, FelixCalm, FelixThreadTypes
  <2>2. CASE UNCHANGED <<next, alloc, data>>
    BY <2>2 DEF FelixClosed
  <2>3. ASSUME NEW n \in Node, FelixAdded(t, n), Valid(temp[t])
        PROVE  /\ FelixClosed' /\ alloc \subseteq alloc'
               /\ \A m \in alloc \cup {HeadNode} : next[m] # NULL => next'[m] # NULL
    <3>1. /\ n \notin alloc \cup {HeadNode} /\ alloc' = alloc \cup {n} /\ n # NULL
          /\ temp[t] \in alloc \cup {HeadNode}
      BY <2>3, PointerAssumption DEF FelixAdded, Valid
    <3>2. /\ next'[n] = NULL /\ next'[temp[t]] = n
          /\ \A m \in (alloc \cup {HeadNode}) \ {temp[t]} : next'[m] = next[m]
      BY <1>0, <2>3, <3>1 DEF FelixAdded, ListTypes
    <3> QED
      BY <3>1, <3>2 DEF FelixClosed
  <2>4. CASE FelixLink(t)
    BY <1>0, <2>2, <2>3, <2>4, FelixLinkCases
  <2> QED
    BY <1>2, <2>1, <2>2, <2>4, FelixListKept
<1> QED
  BY <1>1, <1>2

LEMMA FelixCalmThread ==
  ASSUME FelixBase, fault = "none", FelixCalm, FelixCalm', FelixSound,
         NEW t \in Thread, felixThread(t), fault' = "none"
  PROVE  FelixSoundThread(t)'
<1>0. /\ FelixTyped /\ FelixThreadTypes /\ ListTypes /\ FelixBarren
      /\ FelixClosed /\ FelixSoundThread(t)
  BY DEF FelixBase, FelixTyped, FelixSound
<1>1. /\ FelixClosed' /\ alloc \subseteq alloc'
      /\ \A n \in alloc \cup {HeadNode} : next[n] # NULL => next'[n] # NULL
  BY <1>0, FelixCalmList
<1>2. Wild \notin alloc' /\ NULL \notin alloc' /\ Wild \notin alloc
  <2>1. ListTypes'
    BY FelixListTypesStep
  <2> QED
    BY <1>0, <2>1, PointerAssumption DEF ListTypes
<1>3. CASE CreateThread(t) \/ CopyName(t) \/ CopyRest(t)
  <2>1. /\ pc'[t] \in {"name", "rest", "lock add"}
        /\ planetPointer' = planetPointer
    BY <1>0, <1>3 DEF CreateThread, CopyName, CopyRest, Goto, FelixThreadTypes
  <2> QED
    BY <1>0, <1>1, <2>1 DEF FelixSoundThread, Adding
<1>4. CASE FelixAdd(t)
  <2>1. headGlob = HeadNode
    BY <1>4, FelixHeadRead DEF FelixAdd, Goto, FelixCalm
  <2>2. pc'[t] = "walk" /\ planetPointer' = planetPointer /\ temp'[t] = HeadNode
    BY <1>0, <1>4, <2>1 DEF FelixAdd, Goto, FelixThreadTypes
  <2> QED
    BY <1>0, <1>1, <2>2 DEF FelixSoundThread, Valid
<1>5. CASE FelixWalk(t)
  <2>1. /\ pc'[t] = (IF next[temp[t]] = NULL THEN "link" ELSE "step") /\ Valid(temp[t])
        /\ planetPointer' = planetPointer /\ temp' = temp
    BY <1>0, <1>5 DEF FelixWalk, Goto, FelixThreadTypes
  <2> QED
    BY <1>0, <1>1, <2>1 DEF FelixSoundThread, Valid
<1>6. CASE FelixStep(t)
  <2>1. pc'[t] = "walk" /\ planetPointer' = planetPointer /\ temp'[t] = next[temp[t]]
        /\ Valid(next[temp[t]])
    BY <1>0, <1>6 DEF FelixStep, Goto, FelixThreadTypes, ValidNext
  <2> QED
    BY <1>0, <1>1, <2>1 DEF FelixSoundThread, Valid
<1>7. CASE FelixLink(t)
  <2>1. pc'[t] = "test" /\ temp' = temp
    BY <1>0, <1>7, FelixLinkCases
  <2>2. planetPointer'[t] \in alloc' \cup {Wild}
    <3>1. ASSUME NEW n \in Node, FelixAdded(t, n) PROVE planetPointer'[t] \in alloc'
      BY <1>0, <3>1 DEF FelixAdded, FelixThreadTypes
    <3> QED
      BY <1>0, <1>1, <1>7, <3>1, FelixLinkCases DEF FelixSoundThread
  <2> QED
    BY <2>1, <2>2 DEF FelixSoundThread, Adding
<1>8. CASE FelixTest(t)
  <2>1. /\ pc'[t] \in {"search", "gravity"} /\ planetPointer' = planetPointer
        /\ pc'[t] = "gravity" => temp'[t] = planetPointer[t]
    BY <1>0, <1>8 DEF FelixTest, Goto, FelixThreadTypes
  <2> QED
    BY <1>0, <1>1, <2>1 DEF FelixSoundThread, Adding, Valid
<1>9. CASE GravityTest(t)
  <2>1. /\ pc'[t] = (IF next[temp[t]] = NULL THEN "move" ELSE "pull") /\ Valid(temp[t])
        /\ planetPointer' = planetPointer /\ temp' = temp
    BY <1>0, <1>9 DEF GravityTest, Goto, FelixThreadTypes
  <2> QED
    BY <1>0, <1>1, <2>1 DEF FelixSoundThread, Valid, Adding
<1>10. CASE GravityPull(t)
  <2>1. pc'[t] = "gravity" /\ planetPointer' = planetPointer /\ temp'[t] = next[temp[t]]
        /\ Valid(next[temp[t]])
    BY <1>0, <1>10 DEF GravityPull, Goto, FelixThreadTypes, ValidNext
  <2> QED
    BY <1>0, <1>1, <2>1 DEF FelixSoundThread, Valid, Adding
<1>11. CASE \/ FelixMove(t) \/ FelixSearch(t) \/ FelixEnd(t) \/ FelixOn(t)
            \/ FelixTake(t) \/ FelixLoad(t)
  <2>1. /\ pc'[t] \notin Adding \cup {"gravity", "pull"}
        /\ planetPointer' = planetPointer
    BY <1>0, <1>11 DEF FelixMove, FelixSearch, FelixEnd, FelixOn, FelixTake, FelixLoad, Goto,
       FelixThreadTypes, Adding
  <2> QED
    BY <1>0, <1>1, <2>1 DEF FelixSoundThread, Adding
<1>12. ~FelixStore(t) /\ ~FelixFree(t)
  BY <1>0 DEF FelixStore, FelixFree, Goto, FelixCalm, FelixThreadTypes
<1>13. ~FelixTrip(t)
  BY DEF FelixTrip, Crash
<1> QED
  BY <1>3, <1>4, <1>5, <1>6, <1>7, <1>8, <1>9, <1>10, <1>11, <1>12, <1>13
  DEF felixThread, felixPlanet

(* What was sound stays so when the list grows.                            *)
LEMMA FelixStaySound ==
  ASSUME FelixBase, fault = "none", FelixCalm, FelixCalm', FelixSound,
         felixOther \/ \E t \in Thread : felixThread(t)
  PROVE  /\ \A u \in Thread :
              /\ pc'[u] = pc[u] /\ planetPointer'[u] = planetPointer[u] /\ temp'[u] = temp[u]
              => FelixSoundThread(u)'
         /\ draw' = draw /\ held'[Drawer] = held[Drawer] => FelixSoundDrawer'
<1>0. FelixTyped /\ ListTypes /\ FelixClosed
  BY DEF FelixBase, FelixTyped, FelixSound
<1>1. /\ alloc \subseteq alloc'
      /\ \A n \in alloc \cup {HeadNode} : next[n] # NULL => next'[n] # NULL
  BY <1>0, FelixCalmList
<1>2. Wild \notin alloc' /\ Wild # HeadNode
  <2>1. ListTypes'
    BY FelixListTypesStep
  <2> QED
    BY <2>1, PointerAssumption DEF ListTypes
<1>3. ASSUME NEW u \in Thread,
             pc'[u] = pc[u] /\ planetPointer'[u] = planetPointer[u] /\ temp'[u] = temp[u]
      PROVE  FelixSoundThread(u)'
  <2>1. FelixSoundThread(u)
    BY DEF FelixSound
  <2>2. Valid(planetPointer[u])' => Valid(planetPointer[u])
    BY <1>2, <1>3, <2>1 DEF FelixSoundThread, Valid
  <2>3. Valid(temp[u]) => Valid(temp[u])'
    BY <1>1, <1>3 DEF Valid
  <2>4. Valid(temp[u]) /\ next[temp[u]] # NULL => next'[temp'[u]] # NULL
    BY <1>1, <1>3 DEF Valid
  <2>5. pc[u] = "step" => Valid(temp[u])
    BY <2>1 DEF FelixSoundThread, Adding
  <2> QED
    BY <1>1, <1>3, <2>1, <2>2, <2>3, <2>4, <2>5 DEF FelixSoundThread
<1>4. ASSUME draw' = draw, held'[Drawer] = held[Drawer] PROVE FelixSoundDrawer'
  BY <1>1, <1>4 DEF FelixSound, FelixSoundDrawer, Valid
<1> QED
  BY <1>3, <1>4

LEMMA FelixCalmDrawer ==
  ASSUME FelixBase, fault = "none", fault' = "none", FelixCalm, FelixCalm', FelixSound,
         felixDrawing
  PROVE  FelixSoundDrawer'
<1>0. FelixTyped /\ FelixOtherTypes /\ ListTypes /\ MailTypes /\ FelixClosed /\ FelixSoundDrawer
  BY DEF FelixBase, FelixTyped, FelixSound
<1>1. next' = next /\ alloc' = alloc
  BY DEF felixDrawing, FelixDrawBegin, FelixDrawTest, FelixDrawCall, FelixDrawPlanet, FelixDrawOn,
     FelixDrawTrip, drawUnchanged, listVars
<1>2. /\ draw \in [pc : {"begin", "test", "call", "draw", "on", "crashed"}, temp : Pointer]
      /\ held \in [Thread \cup {Drawer} -> [node : FelixPointer, succ : Node \cup {NULL}]]
  BY <1>0 DEF FelixOtherTypes
<1>3. CASE FelixDrawBegin
  <2>1. draw'.pc = "test" /\ draw'.temp = headGlob /\ held'[Drawer].node = NULL
    BY <1>2, <1>3 DEF FelixDrawBegin
  <2>2. headGlob \in {HeadNode, NULL}
    BY <1>0 DEF MailTypes
  <2>3. Valid(draw.temp)' \/ draw'.temp = NULL
    BY <2>1, <2>2 DEF Valid
  <2> QED
    BY <2>1, <2>3 DEF FelixSoundDrawer
<1>4. CASE FelixDrawTest
  <2>1. /\ draw'.pc = (IF next[draw.temp] = NULL THEN "begin" ELSE "call") /\ Valid(draw.temp)
        /\ draw'.temp = draw.temp
    BY <1>2, <1>4 DEF FelixDrawTest, Draw
  <2> QED
    BY <1>1, <2>1 DEF FelixSoundDrawer, Valid
<1>5. CASE FelixDrawCall
  <2>1. /\ draw.pc = "call" /\ draw'.pc = "draw" /\ Valid(draw.temp) /\ draw'.temp = draw.temp
        /\ held'[Drawer].node = next[draw.temp]
    BY <1>2, <1>5 DEF FelixDrawCall, Draw
  <2> QED
    BY <1>0, <1>1, <2>1 DEF FelixSoundDrawer, Valid, FelixClosed
<1>6. CASE FelixDrawPlanet
  <2>1. draw.pc = "draw" /\ draw'.pc = "on" /\ draw'.temp = draw.temp
    BY <1>2, <1>6 DEF FelixDrawPlanet, Draw
  <2> QED
    BY <1>0, <1>1, <2>1 DEF FelixSoundDrawer, Valid
<1>7. CASE FelixDrawOn
  <2>1. /\ draw.pc = "on" /\ draw'.pc = "test" /\ Valid(draw.temp)
        /\ draw'.temp = next[draw.temp]
    BY <1>2, <1>7 DEF FelixDrawOn
  <2>2. draw'.temp \in alloc
    BY <1>0, <2>1 DEF FelixSoundDrawer, Valid, FelixClosed
  <2>3. draw'.temp \in alloc' \cup {HeadNode}
    BY <1>1, <2>2
  <2> QED
    BY <2>1, <2>3 DEF FelixSoundDrawer, Valid
<1>8. ~FelixDrawTrip
  BY DEF FelixDrawTrip
<1> QED
  BY <1>3, <1>4, <1>5, <1>6, <1>7, <1>8 DEF felixDrawing

LEMMA FelixSoundStep ==
  ASSUME FelixBase, fault = "none", fault' = "none", FelixCalm, FelixCalm', FelixSound,
         felixOther \/ \E t \in Thread : felixThread(t)
  PROVE  FelixSound'
<1>0. FelixTyped /\ FelixClosed
  BY DEF FelixBase, FelixSound
<1>1. FelixClosed'
  BY <1>0, FelixCalmList
<1>2. CASE felixOther
  <2>1. \A u \in Thread : FelixSoundThread(u)'
    <3>1. UNCHANGED <<pc, planetPointer, temp>>
      BY <1>0, <1>2, FelixOthersStep
    <3> QED
      BY <3>1, FelixStaySound
  <2>2. CASE mailStep /\ UNCHANGED held
    <3>1. draw' = draw
      BY <2>2 DEF mailStep, InitList, ReadRequest, WriteName, WriteRest, CreateNone
    <3>2. FelixSoundDrawer'
      BY <2>2, <3>1, FelixStaySound
    <3> QED
      BY <1>1, <2>1, <3>2 DEF FelixSound
  <2>3. CASE felixDrawing
    BY <1>1, <2>1, <2>3, FelixCalmDrawer DEF FelixSound
  <2> QED
    BY <1>2, <2>2, <2>3 DEF felixOther
<1>3. ASSUME NEW t \in Thread, felixThread(t) PROVE FelixSound'
  <2>1. FelixSoundThread(t)'
    BY <1>3, FelixCalmThread
  <2>2. ASSUME NEW u \in Thread, u # t PROVE FelixSoundThread(u)'
    <3>1. pc'[u] = pc[u] /\ planetPointer'[u] = planetPointer[u] /\ temp'[u] = temp[u]
      BY <1>0, <1>3, <2>2, FelixOthersStay
    <3> QED
      BY <3>1, FelixStaySound
  <2>3. draw' = draw /\ held'[Drawer] = held[Drawer]
    <3>1. PICK h : held' = [held EXCEPT ![t] = h]
      BY <1>0, <1>3, FelixMoves
    <3> QED
      BY <1>0, <1>3, <3>1, FelixMoves, OwnerAssumption DEF FelixTyped, FelixOtherTypes
  <2>4. FelixSoundDrawer'
    BY <2>3, FelixStaySound
  <2> QED
    BY <1>1, <2>1, <2>2, <2>4 DEF FelixSound
<1> QED
  BY <1>2, <1>3

(* A calm program trips over nothing in addToList, in the calculation and  *)
(* when drawing.                                                           *)
LEMMA FelixNoTrip ==
  ASSUME FelixBase, fault = "none", FelixSound, felixOther \/ \E t \in Thread : felixThread(t)
  PROVE  fault' \notin {"add", "gravity", "draw"}
<1>0. FelixTyped /\ FelixOtherTypes /\ FelixClosed /\ FelixSoundDrawer /\ ListTypes
  BY DEF FelixBase, FelixTyped, FelixSound
<1>1. CASE felixOther
  <2>1. fault' = fault \/ FelixDrawTrip
    BY <1>1 DEF felixOther, mailStep, InitList, ReadRequest, WriteName, WriteRest, CreateNone,
       felixDrawing,
       FelixDrawBegin, FelixDrawTest, FelixDrawCall, FelixDrawPlanet, FelixDrawOn, drawUnchanged
  <2>2. FelixDrawTrip => fault' = "first draw"
    BY <1>0 DEF FelixDrawTrip, FelixSoundDrawer
  <2> QED
    BY <2>1, <2>2
<1>2. ASSUME NEW t \in Thread, felixThread(t) PROVE fault' \notin {"add", "gravity", "draw"}
  <2>0. FelixSoundThread(t)
    BY DEF FelixSound
  <2>1. \A p : Valid(p) /\ next[p] # NULL => ValidNext(p)
    BY <1>0 DEF Valid, ValidNext, FelixClosed
  <2>2. CASE FelixTrip(t)
    <3>1. pc[t] \in Adding => Valid(temp[t]) /\ (pc[t] = "step" => ValidNext(temp[t]))
      BY <2>0, <2>1 DEF FelixSoundThread
    <3>2. pc[t] \in {"gravity", "pull"} /\ Valid(planetPointer[t]) =>
            Valid(temp[t]) /\ (pc[t] = "pull" => ValidNext(temp[t]))
      BY <2>0, <2>1 DEF FelixSoundThread
    <3> QED
      BY <2>2, <3>1, <3>2 DEF FelixTrip, Crash, Adding
  <2>3. CASE ~FelixTrip(t)
    BY <1>0, <1>2, <2>3, FelixPath
  <2> QED
    BY <2>2, <2>3
<1> QED
  BY <1>1, <1>2

(* lab3felix without its mutex: threads that add planets at the same time  *)
(* may lose planets from the list, but no walk follows a bad pointer in    *)
(* addToList, in the calculation or when drawing before some thread has    *)
(* come to the end of removeFromList.                                      *)
THEOREM AddsLoseButNeverHurt == FelixSpec => []AddsOnlyLose
<1> DEFINE CalmInv == (fault = "none" /\ FelixCalm => FelixSound) /\ AddsOnlyLose
<1>1. FelixInit => CalmInv
  BY PointerAssumption DEF FelixInit, Init, FelixSound, FelixClosed, FelixSoundDrawer,
     FelixSoundThread, Adding, AddsOnlyLose
<1>2. FelixBase /\ CalmInv /\ [FelixNext]_<<felixVars, raced>> => CalmInv'
  <2> SUFFICES ASSUME FelixBase, CalmInv, [FelixNext]_<<felixVars, raced>> PROVE CalmInv'
    OBVIOUS
  <2>1. CASE UNCHANGED <<vars, held>>
    <3>1. UNCHANGED <<next, alloc, pc, planetPointer, temp, draw, held, fault, mail, headGlob>>
      BY <2>1 DEF vars, listVars, mailVars
    <3>2. (FelixCalm' <=> FelixCalm) /\ (Tame' <=> Tame)
      BY <3>1 DEF FelixCalm, Tame, HasHead
    <3>3. FelixSound => FelixSound'
      BY <3>1 DEF FelixSound, FelixClosed, FelixSoundDrawer, FelixSoundThread, Valid
    <3>4. AddsOnlyLose => AddsOnlyLose'
      BY <3>1, <3>2 DEF AddsOnlyLose
    <3> QED
      BY <3>1, <3>2, <3>3, <3>4
  <2>2. CASE fault = "none" /\ (felixOther \/ \E t \in Thread : felixThread(t))
    <3>1. fault' = "none" /\ FelixCalm' => FelixSound'
      BY <2>2, FelixCalmBefore, FelixSoundStep
    <3>2. AddsOnlyLose'
      <4>1. FelixCalm' /\ fault' # "remove" => fault' \notin {"add", "gravity", "draw"}
        BY <2>2, FelixCalmBefore, FelixNoTrip
      <4> QED
        BY <4>1 DEF AddsOnlyLose, FelixCalm, Tame
    <3> QED
      BY <3>1, <3>2
  <2> QED
    BY <2>1, <2>2, FelixSteps
<1>3. CalmInv => AddsOnlyLose
  OBVIOUS
<1> HIDE DEF CalmInv
<1> QED
  BY <1>1, <1>2, <1>3, FelixBaseAlways, PTL DEF FelixSpec

-----------------------------------------------------------------------------
(* lab3felix: updates one at a time                                        *)

FelixInList == FelixLinked \cup {HeadNode}

LEMMA FelixAssumptions ==
  /\ Felix!PointerAssumption /\ Felix!AddressAssumption
  /\ Felix!OwnerAssumption /\ Felix!RequestAssumption
BY PointerAssumption, AddressAssumption, OwnerAssumption, RequestAssumption
DEF Felix!PointerAssumption, Felix!AddressAssumption, Felix!OwnerAssumption,
    Felix!RequestAssumption, Felix!IsFiniteSet, IsFiniteSet

LEMMA FelixLists ==
  /\ Felix!Linked = FelixLinked /\ Felix!InList = FelixInList
  /\ Felix!Linked' = FelixLinked' /\ Felix!InList' = FelixInList'
BY DEF Felix!Linked, Felix!InList, Felix!Doomed, FelixLinked, FelixInList

(* The thread in addToList or removeFromList is at a node of the list, and *)
(* what it has seen there is still so.                                     *)
FelixUpdater(t) ==
  /\ pc[t] \in Updating \ {"free"} => temp[t] \in FelixInList
  /\ pc[t] = "step" => next[temp[t]] # NULL
  /\ pc[t] = "link" => next[temp[t]] = NULL
  /\ pc[t] \in {"end", "on"} => NameAt(next[temp[t]]) # NameIn(t)
  /\ pc[t] \in {"take", "load", "store"} =>
       next[temp[t]] \in FelixLinked /\ NameAt(next[temp[t]]) = NameIn(t)
  /\ pc[t] \in {"load", "store"} => held[t].node = next[temp[t]]
  /\ pc[t] = "store" => held[t].succ = next[held[t].node]
  /\ pc[t] = "free" => held[t].node \in alloc
FelixUpdaters == \A t \in Thread : FelixUpdater(t)

(* The nodes are a list, and removeFromList has a node of its name ahead.  *)
FelixSearching == {"search", "end", "on"}
FelixAhead(pos) ==
  \A t \in Thread : pc[t] \in FelixSearching =>
    \E m \in FelixLinked : NameAt(m) = NameIn(t) /\ pos[m] > pos[temp[t]]
FelixOrdered ==
  \E pos \in [Node \cup {HeadNode} -> Nat], len \in Nat : Felix!Chain(pos, len) /\ FelixAhead(pos)

(* Every thread whose planet is in the list has a node of its name.        *)
FelixOwnedBy(own) ==
  \A t \in FelixOrbiting :
    /\ own[t] \in FelixLinked /\ NameAt(own[t]) = NameIn(t)
    /\ \A u \in FelixOrbiting : own[u] = own[t] => u = t
FelixOwners == \E own \in [Thread -> Node \cup {HeadNode}] : FelixOwnedBy(own)

FelixOwnPlanets ==
  NamesDistinct => \A t \in FelixOrbiting :
    planetPointer[t] \in FelixLinked /\ data[planetPointer[t]] = args[t]

FelixSerial == /\ FelixUpdaters /\ FelixOrdered /\ FelixOwners /\ FelixOwnPlanets
               /\ fault \notin {"add", "remove"}
FelixInv == FelixBase /\ (raced \/ ~Overlap) /\ (~raced /\ MemoryGood => FelixSerial)

(* malloc had not failed before a state in which it has not.               *)
LEMMA FelixGoodBefore ==
  ASSUME FelixBase, fault = "none", felixOther \/ \E t \in Thread : felixThread(t), MemoryGood'
  PROVE  MemoryGood
<1>0. FelixTyped /\ FelixThreadTypes /\ FelixBarren
  BY DEF FelixBase, FelixTyped
<1>1. Tame
  BY FelixWildStays DEF MemoryGood
<1>2. ASSUME NEW u \in Thread, pc[u] \notin Started \cup {"none"} PROVE planetPointer[u] # Wild
  <2>0. pc[u] # "crashed"
    BY <1>0 DEF FelixBarren
  <2>1. CASE felixOther
    <3>1. UNCHANGED <<pc, planetPointer>>
      BY <1>0, <2>1, FelixOthersStep
    <3> QED
      BY <1>2, <2>0, <3>1 DEF MemoryGood
  <2>2. ASSUME NEW t \in Thread, felixThread(t), t # u PROVE planetPointer[u] # Wild
    <3>1. pc'[u] = pc[u] /\ planetPointer'[u] = planetPointer[u]
      BY <1>0, <2>2, FelixOthersStay
    <3> QED
      BY <1>2, <2>0, <3>1 DEF MemoryGood
  <2>3. CASE felixThread(u)
    <3>1. pc'[u] \notin Started \cup {"none"}
      BY <1>0, <1>2, <2>3, FelixPath
    <3>2. ~(pc'[u] = "crashed" /\ fault' = "add")
      <4>1. FelixTrip(u) => fault' # "add"
        BY <1>2 DEF FelixTrip, Crash, Started, Adding
      <4> QED
        BY <1>0, <2>3, <4>1, FelixPath
    <3>3. planetPointer'[u] # Wild
      BY <3>1, <3>2 DEF MemoryGood
    <3>4. ~FelixLink(u)
      BY <1>2 DEF FelixLink, Goto, Started, Adding
    <3>5. planetPointer' = planetPointer
      BY <2>3, <3>4 DEF felixThread, felixPlanet, CreateThread, CopyName, CopyRest, GravityTest,
         GravityPull, FelixAdd, FelixWalk, FelixStep, FelixTest, FelixMove, FelixSearch,
         FelixEnd, FelixOn, FelixTake, FelixLoad, FelixStore, FelixFree, FelixTrip, Crash
    <3> QED
      BY <3>3, <3>5
  <2> QED
    BY <2>1, <2>2, <2>3
<1> QED
  BY <1>1, <1>2 DEF MemoryGood

(* The list that others see stays, grows or shrinks.                       *)
FelixQuiet == next' = next /\ data' = data /\ FelixLinked' = FelixLinked
FelixGrown(t, n) ==
  /\ FelixLink(t) /\ FelixAdded(t, n) /\ n \notin FelixInList
  /\ FelixLinked' = FelixLinked \cup {n} /\ Felix!Longer(temp[t], n)
FelixShrunk(t, m) ==
  /\ FelixStore(t) /\ m \in FelixLinked /\ NameAt(m) = NameIn(t) /\ data' = data
  /\ FelixLinked' = FelixLinked \ {m} /\ Felix!Shorter(temp[t], m)

LEMMA FelixLinkedKept ==
  ASSUME FelixTyped, NEW t \in Thread, felixThread(t), pc[t] # "free",
         ~FelixStore(t), ~FelixLink(t)
  PROVE  UNCHANGED <<next, alloc, data>> /\ FelixLinked' = FelixLinked
<1>1. UNCHANGED <<next, alloc, data>>
  BY FelixListKept DEF FelixFree, Goto
<1>2. pc'[t] # "free"
  BY DEF felixThread, felixPlanet, CreateThread, CopyName, CopyRest, GravityTest, GravityPull,
     FelixAdd, FelixWalk, FelixStep, FelixTest, FelixMove, FelixSearch, FelixEnd, FelixOn,
     FelixTake, FelixLoad, FelixFree, FelixTrip, Crash, Goto, FelixTyped, FelixThreadTypes
<1>3. \A u \in Thread : /\ pc'[u] = "free" <=> pc[u] = "free"
                        /\ pc[u] = "free" => held'[u] = held[u]
  BY <1>2, FelixOthersStay
<1> QED
  BY <1>1, <1>3 DEF FelixLinked

LEMMA FelixFreeKept ==
  ASSUME FelixTyped, NEW t \in Thread, FelixFree(t)
  PROVE  FelixQuiet
<1>1. /\ next' = next /\ data' = data /\ held' = held /\ pc[t] = "free" /\ pc'[t] = "gone"
      /\ alloc' = alloc \ {held[t].node} /\ \A u \in Thread \ {t} : pc'[u] = pc[u]
  BY DEF FelixFree, Goto, FelixTyped, FelixThreadTypes
<1>2. ASSUME NEW n PROVE n \in FelixLinked' <=> n \in FelixLinked
  BY <1>1 DEF FelixLinked
<1> QED
  BY <1>1, <1>2 DEF FelixQuiet

LEMMA FelixListCases ==
  ASSUME FelixBase, fault = "none", ~Overlap, NEW t \in Thread, felixThread(t), FelixUpdater(t),
         MemoryGood'
  PROVE  \/ FelixQuiet /\ ~FelixLink(t)
         \/ \E n \in Node : FelixGrown(t, n)
         \/ \E m \in Node : FelixShrunk(t, m)
<1>0. FelixTyped /\ FelixThreadTypes /\ ListTypes /\ FelixBarren
  BY DEF FelixBase, FelixTyped
<1>1. CASE pc[t] # "free" /\ ~FelixStore(t) /\ ~FelixLink(t)
  BY <1>0, <1>1, FelixLinkedKept DEF FelixQuiet
<1>2. CASE pc[t] = "free"
  <2>1. FelixFree(t) \/ FelixTrip(t)
    BY <1>2 DEF felixThread, felixPlanet, CreateThread, CopyName, CopyRest, GravityTest,
       GravityPull, FelixAdd, FelixWalk, FelixStep, FelixLink, FelixTest, FelixMove, FelixSearch,
       FelixEnd, FelixOn, FelixTake, FelixLoad, FelixStore, Goto
  <2>2. ~FelixTrip(t)
    BY <1>2 DEF FelixTrip, FelixUpdater, Valid
  <2> QED
    BY <1>0, <1>2, <2>1, <2>2, FelixFreeKept DEF FelixLink, Goto
<1>3. CASE FelixLink(t)
  <2>1. /\ pc[t] = "link" /\ pc'[t] = "test" /\ planetPointer[t] = Wild
        /\ \A u \in Thread \ {t} : pc'[u] = pc[u] /\ pc[u] # "free"
    <3>1. pc[t] = "link" /\ pc' = [pc EXCEPT ![t] = "test"]
      BY <1>0, <1>3, FelixLinkCases
    <3>2. \A u \in Thread \ {t} : pc[u] # "free"
      BY <3>1 DEF Overlap, Adding, Removing
    <3> QED
      BY <1>0, <3>1, <3>2 DEF FelixBarren, FelixThreadTypes, Started, Adding
  <2>2. PICK n \in Node : FelixAdded(t, n)
    BY <1>0, <1>3, <2>1, FelixLinkCases DEF MemoryGood, Started, Adding
  <2>3. FelixLinked = alloc /\ FelixLinked' = alloc'
    BY <2>1 DEF FelixLinked
  <2>4. n \notin FelixInList /\ FelixLinked' = FelixLinked \cup {n}
    BY <2>2, <2>3, PointerAssumption DEF FelixAdded, FelixInList
  <2>5. Felix!Longer(temp[t], n)
    <3>1. temp[t] \in FelixInList /\ next[temp[t]] = NULL
      BY <2>1 DEF FelixUpdater, Updating, Adding
    <3> QED
      BY <2>2, <2>4, <3>1, FelixLists DEF FelixAdded, Felix!Longer
  <2> QED
    BY <1>3, <2>2, <2>4, <2>5 DEF FelixGrown
<1>4. CASE FelixStore(t)
  <2> DEFINE m == held[t].node
  <2>1. /\ pc[t] = "store" /\ pc' = [pc EXCEPT ![t] = "free"] /\ held' = held
        /\ next' = [next EXCEPT ![temp[t]] = held[t].succ] /\ UNCHANGED <<alloc, data>>
    BY <1>4 DEF FelixStore, Goto
  <2>2. /\ temp[t] \in FelixInList /\ m = next[temp[t]] /\ m \in FelixLinked
        /\ NameAt(m) = NameIn(t) /\ held[t].succ = next[m]
    BY <2>1 DEF FelixUpdater, Updating, Removing
  <2>3. pc'[t] = "free" /\ \A u \in Thread \ {t} : pc[u] # "free" /\ pc'[u] # "free"
    BY <1>0, <2>1 DEF Overlap, Removing, FelixThreadTypes
  <2>4. FelixLinked = alloc /\ FelixLinked' = alloc \ {m}
    <3>1. FelixLinked = alloc
      BY <2>1, <2>3 DEF FelixLinked
    <3>2. \A n : n \in FelixLinked' <=> n \in alloc \ {m}
      BY <2>1, <2>3 DEF FelixLinked
    <3> QED
      BY <3>1, <3>2
  <2> HIDE DEF m
  <2>5. Felix!Shorter(temp[t], m)
    BY <2>1, <2>2, <2>4, FelixLists DEF Felix!Shorter
  <2>6. m \in Node
    BY <1>0, <2>2 DEF FelixLinked, ListTypes
  <2> QED
    BY <1>4, <2>1, <2>2, <2>4, <2>5, <2>6 DEF FelixShrunk
<1> QED
  BY <1>1, <1>2, <1>3, <1>4

(* Numbered, a node of the list has a next unless it is the last.          *)
LEMMA FelixNextLinked ==
  ASSUME NEW pos \in [Node \cup {HeadNode} -> Nat], NEW len \in Nat, Felix!Chain(pos, len),
         NEW n \in FelixInList, next[n] # NULL
  PROVE  next[n] \in FelixLinked /\ pos[next[n]] = pos[n] + 1
BY FelixLists DEF Felix!Chain

(* removeFromList is not at the last node before it has found its name.    *)
LEMMA FelixSearchFinds ==
  ASSUME ListTypes, FelixUpdaters, NEW pos \in [Node \cup {HeadNode} -> Nat], NEW len \in Nat,
         Felix!Chain(pos, len), FelixAhead(pos), NEW t \in Thread, pc[t] \in FelixSearching
  PROVE  /\ next[temp[t]] \in FelixLinked /\ pos[next[temp[t]]] = pos[temp[t]] + 1
         /\ temp[t] \in FelixInList
<1>1. temp[t] \in FelixInList
  BY DEF FelixUpdaters, FelixUpdater, FelixSearching, Updating, Removing
<1>2. PICK m \in FelixLinked : pos[m] > pos[temp[t]]
  BY DEF FelixAhead
<1>3. pos[m] \in 1 .. len
  BY FelixLists DEF Felix!Chain
<1>4. pos[temp[t]] # len
  BY <1>2, <1>3
<1>5. next[temp[t]] # NULL
  BY <1>1, <1>4, FelixLists DEF Felix!Chain
<1> QED
  BY <1>1, <1>5, FelixNextLinked

(* Pointers followed in addToList and in removeFromList are good.          *)
LEMMA FelixWalksSafe ==
  ASSUME ListTypes, FelixUpdaters, FelixOrdered, NEW t \in Thread
  PROVE  /\ pc[t] \in Updating \ {"free"} => Valid(temp[t])
         /\ pc[t] \in {"step", "search", "load"} => ValidNext(temp[t])
         /\ pc[t] = "free" => Valid(held[t].node)
         /\ pc[t] \in FelixSearching \cup {"step"} =>
              next[temp[t]] \in FelixLinked /\ temp[t] \in FelixInList
<1>1. PICK pos \in [Node \cup {HeadNode} -> Nat], len \in Nat :
        Felix!Chain(pos, len) /\ FelixAhead(pos)
  BY DEF FelixOrdered
<1>2. FelixUpdater(t)
  BY DEF FelixUpdaters
<1>3. pc[t] \in Updating \ {"free"} => temp[t] \in FelixInList
  BY <1>2 DEF FelixUpdater
<1>4. \A n \in FelixInList : Valid(n)
  BY DEF FelixInList, FelixLinked, Valid
<1>5. CASE pc[t] \in FelixSearching
  <2>1. next[temp[t]] \in FelixLinked /\ temp[t] \in FelixInList
    BY <1>1, <1>5, FelixSearchFinds
  <2> QED
    BY <1>3, <1>4, <1>5, <2>1 DEF ValidNext, FelixSearching, FelixInList
<1>6. CASE pc[t] = "step"
  <2>1. temp[t] \in FelixInList /\ next[temp[t]] # NULL
    BY <1>2, <1>6 DEF FelixUpdater, Updating, Adding
  <2>2. next[temp[t]] \in FelixLinked
    BY <1>1, <2>1, FelixNextLinked
  <2> QED
    BY <1>4, <1>6, <2>1, <2>2 DEF ValidNext, FelixSearching, FelixInList
<1>7. CASE pc[t] = "load"
  <2>1. temp[t] \in FelixInList /\ next[temp[t]] \in FelixLinked
    BY <1>2, <1>7 DEF FelixUpdater, Updating, Removing
  <2> QED
    BY <1>4, <1>7, <2>1 DEF ValidNext, FelixSearching, FelixInList
<1>8. CASE pc[t] = "free"
  BY <1>2, <1>8 DEF FelixUpdater, Valid, FelixSearching
<1>9. CASE pc[t] \notin FelixSearching \cup {"step", "load", "free"}
  BY <1>3, <1>4, <1>9 DEF FelixSearching
<1> QED
  BY <1>5, <1>6, <1>7, <1>8, <1>9 DEF FelixSearching

(* Nothing of this is about the mail thread or the drawer.                 *)
LEMMA FelixSame ==
  ASSUME UNCHANGED <<next, alloc, data, pc, args, planetPointer, temp>>, FelixSerial,
         \A t \in Thread : held'[t] = held[t], fault' \notin {"add", "remove"}
  PROVE  FelixSerial'
<1>1. FelixLinked' = FelixLinked /\ FelixInList' = FelixInList /\ FelixOrbiting' = FelixOrbiting
  BY DEF FelixLinked, FelixInList, FelixOrbiting
<1>2. FelixUpdaters'
  BY <1>1 DEF FelixSerial, FelixUpdaters, FelixUpdater, NameAt, NameIn
<1>3. FelixOrdered'
  <2>1. PICK pos \in [Node \cup {HeadNode} -> Nat], len \in Nat :
          Felix!Chain(pos, len) /\ FelixAhead(pos)
    BY DEF FelixSerial, FelixOrdered
  <2>2. Felix!Chain(pos, len)'
    BY <1>1, <2>1, FelixLists DEF Felix!Chain
  <2>3. FelixAhead(pos)'
    BY <1>1, <2>1 DEF FelixAhead, NameAt, NameIn
  <2> QED
    BY <2>2, <2>3 DEF FelixOrdered
<1>4. FelixOwners' /\ FelixOwnPlanets'
  BY <1>1 DEF FelixSerial, FelixOwners, FelixOwnedBy, FelixOwnPlanets, NameAt, NameIn,
     NamesDistinct, Named
<1> QED
  BY <1>2, <1>3, <1>4 DEF FelixSerial

LEMMA FelixOtherSerial ==
  ASSUME FelixBase, fault = "none", felixOther, MemoryGood', FelixSerial
  PROVE  FelixSerial'
<1>0. FelixTyped /\ ListTypes /\ FelixBarren
  BY DEF FelixBase, FelixTyped
<1>1. /\ UNCHANGED <<alloc, data, life, mutex, pc, args, planetPointer, temp>>
      /\ \A t \in Thread : held'[t] = held[t]
      /\ InitList \/ next' = next
  BY <1>0, FelixOthersStep
<1>2. next' = next
  <2>1. CASE InitList
    <3>1. next[HeadNode] = NULL
      BY <1>0, <2>1 DEF InitList, FelixBarren
    <3> QED
      <4>1. next'[HeadNode] # Wild
        BY DEF MemoryGood, Tame
      <4> QED
        BY <1>0, <2>1, <3>1, <4>1, PointerAssumption DEF InitList, ListTypes
  <2> QED
    BY <1>1, <2>1
<1>3. fault' \notin {"add", "remove"}
  BY DEF FelixSerial, felixOther, mailStep, InitList, ReadRequest, WriteName, WriteRest, CreateNone,
     felixDrawing, FelixDrawBegin, FelixDrawTest, FelixDrawCall, FelixDrawPlanet, FelixDrawOn,
     FelixDrawTrip, drawUnchanged
<1> QED
  BY <1>1, <1>2, <1>3, FelixSame

(* Only one thread updates, so that the others find what they have seen.   *)
LEMMA FelixOneUpdates ==
  ASSUME FelixTyped, ~Overlap, ~Overlap', NEW t \in Thread, felixThread(t),
         NEW u \in Thread, u # t, pc[u] \in Updating
  PROVE  UNCHANGED <<next, alloc, data>> /\ FelixLinked' = FelixLinked
<1>1. pc[t] \notin Updating /\ pc'[t] \notin Updating
  BY FelixOthersStay DEF Overlap, Updating
<1>2. pc[t] # "free" /\ ~FelixStore(t) /\ ~FelixLink(t)
  BY <1>1 DEF FelixStore, FelixLink, Goto, Updating, Adding, Removing
<1> QED
  BY <1>2, FelixLinkedKept

LEMMA FelixUpdaterMoves ==
  ASSUME FelixBase, fault = "none", ~Overlap, ~Overlap', Tame, FelixSerial, NEW t \in Thread,
         felixThread(t)
  PROVE  FelixUpdater(t)'
<1>0. /\ FelixTyped /\ FelixThreadTypes /\ FelixOtherTypes /\ ListTypes
      /\ FelixUpdaters /\ FelixUpdater(t) /\ FelixOrdered
  BY DEF FelixBase, FelixTyped, FelixSerial, FelixUpdaters
<1>1. pc[t] # "free" /\ ~FelixStore(t) /\ ~FelixLink(t) =>
        UNCHANGED <<next, alloc, data>> /\ FelixInList' = FelixInList /\ FelixLinked' = FelixLinked
  BY <1>0, FelixLinkedKept DEF FelixInList
<1>2. HeadNode \in FelixInList /\ FelixLinked \subseteq FelixInList
  BY DEF FelixInList
<1> USE DEF Updating, Adding, Removing, FelixSearching
<1>3. CASE pc'[t] \notin Updating
  BY <1>3 DEF FelixUpdater
<1>4. CASE FelixAdd(t)
  <2>0. headGlob = HeadNode
    BY <1>4, FelixHeadRead DEF FelixAdd, Goto
  <2>1. pc[t] = "lock add" /\ pc'[t] = "walk" /\ temp'[t] = HeadNode
    BY <1>0, <1>4, <2>0 DEF FelixAdd, Goto, FelixThreadTypes
  <2>2. FelixInList' = FelixInList
    BY <1>1, <1>4, <2>1 DEF FelixStore, FelixLink, Goto
  <2> QED
    BY <1>2, <2>1, <2>2 DEF FelixUpdater
<1>5. CASE FelixWalk(t)
  <2>1. /\ pc[t] = "walk" /\ temp' = temp
        /\ pc'[t] = (IF next[temp[t]] = NULL THEN "link" ELSE "step")
    BY <1>0, <1>5 DEF FelixWalk, Goto, FelixThreadTypes
  <2>2. FelixInList' = FelixInList /\ next' = next
    BY <1>1, <1>5, <2>1 DEF FelixStore, FelixLink, Goto
  <2> QED
    BY <1>0, <2>1, <2>2 DEF FelixUpdater
<1>6. CASE FelixStep(t) \/ FelixOn(t)
  <2>1. pc[t] \in {"step", "on"} /\ pc'[t] \in {"walk", "search"} /\ temp'[t] = next[temp[t]]
    BY <1>0, <1>6 DEF FelixStep, FelixOn, Goto, FelixThreadTypes
  <2>2. FelixInList' = FelixInList /\ next[temp[t]] \in FelixLinked
    BY <1>0, <1>1, <1>6, <2>1, FelixWalksSafe DEF FelixStore, FelixLink, Goto
  <2> QED
    BY <1>2, <2>1, <2>2 DEF FelixUpdater
<1>7. CASE FelixTest(t)
  <2>0. headGlob = HeadNode
    BY <1>7, FelixHeadRead DEF FelixTest
  <2>1. /\ pc[t] = "test" /\ pc'[t] \in {"search", "gravity"}
        /\ pc'[t] = "search" => temp'[t] = HeadNode
    BY <1>0, <1>7, <2>0 DEF FelixTest, Goto, FelixThreadTypes
  <2>2. FelixInList' = FelixInList
    BY <1>1, <1>7, <2>1 DEF FelixStore, FelixLink, Goto
  <2> QED
    BY <1>2, <2>1, <2>2 DEF FelixUpdater
<1>8. CASE FelixSearch(t)
  <2>1. /\ pc[t] = "search" /\ temp' = temp /\ args' = args
        /\ pc'[t] = (IF NameAt(next[temp[t]]) = NameIn(t) THEN "take" ELSE "end")
    BY <1>0, <1>8 DEF FelixSearch, Goto, FelixThreadTypes, felixRest
  <2>2. UNCHANGED <<next, data>> /\ FelixInList' = FelixInList /\ FelixLinked' = FelixLinked
    BY <1>1, <1>8, <2>1 DEF FelixStore, FelixLink, Goto
  <2>3. next[temp[t]] \in FelixLinked /\ temp[t] \in FelixInList
    BY <1>0, <2>1, FelixWalksSafe
  <2> QED
    BY <2>1, <2>2, <2>3 DEF FelixUpdater, NameAt, NameIn
<1>9. CASE FelixEnd(t)
  <2>1. /\ pc[t] = "end" /\ temp' = temp /\ args' = args
        /\ pc'[t] \in {"gone", "on"}
    BY <1>0, <1>9 DEF FelixEnd, Goto, FelixThreadTypes, felixRest
  <2>2. UNCHANGED <<next, data>> /\ FelixInList' = FelixInList
    BY <1>1, <1>9, <2>1 DEF FelixStore, FelixLink, Goto
  <2> QED
    BY <1>0, <2>1, <2>2 DEF FelixUpdater, NameAt, NameIn
<1>10. CASE FelixTake(t)
  <2>1. /\ pc[t] = "take" /\ pc'[t] = "load" /\ temp' = temp /\ args' = args
        /\ held'[t].node = next[temp[t]]
    BY <1>0, <1>10 DEF FelixTake, Goto, FelixThreadTypes, FelixOtherTypes, felixRest
  <2>2. UNCHANGED <<next, data>> /\ FelixInList' = FelixInList /\ FelixLinked' = FelixLinked
    BY <1>1, <1>10, <2>1 DEF FelixStore, FelixLink, Goto
  <2> QED
    BY <1>0, <2>1, <2>2 DEF FelixUpdater, NameAt, NameIn
<1>11. CASE FelixLoad(t)
  <2>1. /\ pc[t] = "load" /\ pc'[t] = "store" /\ temp' = temp /\ args' = args
        /\ held'[t].node = held[t].node /\ held'[t].succ = next[next[temp[t]]]
    BY <1>0, <1>11 DEF FelixLoad, Goto, FelixThreadTypes, FelixOtherTypes, felixRest
  <2>2. UNCHANGED <<next, data>> /\ FelixInList' = FelixInList /\ FelixLinked' = FelixLinked
    BY <1>1, <1>11, <2>1 DEF FelixStore, FelixLink, Goto
  <2> QED
    BY <1>0, <2>1, <2>2 DEF FelixUpdater, NameAt, NameIn
<1>12. CASE FelixStore(t)
  <2>1. pc[t] = "store" /\ pc'[t] = "free" /\ UNCHANGED <<alloc, held>>
    BY <1>0, <1>12 DEF FelixStore, Goto, FelixThreadTypes
  <2>2. held[t].node \in alloc
    BY <1>0, <2>1 DEF FelixUpdater, FelixLinked
  <2> QED
    BY <2>1, <2>2 DEF FelixUpdater
<1>13. \/ pc'[t] \notin Updating \/ FelixAdd(t) \/ FelixWalk(t) \/ FelixStep(t) \/ FelixOn(t)
       \/ FelixTest(t) \/ FelixSearch(t) \/ FelixEnd(t) \/ FelixTake(t) \/ FelixLoad(t)
       \/ FelixStore(t)
  BY <1>0 DEF felixThread, felixPlanet, CreateThread, CopyName, CopyRest, GravityTest, GravityPull,
     FelixLink, FelixMove, FelixFree, FelixTrip, Crash, Goto, FelixThreadTypes
<1> QED
  BY <1>3, <1>4, <1>5, <1>6, <1>7, <1>8, <1>9, <1>10, <1>11, <1>12, <1>13

LEMMA FelixUpdatersStep ==
  ASSUME FelixBase, fault = "none", ~Overlap, ~Overlap', MemoryGood', FelixSerial,
         NEW t \in Thread, felixThread(t)
  PROVE  FelixUpdaters'
<1>0. FelixTyped
  BY DEF FelixBase
<1>1. ASSUME NEW u \in Thread, u # t PROVE FelixUpdater(u)'
  <2>1. /\ pc'[u] = pc[u] /\ args'[u] = args[u] /\ temp'[u] = temp[u] /\ held'[u] = held[u]
    BY <1>0, <1>1, FelixOthersStay
  <2>2. CASE pc[u] \notin Updating
    BY <2>1, <2>2 DEF FelixUpdater, Updating, Adding, Removing
  <2>3. CASE pc[u] \in Updating
    <3>1. UNCHANGED <<next, alloc, data>> /\ FelixLinked' = FelixLinked
      BY <1>0, <1>1, <2>3, FelixOneUpdates
    <3> QED
      BY <2>1, <3>1 DEF FelixSerial, FelixUpdaters, FelixUpdater, FelixInList, NameAt, NameIn
  <2> QED
    BY <2>2, <2>3
<1> QED
  BY <1>1, FelixGoodBefore, FelixUpdaterMoves DEF FelixUpdaters, MemoryGood

(* Planets come to be in orbit when they are added.                        *)
LEMMA FelixOrbits ==
  ASSUME FelixTyped, NEW t \in Thread, felixThread(t)
  PROVE  /\ \A u \in FelixOrbiting' : /\ u \in Thread /\ args'[u] = args[u]
                                      /\ u \in FelixOrbiting \/ (u = t /\ FelixLink(t))
         /\ ~FelixLink(t) => planetPointer' = planetPointer
<1>1. \A u \in Thread \ {t} : pc'[u] = pc[u] /\ args'[u] = args[u]
  BY FelixOthersStay
<1>2. t \in FelixOrbiting' => t \in FelixOrbiting \/ FelixLink(t)
  BY DEF FelixOrbiting, felixThread, felixPlanet, CreateThread, CopyName, CopyRest, GravityTest,
     GravityPull, FelixAdd, FelixWalk, FelixStep, FelixTest, FelixMove, FelixSearch, FelixEnd,
     FelixOn, FelixTake, FelixLoad, FelixStore, FelixFree, FelixTrip, Crash, Goto, Removing,
     FelixTyped, FelixThreadTypes
<1>3. t \in FelixOrbiting' => args' = args
  <2>1. CASE CopyName(t) \/ CopyRest(t)
    BY <2>1 DEF CopyName, CopyRest, Goto, FelixOrbiting, Removing, FelixTyped, FelixThreadTypes
  <2>2. CASE ~CopyName(t) /\ ~CopyRest(t)
    BY <2>2 DEF felixThread, felixPlanet, CreateThread, GravityTest, GravityPull, FelixAdd,
       FelixWalk, FelixStep, FelixLink, FelixTest, FelixMove, FelixSearch, FelixEnd, FelixOn,
       FelixTake, FelixLoad, FelixStore, FelixFree, FelixTrip, Crash, felixRest
  <2> QED
    BY <2>1, <2>2
<1>4. ~FelixLink(t) => planetPointer' = planetPointer
  BY DEF felixThread, felixPlanet, CreateThread, CopyName, CopyRest, GravityTest, GravityPull,
     FelixAdd, FelixWalk, FelixStep, FelixTest, FelixMove, FelixSearch, FelixEnd, FelixOn,
     FelixTake, FelixLoad, FelixStore, FelixFree, FelixTrip, Crash
<1> QED
  BY <1>1, <1>2, <1>3, <1>4 DEF FelixOrbiting

(* removeFromList has a node of its name ahead until it is there.          *)
LEMMA FelixAheadMoves ==
  ASSUME FelixBase, ~Overlap, ~Overlap', Tame, FelixSerial, NEW t \in Thread, felixThread(t),
         NEW pos \in [Node \cup {HeadNode} -> Nat], NEW len \in Nat,
         Felix!Chain(pos, len), FelixAhead(pos), FelixQuiet
  PROVE  FelixAhead(pos)'
<1>0. /\ FelixTyped /\ FelixThreadTypes /\ ListTypes /\ FelixUpdaters /\ FelixUpdater(t)
      /\ FelixOwners
  BY DEF FelixBase, FelixTyped, FelixSerial, FelixUpdaters
<1>1. next' = next /\ data' = data /\ FelixLinked' = FelixLinked
  BY DEF FelixQuiet
<1>2. ASSUME NEW u \in Thread, u # t, pc'[u] \in FelixSearching
      PROVE  \E m \in FelixLinked' : NameAt(m)' = NameIn(u)' /\ pos[m] > pos[temp'[u]]
  <2>1. pc'[u] = pc[u] /\ args'[u] = args[u] /\ temp'[u] = temp[u]
    BY <1>0, <1>2, FelixOthersStay
  <2> QED
    BY <1>1, <1>2, <2>1 DEF FelixAhead, NameAt, NameIn
<1>3. ASSUME pc'[t] \in FelixSearching
      PROVE  \E m \in FelixLinked' : NameAt(m)' = NameIn(t)' /\ pos[m] > pos[temp'[t]]
  <2>1. FelixTest(t) \/ FelixSearch(t) \/ FelixEnd(t) \/ FelixOn(t)
    BY <1>0, <1>3 DEF felixThread, felixPlanet, CreateThread, CopyName, CopyRest, GravityTest,
       GravityPull, FelixAdd, FelixWalk, FelixStep, FelixLink, FelixMove, FelixTake, FelixLoad,
       FelixStore, FelixFree, FelixTrip, Crash, Goto, FelixThreadTypes, FelixSearching
  <2>2. args' = args
    BY <2>1 DEF FelixTest, FelixSearch, FelixEnd, FelixOn, felixRest
  <2>3. CASE FelixTest(t)
    <3>0. headGlob = HeadNode
      BY <2>3, FelixHeadRead DEF FelixTest
    <3>1. pc[t] = "test" /\ temp'[t] = HeadNode
      BY <1>0, <1>3, <2>3, <3>0 DEF FelixTest, Goto, FelixThreadTypes, FelixSearching
    <3>2. PICK own \in [Thread -> Node \cup {HeadNode}] : FelixOwnedBy(own)
      BY <1>0 DEF FelixOwners
    <3>3. own[t] \in FelixLinked /\ NameAt(own[t]) = NameIn(t)
      BY <3>1, <3>2 DEF FelixOwnedBy, FelixOrbiting
    <3>4. pos[HeadNode] = 0 /\ pos[own[t]] \in 1 .. len
      BY <3>3, FelixLists DEF Felix!Chain
    <3>5. pos[own[t]] > pos[temp'[t]]
      BY <3>1, <3>4
    <3> QED
      BY <1>1, <2>2, <3>3, <3>5 DEF NameAt, NameIn
  <2>4. CASE FelixSearch(t) \/ FelixEnd(t)
    <3>1. pc[t] \in FelixSearching /\ temp' = temp
      BY <2>4 DEF FelixSearch, FelixEnd, Goto, FelixSearching
    <3> QED
      BY <1>1, <2>2, <3>1 DEF FelixAhead, NameAt, NameIn
  <2>5. CASE FelixOn(t)
    <3>1. pc[t] = "on" /\ temp'[t] = next[temp[t]]
      BY <1>0, <2>5 DEF FelixOn, Goto, FelixThreadTypes
    <3>2. PICK m \in FelixLinked : NameAt(m) = NameIn(t) /\ pos[m] > pos[temp[t]]
      BY <3>1 DEF FelixAhead, FelixSearching
    <3>3. next[temp[t]] \in FelixLinked /\ pos[next[temp[t]]] = pos[temp[t]] + 1
          /\ temp[t] \in FelixInList
      BY <1>0, <3>1, FelixSearchFinds DEF FelixSearching
    <3>4. m # next[temp[t]]
      BY <1>0, <3>1, <3>2 DEF FelixUpdater
    <3>5. pos[m] # pos[next[temp[t]]]
      BY <3>2, <3>3, <3>4, FelixLists DEF Felix!Chain
    <3>6. pos[m] \in Nat /\ pos[temp[t]] \in Nat
      BY <1>0, <3>2, <3>3 DEF FelixInList, FelixLinked, ListTypes
    <3>7. pos[m] > pos[temp'[t]]
      BY <3>1, <3>2, <3>3, <3>5, <3>6
    <3> QED
      BY <1>1, <2>2, <3>2, <3>7 DEF NameAt, NameIn
  <2> QED
    BY <2>1, <2>3, <2>4, <2>5
<1> QED
  BY <1>2, <1>3 DEF FelixAhead

LEMMA FelixOrderedStep ==
  ASSUME FelixBase, fault = "none", ~Overlap, ~Overlap', MemoryGood', FelixSerial,
         NEW t \in Thread, felixThread(t)
  PROVE  FelixOrdered'
<1>0. /\ FelixTyped /\ FelixThreadTypes /\ ListTypes /\ FelixUpdater(t)
      /\ Felix!ListTypes
  BY DEF FelixBase, FelixTyped, FelixSerial, FelixUpdaters, Felix!ListTypes, ListTypes,
     Felix!Pointer, Pointer, Felix!Copy, Copy
<1>1. PICK pos \in [Node \cup {HeadNode} -> Nat], len \in Nat :
        Felix!Chain(pos, len) /\ FelixAhead(pos)
  BY DEF FelixSerial, FelixOrdered
<1>2. CASE FelixQuiet
  <2>1. Felix!Chain(pos, len)'
    BY <1>1, <1>2, FelixLists DEF Felix!Chain, FelixQuiet, FelixInList
  <2>2. FelixAhead(pos)'
    BY <1>1, <1>2, FelixGoodBefore, FelixAheadMoves DEF MemoryGood
  <2> QED
    BY <2>1, <2>2 DEF FelixOrdered
<1>3. ASSUME pc[t] \in Updating, pc'[t] \notin FelixSearching, NEW pos2 PROVE FelixAhead(pos2)'
  <2>1. \A u \in Thread \ {t} : pc'[u] \notin FelixSearching
    BY <1>0, <1>3, FelixOthersStay DEF Overlap, Updating, FelixSearching, Removing
  <2> QED
    BY <1>3, <2>1 DEF FelixAhead
<1>4. ASSUME NEW n \in Node, FelixGrown(t, n) PROVE FelixOrdered'
  <2> DEFINE pos2 == [pos EXCEPT ![n] = len + 1]
  <2>1. pos2 \in [Node \cup {HeadNode} -> Nat] /\ len + 1 \in Nat
    OBVIOUS
  <2>2. Felix!Longer(temp[t], n)
    BY <1>4 DEF FelixGrown
  <2>3. Felix!Chain(pos2, len + 1)'
    BY <1>0, <1>1, <2>2, Felix!ChainGrows, FelixAssumptions
  <2> HIDE DEF pos2
  <2>4. pc[t] \in Updating /\ pc'[t] = "test"
    BY <1>0, <1>4, FelixLinkCases DEF FelixGrown, Updating, Adding
  <2>5. FelixAhead(pos2)'
    BY <1>3, <2>4 DEF FelixSearching
  <2> QED
    BY <2>1, <2>3, <2>5 DEF FelixOrdered
<1>5. ASSUME NEW m \in Node, FelixShrunk(t, m) PROVE FelixOrdered'
  <2>1. Felix!Shorter(temp[t], m)
    BY <1>5 DEF FelixShrunk
  <2>2. PICK pos2 \in [Node \cup {HeadNode} -> Nat] :
          len - 1 \in Nat /\ Felix!Chain(pos2, len - 1)'
    BY <1>0, <1>1, <2>1, Felix!ChainShrinks, FelixAssumptions
  <2>3. pc[t] \in Updating /\ pc'[t] = "free"
    BY <1>0, <1>5 DEF FelixShrunk, FelixStore, Goto, Updating, Removing, FelixThreadTypes
  <2>4. FelixAhead(pos2)'
    BY <1>3, <2>3 DEF FelixSearching
  <2> QED
    BY <2>2, <2>4 DEF FelixOrdered
<1> QED
  BY <1>0, <1>2, <1>4, <1>5, FelixListCases

LEMMA FelixOwnersStep ==
  ASSUME FelixBase, fault = "none", ~Overlap, MemoryGood', FelixSerial,
         NEW t \in Thread, felixThread(t)
  PROVE  FelixOwners'
<1>0. FelixTyped /\ FelixThreadTypes /\ ListTypes /\ FelixUpdater(t)
  BY DEF FelixBase, FelixTyped, FelixSerial, FelixUpdaters
<1>1. PICK own \in [Thread -> Node \cup {HeadNode}] : FelixOwnedBy(own)
  BY DEF FelixSerial, FelixOwners
<1>2. \A u \in FelixOrbiting' : /\ u \in Thread /\ args'[u] = args[u]
                                /\ u \in FelixOrbiting \/ (u = t /\ FelixLink(t))
  BY <1>0, FelixOrbits
<1>3. CASE FelixQuiet /\ ~FelixLink(t)
  <2>1. FelixOwnedBy(own)'
    BY <1>1, <1>2, <1>3 DEF FelixOwnedBy, FelixQuiet, NameAt, NameIn
  <2> QED
    BY <2>1 DEF FelixOwners
<1>4. ASSUME NEW n \in Node, FelixGrown(t, n) PROVE FelixOwners'
  <2> DEFINE own2 == [own EXCEPT ![t] = n]
  <2>1. own2 \in [Thread -> Node \cup {HeadNode}] /\ own2[t] = n
        /\ \A u \in Thread \ {t} : own2[u] = own[u]
    BY <1>1
  <2>2. data' = [data EXCEPT ![n] = args[t]] /\ FelixLinked' = FelixLinked \cup {n}
        /\ n \notin FelixLinked /\ FelixLinked \subseteq Node
    BY <1>0, <1>4 DEF FelixGrown, FelixAdded, FelixInList, FelixLinked, ListTypes
  <2>3. t \in FelixOrbiting' => NameAt(n)' = NameIn(t)'
    BY <1>0, <1>2, <2>2 DEF NameAt, NameIn, ListTypes
  <2>4. \A u \in FelixOrbiting' \ {t} : /\ u \in FelixOrbiting /\ u \in Thread
                                        /\ own[u] \in FelixLinked /\ NameAt(own[u]) = NameIn(u)
    BY <1>1, <1>2 DEF FelixOwnedBy
  <2>5. \A u \in FelixOrbiting' \ {t} : data'[own[u]] = data[own[u]]
    BY <1>0, <2>2, <2>4 DEF ListTypes
  <2>6. \A u \in FelixOrbiting' \ {t} : NameOf[data'[own[u]].name] = NameIn(u)'
    BY <1>2, <2>4, <2>5 DEF NameAt, NameIn
  <2>7. \A u, v \in FelixOrbiting' : own2[u] = own2[v] => u = v
    BY <1>1, <2>1, <2>2, <2>4 DEF FelixOwnedBy
  <2> HIDE DEF own2
  <2>8. FelixOwnedBy(own2)'
    BY <2>1, <2>2, <2>3, <2>4, <2>6, <2>7 DEF FelixOwnedBy, NameAt
  <2> QED
    BY <2>1, <2>8 DEF FelixOwners
<1>5. ASSUME NEW m \in Node, FelixShrunk(t, m) PROVE FelixOwners'
  <2>1. /\ pc[t] = "store" /\ pc'[t] = "free" /\ NameAt(m) = NameIn(t) /\ ~FelixLink(t)
        /\ data' = data /\ m \in FelixLinked /\ FelixLinked' = FelixLinked \ {m}
    BY <1>0, <1>5 DEF FelixShrunk, FelixStore, FelixLink, Goto, FelixThreadTypes
  <2>2. t \in FelixOrbiting /\ t \notin FelixOrbiting'
    BY <2>1 DEF FelixOrbiting, Removing
  <2>3. \A u \in FelixOrbiting' : u \in FelixOrbiting /\ u # t /\ args'[u] = args[u]
    BY <1>2, <2>1, <2>2
  <2>4. CASE \A u \in FelixOrbiting : own[u] # m \/ u = t
    <3>1. FelixOwnedBy(own)'
      BY <1>1, <2>1, <2>3, <2>4 DEF FelixOwnedBy, NameAt, NameIn
    <3> QED
      BY <3>1 DEF FelixOwners
  <2>5. ASSUME NEW w \in FelixOrbiting, own[w] = m, w # t PROVE FelixOwners'
    <3> DEFINE own2 == [own EXCEPT ![w] = own[t]]
    <3>1. w \in Thread /\ \A u \in FelixOrbiting : u \in Thread
      BY DEF FelixOrbiting
    <3>2. own2 \in [Thread -> Node \cup {HeadNode}] /\ own2[w] = own[t]
          /\ \A u \in Thread \ {w} : own2[u] = own[u]
      BY <1>1, <3>1
    <3>3. own[t] \in FelixLinked /\ own[t] # m /\ NameAt(own[t]) = NameIn(w)
      BY <1>1, <2>1, <2>2, <2>5 DEF FelixOwnedBy
    <3> HIDE DEF own2
    <3>4. \A u \in FelixOrbiting' : own2[u] \in FelixLinked' /\ NameAt(own2[u]) = NameIn(u)
      BY <1>1, <2>1, <2>3, <2>5, <3>1, <3>2, <3>3 DEF FelixOwnedBy
    <3>5. \A u, v \in FelixOrbiting' : own2[u] = own2[v] => u = v
      BY <1>1, <2>2, <2>3, <2>5, <3>1, <3>2 DEF FelixOwnedBy
    <3>6. FelixOwnedBy(own2)'
      BY <2>1, <2>3, <3>4, <3>5 DEF FelixOwnedBy, NameAt, NameIn
    <3> QED
      BY <3>2, <3>6 DEF FelixOwners
  <2> QED
    BY <2>4, <2>5
<1> QED
  BY <1>0, <1>3, <1>4, <1>5, FelixListCases

LEMMA FelixOwnPlanetsStep ==
  ASSUME FelixBase, fault = "none", ~Overlap, MemoryGood', FelixSerial,
         NEW t \in Thread, felixThread(t)
  PROVE  FelixOwnPlanets'
<1>0. FelixTyped /\ FelixThreadTypes /\ ListTypes /\ FelixUpdater(t)
  BY DEF FelixBase, FelixTyped, FelixSerial, FelixUpdaters
<1>1. SUFFICES ASSUME NamesDistinct'
               PROVE  \A u \in FelixOrbiting' : planetPointer'[u] \in FelixLinked'
                                                /\ data'[planetPointer'[u]] = args'[u]
  BY DEF FelixOwnPlanets
<1>2. NamesDistinct
  <2>1. \A u \in Thread : pc[u] \notin {"none", "name"} =>
          pc'[u] \notin {"none", "name"} /\ args'[u].name = args[u].name
    <3>1. \A u \in Thread \ {t} : pc'[u] = pc[u] /\ args'[u] = args[u]
      BY <1>0, FelixOthersStay
    <3>2. pc[t] \notin {"none", "name"} => pc'[t] \notin {"none", "name"}
      BY <1>0 DEF felixThread, felixPlanet, CreateThread, CopyName, CopyRest, GravityTest,
         GravityPull, FelixAdd, FelixWalk, FelixStep, FelixLink, FelixTest, FelixMove, FelixSearch,
         FelixEnd, FelixOn, FelixTake, FelixLoad, FelixStore, FelixFree, FelixTrip, Crash, Goto,
         FelixThreadTypes
    <3>3. pc[t] \notin {"none", "name"} => args' = args \/ CopyRest(t)
      BY DEF felixThread, felixPlanet, CreateThread, CopyName, GravityTest, GravityPull, FelixAdd,
         FelixWalk, FelixStep, FelixLink, FelixTest, FelixMove, FelixSearch, FelixEnd, FelixOn,
         FelixTake, FelixLoad, FelixStore, FelixFree, FelixTrip, Crash, Goto, felixRest
    <3>4. CopyRest(t) => args'[t].name = args[t].name
      BY <1>0 DEF CopyRest, FelixThreadTypes, Copy
    <3> QED
      BY <3>1, <3>2, <3>3, <3>4
  <2> QED
    BY <1>1, <2>1 DEF NamesDistinct, Named, NameIn
<1>3. \A u \in FelixOrbiting : /\ u \in Thread /\ u \in Named
                               /\ planetPointer[u] \in FelixLinked
                               /\ data[planetPointer[u]] = args[u]
  BY <1>2 DEF FelixSerial, FelixOwnPlanets, FelixOrbiting, Named, Removing
<1>4. /\ \A u \in FelixOrbiting' : /\ u \in Thread /\ args'[u] = args[u]
                                   /\ u \in FelixOrbiting \/ (u = t /\ FelixLink(t))
      /\ ~FelixLink(t) => planetPointer' = planetPointer
  BY <1>0, FelixOrbits
<1>5. CASE FelixQuiet /\ ~FelixLink(t)
  BY <1>3, <1>4, <1>5 DEF FelixQuiet
<1>6. ASSUME NEW n \in Node, FelixGrown(t, n)
      PROVE  \A u \in FelixOrbiting' : planetPointer'[u] \in FelixLinked'
                                       /\ data'[planetPointer'[u]] = args'[u]
  <2>1. /\ data' = [data EXCEPT ![n] = args[t]] /\ FelixLinked' = FelixLinked \cup {n}
        /\ n \notin FelixLinked /\ FelixLinked \subseteq Node
        /\ planetPointer' = [planetPointer EXCEPT ![t] = n]
    BY <1>0, <1>6 DEF FelixGrown, FelixAdded, FelixInList, FelixLinked, ListTypes
  <2>2. planetPointer'[t] = n /\ data'[n] = args[t]
    BY <1>0, <2>1 DEF FelixThreadTypes, ListTypes
  <2>3. \A u \in FelixOrbiting' \ {t} : /\ planetPointer'[u] \in FelixLinked
                                        /\ data[planetPointer'[u]] = args'[u]
    BY <1>0, <1>3, <1>4, <2>1 DEF FelixThreadTypes
  <2>4. \A p \in FelixLinked : data'[p] = data[p]
    BY <1>0, <2>1 DEF ListTypes
  <2> QED
    BY <1>4, <2>1, <2>2, <2>3, <2>4
<1>7. ASSUME NEW m \in Node, FelixShrunk(t, m)
      PROVE  \A u \in FelixOrbiting' : planetPointer'[u] \in FelixLinked'
                                       /\ data'[planetPointer'[u]] = args'[u]
  <2>1. /\ pc[t] = "store" /\ pc'[t] = "free" /\ NameAt(m) = NameIn(t) /\ ~FelixLink(t)
        /\ data' = data /\ m \in FelixLinked /\ FelixLinked' = FelixLinked \ {m}
    BY <1>0, <1>7 DEF FelixShrunk, FelixStore, FelixLink, Goto, FelixThreadTypes
  <2>2. t \notin FelixOrbiting' /\ t \in Named
    BY <2>1 DEF FelixOrbiting, Removing, Named
  <2>3. \A u \in FelixOrbiting' : u \in FelixOrbiting /\ u # t
    BY <1>4, <2>1, <2>2
  <2>4. ASSUME NEW u \in FelixOrbiting', planetPointer[u] = m PROVE FALSE
    <3>1. data[m] = args[u] /\ u \in Named /\ u # t
      BY <1>3, <2>3, <2>4
    <3>2. NameIn(u) = NameIn(t)
      BY <2>1, <3>1 DEF NameAt, NameIn
    <3> QED
      BY <1>2, <2>2, <3>1, <3>2 DEF NamesDistinct
  <2> QED
    BY <1>3, <1>4, <2>1, <2>3, <2>4
<1> QED
  BY <1>0, <1>5, <1>6, <1>7, FelixListCases

LEMMA FelixSerialStep ==
  ASSUME FelixBase, fault = "none", ~Overlap, ~Overlap', MemoryGood', FelixSerial,
         felixOther \/ \E t \in Thread : felixThread(t)
  PROVE  FelixSerial'
<1>1. ASSUME NEW t \in Thread, felixThread(t) PROVE FelixSerial'
  <2>1. fault' \notin {"add", "remove"}
    <3>1. /\ pc[t] \in Updating \ {"free"} => Valid(temp[t])
          /\ pc[t] \in {"step", "search", "load"} => ValidNext(temp[t])
          /\ pc[t] = "free" => Valid(held[t].node)
      BY FelixWalksSafe DEF FelixBase, FelixTyped, FelixSerial
    <3>2. FelixTrip(t) => fault' \notin {"add", "remove"}
      BY <3>1 DEF FelixTrip, Crash, Updating, Adding, Removing
    <3>3. FelixTrip(t) \/ fault' = fault
      BY <1>1, FelixPath DEF FelixBase
    <3> QED
      BY <3>2, <3>3
  <2> QED
    BY <1>1, <2>1, FelixUpdatersStep, FelixOrderedStep, FelixOwnersStep, FelixOwnPlanetsStep
    DEF FelixSerial
<1> QED
  BY <1>1, FelixOtherSerial

LEMMA FelixInvStep ==
  ASSUME FelixInv, [FelixNext]_<<felixVars, raced>> PROVE FelixInv'
<1>1. FelixBase'
  BY FelixBaseStep DEF FelixInv
<1>2. CASE UNCHANGED <<vars, held>> /\ (raced' = raced \/ raced' = (raced \/ Overlap'))
  <2>1. UNCHANGED <<next, alloc, data, pc, args, planetPointer, temp, held, fault, mail, headGlob>>
    BY <1>2 DEF vars, listVars, mailVars
  <2>2. Overlap' = Overlap /\ (MemoryGood' <=> MemoryGood)
    BY <2>1 DEF Overlap, MemoryGood, Tame, HasHead
  <2>3. FelixSerial => FelixSerial'
    <3> SUFFICES ASSUME FelixSerial PROVE FelixSerial'
      OBVIOUS
    <3>1. fault' \notin {"add", "remove"}
      BY <2>1 DEF FelixSerial
    <3> QED
      BY <2>1, <3>1, FelixSame
  <2> QED
    BY <1>1, <1>2, <2>2, <2>3 DEF FelixInv
<1>3. CASE /\ fault = "none" /\ (felixOther \/ \E t \in Thread : felixThread(t))
           /\ raced' = (raced \/ Overlap')
  <2>1. ~raced' /\ MemoryGood' => FelixSerial'
    <3> SUFFICES ASSUME ~raced', MemoryGood' PROVE FelixSerial'
      OBVIOUS
    <3>1. ~raced /\ ~Overlap' /\ ~Overlap
      BY <1>3 DEF FelixInv
    <3>2. MemoryGood
      BY <1>3, FelixGoodBefore DEF FelixInv
    <3> QED
      BY <1>3, <3>1, <3>2, FelixSerialStep DEF FelixInv
  <2> QED
    BY <1>1, <1>3, <2>1 DEF FelixInv
<1> QED
  BY <1>2, <1>3, FelixSteps

LEMMA FelixInvInit == FelixInit => FelixInv
<1> SUFFICES ASSUME FelixInit PROVE FelixInv
  OBVIOUS
<1>0. /\ FelixBase /\ pc = [t \in Thread |-> "none"] /\ alloc = {} /\ fault = "none"
      /\ next = [n \in Node \cup {HeadNode} |-> NULL]
  BY FelixBaseInit DEF FelixInit, Init
<1>1. FelixLinked = {} /\ FelixInList = {HeadNode} /\ FelixOrbiting = {}
  BY <1>0 DEF FelixLinked, FelixInList, FelixOrbiting, Removing
<1>2. ~Overlap /\ FelixUpdaters
  BY <1>0 DEF Overlap, FelixUpdaters, FelixUpdater, Updating, Adding, Removing
<1>3. FelixOrdered
  <2> DEFINE pos == [n \in Node \cup {HeadNode} |-> 0]
  <2>1. pos \in [Node \cup {HeadNode} -> Nat]
    OBVIOUS
  <2>2. Felix!Chain(pos, 0)
    BY <1>0, <1>1, FelixLists DEF Felix!Chain
  <2>3. FelixAhead(pos)
    BY <1>0 DEF FelixAhead, FelixSearching
  <2> QED
    BY <2>1, <2>2, <2>3 DEF FelixOrdered
<1>4. FelixOwners
  <2>1. [t \in Thread |-> HeadNode] \in [Thread -> Node \cup {HeadNode}]
    OBVIOUS
  <2> QED
    BY <1>1, <2>1 DEF FelixOwners, FelixOwnedBy
<1>5. FelixOwnPlanets
  BY <1>1 DEF FelixOwnPlanets
<1> QED
  BY <1>0, <1>2, <1>3, <1>4, <1>5 DEF FelixInv, FelixSerial

(* The walk from the head does not depend on the walks of the threads.     *)
LEMMA FelixReach ==
  ASSUME FelixTyped, FelixOrdered PROVE Reach = FelixInList
<1>1. PICK pos \in [Node \cup {HeadNode} -> Nat], len \in Nat : Felix!Chain(pos, len)
  BY DEF FelixOrdered
<1>2. Felix!ListTypes
  BY DEF FelixTyped, Felix!ListTypes, ListTypes, Felix!Pointer, Pointer, Felix!Copy, Copy
<1>3. Felix!Numbering(pos, len)
  BY <1>1 DEF Felix!Numbering
<1>4. Felix!Reach = Felix!InList
  BY <1>2, <1>3, FelixAssumptions, Felix!ReachIsList
<1>5. Reach = Felix!Reach
  BY DEF Reach, Felix!Reach, Cardinality, Felix!Cardinality
<1> QED
  BY <1>4, <1>5, FelixLists

(* lab3felix without its mutex, but with nobody in addToList or            *)
(* removeFromList while another is: a walk from the head meets exactly the *)
(* planets that live, neither function follows a bad pointer, and planets  *)
(* of different names stay, with the data their threads were given, until  *)
(* their own thread removes them; it is what two at a time do that the     *)
(* mutex of lab3 is for.                                                   *)
THEOREM SerialUpdatesAreSafe == FelixSpec => []SerialUpdatesSafe
<1>1. FelixSpec => []FelixInv
  BY FelixInvInit, FelixInvStep, PTL DEF FelixSpec
<1>2. FelixInv => SerialUpdatesSafe
  <2> SUFFICES ASSUME FelixInv PROVE SerialUpdatesSafe
    OBVIOUS
  <2>0. FelixTyped
    BY DEF FelixInv, FelixBase
  <2>1. FelixTypeOK
    <3>1. held \in [Thread \cup {Drawer} -> [node : Pointer, succ : Pointer]]
      BY <2>0 DEF FelixTyped, FelixOtherTypes, FelixPointer, Pointer
    <3> QED
      BY <2>0, <3>1 DEF FelixTyped, ListTypes, FelixThreadTypes, FelixOtherTypes, FelixTypeOK,
         FelixPC
  <2>2. ASSUME ~raced, MemoryGood
        PROVE  /\ (\A t \in Thread : pc[t] # "free") => Reach = alloc \cup {HeadNode}
               /\ fault \notin {"add", "remove"}
               /\ FelixOwnPlanets
    <3>1. FelixSerial
      BY <2>2 DEF FelixInv
    <3>2. Reach = FelixInList
      BY <2>0, <3>1, FelixReach DEF FelixSerial
    <3>3. (\A t \in Thread : pc[t] # "free") => FelixInList = alloc \cup {HeadNode}
      BY DEF FelixInList, FelixLinked
    <3> QED
      BY <3>1, <3>2, <3>3 DEF FelixSerial
  <2> QED
    BY <2>1, <2>2 DEF SerialUpdatesSafe, FelixOwnPlanets
<1> QED
  BY <1>1, <1>2, PTL
=============================================================================
