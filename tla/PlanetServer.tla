---------------------------- MODULE PlanetServer ----------------------------
(***************************************************************************)
(* lab3 with its clients: the planet list of server.c and the death        *)
(* channel between the planet threads and the clients' death servers.  A   *)
(* thread connects to the mailslot whose name it finds in its node, dies   *)
(* in the list and reports over the channel, and removes its planet when   *)
(* the report is out.                                                      *)
(***************************************************************************)
EXTENDS PlanetList

CONSTANTS Client,       \* client processes
          Asker,        \* the client that makes a request
          Mailslot, Names, Closed, BUFFER_SIZE, MAXMSG

ASSUME ClientAssumption == Asker \in [Request -> Client]

VARIABLES semEmpty2, semFull2, semMutex2, pid, slot, read, rpc, mq1, dpc, told

Channel == INSTANCE DeathChannel

(* What DeathChannel assumes of its constants.                             *)
ASSUME ServerAssumption == Channel!ChannelAssumption

channelVars == <<semEmpty2, semFull2, semMutex2, pid, slot, read, rpc, mq1, dpc, told>>

serverVars == <<vars, channelVars>>

ServerInit == Init /\ Channel!Init

(* Mutant: the pid is read from the struct that all threads share.         *)
ConnectToShared(t) == Connect(t) /\ Channel!Connect(t, Asker[createPlanetArg.rest])

(* MQconnect(&mq1, args.planetPointer->pid)                                *)
ConnectTo(t) ==
  /\ Connect(t)
  /\ Channel!Connect(t, Asker[data[planetPointer[t]].rest])

(* life <= 0, or off the screen: dInfo is filled in.                       *)
DieAndReport(t) == Die(t) /\ Channel!Begin(t)

(* sem_post(sem_full2) is done: on to removeFromList.                      *)
ReportDone(t) ==
  /\ rpc[t] = "reported"
  /\ Reported(t)
  /\ UNCHANGED channelVars

(* The steps of a planet thread that do not concern the channel.  A bad    *)
(* planetPointer is noticed only when the report is out.                   *)
ListStep(t) ==
  /\ \/ CopyName(t) \/ CopyRest(t) \/ Lock(t) \/ AddWalk(t) \/ AddLink(t) \/ Unlock(t)
     \/ Survive(t) \/ GravityTest(t) \/ GravityPull(t) \/ Move(t)
     \/ Search(t) \/ FreeNode(t)
     \/ (pc[t] = "report" => rpc[t] = "reported") /\ Trip(t)
  /\ UNCHANGED channelVars

(* The steps of a report.                                                  *)
ReportStep(t) == Channel!report(t) /\ UNCHANGED vars

planetThread(t) ==
  ListStep(t) \/ ConnectTo(t) \/ DieAndReport(t) \/ ReportStep(t) \/ ReportDone(t)

mailOrDraw == (manageMail \/ do_drawing) /\ UNCHANGED channelVars

(* A death server is in another process and outlives a crash.              *)
DeathServerStep(c) == Channel!death_server(c) /\ UNCHANGED vars

ServerNext ==
  \/ fault = "none" /\ (mailOrDraw \/ \E t \in Thread : planetThread(t))
  \/ \E c \in Client : DeathServerStep(c)
  \/ Crashed /\ UNCHANGED channelVars

ServerSpec == ServerInit /\ [][ServerNext]_serverVars

-----------------------------------------------------------------------------
(* The threads whose report is out and that may remove their planet.       *)
Leaving == {t \in Thread : pc[t] \in {"lock remove", "search", "free", "unlock remove", "gone"}}

(* While planets have different names, a planet that leaves has told the   *)
(* mailslot of the client that its own request came from, and no other     *)
(* client prints it, unless one has a mailslot of the same name; and       *)
(* nobody is told if there was no mailslot when the planet connected.      *)
LeaverTold ==
  NamesDistinct =>
    \A t \in Leaving :
      LET asked_by == pid[Asker[args[t].rest]] IN
      /\ {m \in Mailslot : t \in Channel!Elements(slot[m]) \cup Channel!Elements(read[m])}
           = {asked_by} \ (IF mq1[t] = Closed THEN Mailslot ELSE {})
      /\ \A c \in Client : t \in told[c] => pid[c] = asked_by
=============================================================================
