------------------------------ MODULE Lab1Proofs ------------------------------
(***************************************************************************)
(* The programs of lab1, lab1.2 and lab1.3.  The hello programs print      *)
(* whole blocks, and those of lab1.2 print them in turn.                   *)
(* lab1.2/intro2.c is stopped only by a full mailslot or by the END of an  *)
(* earlier process.  The handoff of lab1.3/intro2.c keeps one turn and     *)
(* answers every text that is written by one that is read.                 *)
(***************************************************************************)
EXTENDS HelloThreads, SendUnderLock, MutexHandoff, SequenceTheorems, TLAPS

-----------------------------------------------------------------------------
(* hello_part1.c: blocks are whole, and in turn, for any number of lines.  *)

(* Who prints owns the mutex.                                              *)
OwnerPrints == \A t \in HelloThread : pc[t] = "print" <=> mymutex = t

(* In lab1.2 a thread that has left its busy loop has the turn until it    *)
(* passes it itself; lab1 has neither loop nor turn.                       *)
TurnKept ==
  \A t \in HelloThread :
    IF edition = "lab1.2" THEN pc[t] # "test" => turn = t
    ELSE pc[t] \in {"lock", "print"}

(* Lines of a block have been counted only by the thread that prints it.   *)
CountedByPrinter == \A t \in HelloThread : k[t] # 0 => pc[t] = "print"

(* The line shown last is that of the block being printed, or else the     *)
(* last line of a block: of the other thread, until the turn is used.      *)
ShownLast ==
  /\ \A t \in HelloThread : k[t] # 0 => shown[1] = t /\ shown[2] = k[t]
  /\ (\A t \in HelloThread : k[t] = 0) =>
       /\ shown[2] = Lines
       /\ edition = "lab1.2" =>
            shown[1] = (IF pc[turn] = "turn" THEN turn ELSE Other(turn))

HelloInv == HelloTypeOK /\ OwnerPrints /\ TurnKept /\ CountedByPrinter /\ ShownLast

(* There are two threads, and Free is neither.                             *)
LEMMA TwoThreads ==
  /\ World # Moon /\ Free \notin HelloThread
  /\ \A t \in HelloThread : Other(t) \in HelloThread /\ Other(t) # t
  /\ \A t, u \in HelloThread : t # u => u = Other(t)
  /\ \A t \in HelloThread : Other(Other(t)) = t
BY HelloAssumption DEF HelloThread, Other

LEMMA InitInv == HelloInit => HelloInv
<1> SUFFICES ASSUME HelloInit PROVE HelloInv
  OBVIOUS
<1> USE HelloAssumption, TwoThreads
<1>1. HelloTypeOK
  BY DEF HelloInit, HelloTypeOK, HelloThread
<1>2. OwnerPrints
  BY DEF HelloInit, OwnerPrints
<1>3. TurnKept
  BY DEF HelloInit, TurnKept
<1>4. CountedByPrinter
  BY DEF HelloInit, CountedByPrinter
<1>5. ShownLast
  BY DEF HelloInit, ShownLast, Other, HelloThread
<1> QED
  BY <1>1, <1>2, <1>3, <1>4, <1>5 DEF HelloInv

LEMMA TestInv ==
  ASSUME HelloInv, NEW t \in HelloThread, edition = "lab1.2", Test(t) PROVE HelloInv'
<1> USE DEF Test, HelloStep
<1>1. HelloTypeOK'
  BY DEF HelloInv, HelloTypeOK
<1>2. OwnerPrints' /\ CountedByPrinter'
  BY DEF HelloInv, HelloTypeOK, OwnerPrints, CountedByPrinter
<1>3. TurnKept'
  BY DEF HelloInv, HelloTypeOK, TurnKept
<1>4. ShownLast'
  BY DEF HelloInv, HelloTypeOK, ShownLast
<1> QED
  BY <1>1, <1>2, <1>3, <1>4 DEF HelloInv

LEMMA LockInv ==
  ASSUME HelloInv, NEW t \in HelloThread, Lock(t) PROVE HelloInv'
<1> USE TwoThreads DEF Lock, HelloStep
<1>1. HelloTypeOK'
  BY DEF HelloInv, HelloTypeOK
<1>2. OwnerPrints' /\ CountedByPrinter'
  BY DEF HelloInv, HelloTypeOK, OwnerPrints, CountedByPrinter
<1>3. TurnKept'
  BY DEF HelloInv, HelloTypeOK, TurnKept
<1>4. ShownLast'
  BY DEF HelloInv, HelloTypeOK, ShownLast
<1> QED
  BY <1>1, <1>2, <1>3, <1>4 DEF HelloInv

LEMMA PrintInv ==
  ASSUME HelloInv, NEW t \in HelloThread, PrintLine(t) PROVE HelloInv'
<1> USE TwoThreads, HelloAssumption DEF PrintLine, HelloStep
<1>1. k[t] \in 0 .. Lines /\ k[t] < Lines /\ k' = [k EXCEPT ![t] = k[t] + 1] /\ pc' = pc
  BY DEF HelloInv, HelloTypeOK
<1>2. HelloTypeOK'
  BY <1>1 DEF HelloInv, HelloTypeOK
<1>3. OwnerPrints' /\ CountedByPrinter'
  BY <1>1 DEF HelloInv, HelloTypeOK, OwnerPrints, CountedByPrinter
<1>4. TurnKept'
  BY <1>1 DEF HelloInv, HelloTypeOK, TurnKept
<1>5. \A u \in HelloThread : u # t => k[u] = 0
  BY <1>1 DEF HelloInv, HelloTypeOK, OwnerPrints, CountedByPrinter
<1>6. ShownLast'
  BY <1>1, <1>5 DEF HelloInv, HelloTypeOK, ShownLast
<1> QED
  BY <1>2, <1>3, <1>4, <1>6 DEF HelloInv

LEMMA UnlockInv ==
  ASSUME HelloInv, NEW t \in HelloThread, Unlock(t) PROVE HelloInv'
<1> USE TwoThreads, HelloAssumption DEF Unlock, HelloStep
<1>1. HelloTypeOK'
  BY DEF HelloInv, HelloTypeOK
<1>2. \A u \in HelloThread : u # t => k[u] = 0 /\ pc[u] # "print"
  BY DEF HelloInv, HelloTypeOK, OwnerPrints, CountedByPrinter
<1>3. OwnerPrints' /\ CountedByPrinter'
  BY <1>2 DEF HelloInv, HelloTypeOK, OwnerPrints, CountedByPrinter
<1>4. TurnKept'
  BY DEF HelloInv, HelloTypeOK, TurnKept
<1>5. shown[1] = t /\ shown[2] = Lines
  BY DEF HelloInv, HelloTypeOK, ShownLast
<1>6. edition = "lab1.2" => turn = t /\ pc'[turn] = "turn"
  BY DEF HelloInv, HelloTypeOK, TurnKept
<1>7. ShownLast'
  BY <1>2, <1>5, <1>6 DEF HelloInv, HelloTypeOK, ShownLast
<1> QED
  BY <1>1, <1>3, <1>4, <1>7 DEF HelloInv

LEMMA PassTurnInv ==
  ASSUME HelloInv, NEW t \in HelloThread, PassTurn(t) PROVE HelloInv'
<1> USE TwoThreads, HelloAssumption DEF PassTurn, HelloStep
<1>1. HelloTypeOK'
  BY DEF HelloInv, HelloTypeOK
<1>2. OwnerPrints' /\ CountedByPrinter'
  BY DEF HelloInv, HelloTypeOK, OwnerPrints, CountedByPrinter
<1>3. edition = "lab1.2" /\ turn = t /\ pc[Other(t)] = "test"
  BY DEF HelloInv, HelloTypeOK, TurnKept
<1>4. TurnKept'
  BY <1>3 DEF HelloInv, HelloTypeOK, TurnKept
<1>5. \A u \in HelloThread : k[u] = 0
  BY <1>3 DEF HelloInv, HelloTypeOK, CountedByPrinter
<1>6. shown[1] = t /\ shown[2] = Lines
  BY <1>3, <1>5 DEF HelloInv, ShownLast
<1>7. pc'[turn'] = "test" /\ Other(turn') = t
  BY <1>3 DEF HelloInv, HelloTypeOK
<1>8. ShownLast'
  BY <1>5, <1>6, <1>7 DEF ShownLast
<1> QED
  BY <1>1, <1>2, <1>4, <1>8 DEF HelloInv

(* In lab1 no thread is at a statement of the loops of lab1.2.             *)
LEMMA OnlyLab12Tests ==
  ASSUME HelloInv, NEW t \in HelloThread, Test(t) PROVE edition = "lab1.2"
BY DEF HelloInv, TurnKept, Test, HelloStep

LEMMA NextInv == HelloInv /\ [HelloNext]_helloVars => HelloInv'
<1> SUFFICES ASSUME HelloInv, [HelloNext]_helloVars PROVE HelloInv'
  OBVIOUS
<1>1. ASSUME NEW t \in HelloThread, hello(t) PROVE HelloInv'
  BY <1>1, TestInv, OnlyLab12Tests, LockInv, PrintInv, UnlockInv, PassTurnInv
  DEF hello, helloOf12, helloOf1
<1>2. CASE UNCHANGED helloVars
  BY <1>2 DEF helloVars, HelloInv, HelloTypeOK, OwnerPrints, TurnKept, CountedByPrinter, ShownLast
<1> QED
  BY <1>1, <1>2 DEF HelloNext

HelloSafety == HelloInit /\ [][HelloNext]_helloVars

(* The types of the printing threads, and the mutual exclusion and the     *)
(* ownership of the turn on which the promise below rests.                 *)
THEOREM HelloInvariant == HelloSafety => [](HelloTypeOK /\ OwnerPrints /\ TurnKept)
<1>1. HelloInv => HelloTypeOK /\ OwnerPrints /\ TurnKept
  BY DEF HelloInv
<1>2. QED
  BY InitInv, NextInv, <1>1, PTL DEF HelloSafety

(* A line is printed only if HelloOutput allows it.                        *)
LEMMA PrintAllowed ==
  ASSUME HelloInv, NEW t \in HelloThread, edition # "none", PrintLine(t) PROVE Output!Next
<1> USE TwoThreads, HelloAssumption DEF PrintLine, HelloStep
<1>1. k[t] \in 0 .. Lines /\ k[t] < Lines /\ pc[t] = "print" /\ UNCHANGED edition
  BY DEF HelloInv, HelloTypeOK
<1>2. shown' = <<t, k[t] + 1>>
  OBVIOUS
<1>3. shown \in HelloThread \X (1 .. Lines)
  BY DEF HelloInv, HelloTypeOK
<1>4. CASE k[t] # 0
  <2>1. shown[1] = t /\ shown[2] = k[t]
    BY <1>4 DEF HelloInv, ShownLast
  <2>2. Output!NextLine
    BY <1>1, <1>2, <2>1 DEF Output!NextLine
  <2> QED
    BY <1>1, <2>2 DEF Output!Next
<1>5. CASE k[t] = 0
  <2>1. \A u \in HelloThread : k[u] = 0
    BY <1>1, <1>5 DEF HelloInv, HelloTypeOK, OwnerPrints, CountedByPrinter
  <2>2. shown[2] = Lines
    BY <2>1 DEF HelloInv, ShownLast
  <2>3. edition = "lab1.2" => t = Other(shown[1])
    BY <1>1, <2>1 DEF HelloInv, HelloTypeOK, TurnKept, ShownLast
  <2>4. Other(shown[1]) = Output!Other(shown[1])
    BY DEF Other, Output!Other
  <2>5. Output!NextBlock
    BY <1>2, <1>5, <2>2, <2>3, <2>4 DEF Output!NextBlock, HelloThread
  <2> QED
    BY <1>1, <2>5 DEF Output!Next
<1> QED
  BY <1>4, <1>5

(* Safety part of PrintsInTurn: whole blocks, never mixed, and in lab1.2   *)
(* in turn, although turn is tested and passed outside the mutex.          *)
THEOREM PrintsWholeBlocks == HelloSafety => Output!Safety
<1>1. HelloInit => Output!Init
  BY HelloAssumption DEF HelloInit, Output!Init
<1>2. HelloInv /\ [HelloNext]_helloVars => [Output!Next]_<<edition, shown>>
  <2> SUFFICES ASSUME HelloInv, [HelloNext]_helloVars PROVE [Output!Next]_<<edition, shown>>
    OBVIOUS
  <2>1. ASSUME NEW t \in HelloThread, hello(t) PROVE [Output!Next]_<<edition, shown>>
    <3>1. CASE PrintLine(t)
      BY <2>1, <3>1, PrintAllowed DEF hello
    <3>2. CASE Test(t) \/ PassTurn(t) \/ Lock(t) \/ Unlock(t)
      BY <3>2 DEF Test, PassTurn, Lock, Unlock, HelloStep
    <3> QED
      BY <2>1, <3>1, <3>2 DEF hello, helloOf12, helloOf1
  <2>2. CASE UNCHANGED helloVars
    BY <2>2 DEF helloVars
  <2> QED
    BY <2>1, <2>2 DEF HelloNext
<1>3. QED
  BY <1>1, <1>2, InitInv, NextInv, PTL DEF HelloSafety, Output!Safety, Output!outputVars
-----------------------------------------------------------------------------
(* intro2.c of lab1.2: for any size of the mailslot, any number of texts   *)
(* and of runs of the program.                                             *)

(* Who holds the lock; producer returns with it.                           *)
LockHeld ==
  /\ lock = "main" <=> at \in {"scan", "send", "unlock"}
  /\ lock = "producer" <=> producerAt \in {"receive", "unlock", "gone"}

(* Texts come from this process or an earlier one.                         *)
PastRuns ==
  /\ \A i \in DOMAIN mailslot : mailslot[i].run <= run
  /\ \A m \in stopped : m.run <= run

(* An END of this process means that main will not lock again.             *)
SendEnding == input /\ at \in {"unlock", "unlink", "return"}
OwnEndIsLast ==
  /\ \A i \in DOMAIN mailslot : mailslot[i].end /\ mailslot[i].run = run => SendEnding
  /\ \A m \in stopped : m.run = run => SendEnding

GoneAtEnd == producerAt = "gone" => stopped # {}

(* A mailslot that producer makes after main has unlinked /mq stays empty. *)
EmptyAtReturn == at = "return" /\ named => mailslot = << >>

SendInv ==
  /\ SendTypeOK
  /\ LockHeld /\ PastRuns /\ OwnEndIsLast /\ GoneAtEnd /\ EmptyAtReturn
  /\ CleanEnd

(* The types in two parts, since the provers treat Booleans on their own.  *)
Flags == input \in BOOLEAN /\ named \in BOOLEAN /\ open \in BOOLEAN /\ unlinked \in BOOLEAN
Values ==
  /\ lock \in {"main", "producer", Nobody}
  /\ at \in {"open", "lock", "scan", "send", "unlock", "unlink", "return"}
  /\ producerAt \in {"create", "lock", "receive", "unlock", "gone"}
  /\ mailslot \in Seq(Text) /\ Len(mailslot) <= mq_maxmsg
  /\ texts \in 0 .. MaxTexts /\ run \in 1 .. MaxRuns
  /\ stopped \in SUBSET Text

LEMMA TypesSplit == SendTypeOK <=> Flags /\ Values
BY DEF SendTypeOK, Flags, Values

(* What the provers need to know of the mailslot as a sequence.            *)
LEMMA SendBounds ==
  SendInv => /\ mailslot \in Seq(Text) /\ Len(mailslot) \in Nat
             /\ DOMAIN mailslot = 1 .. Len(mailslot)
             /\ \A i \in DOMAIN mailslot : mailslot[i] \in Text
             /\ run \in Nat /\ stopped \subseteq Text
BY SendAssumption, LenProperties, ElementOfSeq DEF SendInv, SendTypeOK

LEMMA SendInitInv == SendInit => SendInv
<1> SUFFICES ASSUME SendInit PROVE SendInv
  OBVIOUS
<1> USE SendAssumption DEF SendInit
<1>1. Flags
  BY DEF Flags
<1>2. Values
  BY EmptySeq DEF Values
<1>3. LockHeld /\ GoneAtEnd /\ EmptyAtReturn
  BY DEF LockHeld, GoneAtEnd, EmptyAtReturn
<1>4. PastRuns /\ OwnEndIsLast /\ CleanEnd
  BY DEF PastRuns, OwnEndIsLast, CleanEnd
<1> QED
  BY <1>1, <1>2, <1>3, <1>4, TypesSplit DEF SendInv

(* Steps that leave the mailslot alone, and those of main that cannot      *)
(* follow an END.                                                          *)
LEMMA QuietMainInv == SendInv /\ (Open \/ LockM \/ Scan \/ UnlockM \/ Unlink) => SendInv'
<1> SUFFICES ASSUME SendInv, Open \/ LockM \/ Scan \/ UnlockM \/ Unlink PROVE SendInv'
  OBVIOUS
<1> USE SendAssumption, SendBounds DEF Open, LockM, Scan, UnlockM, Unlink, MainStep
<1>0. Flags /\ Values
  BY TypesSplit DEF SendInv
<1>1. SendTypeOK'
  <2>1. Flags'
    <3>1. /\ input' \in BOOLEAN /\ open' \in {open, named} /\ unlinked' = unlinked
          /\ named' \in {named, FALSE}
      BY <1>0 DEF Flags
    <3> QED
      BY <1>0, <3>1 DEF Flags
  <2>2. Values'
    BY <1>0 DEF Values
  <2> QED
    BY <2>1, <2>2, Zenon DEF SendTypeOK, Flags, Values
<1>2. LockHeld'
  BY DEF SendInv, LockHeld
<1>3. PastRuns' /\ CleanEnd'
  BY DEF SendInv, PastRuns, CleanEnd
<1>4. OwnEndIsLast'
  BY DEF SendInv, OwnEndIsLast, SendEnding
<1>5. GoneAtEnd' /\ EmptyAtReturn'
  BY DEF SendInv, GoneAtEnd, EmptyAtReturn
<1> QED
  BY <1>1, <1>2, <1>3, <1>4, <1>5 DEF SendInv

LEMMA SendStepInv == SendInv /\ Send => SendInv'
<1> SUFFICES ASSUME SendInv, Send PROVE SendInv'
  OBVIOUS
<1> USE SendAssumption, SendBounds DEF Send, MainStep
<1> DEFINE m == [run |-> run, end |-> input]
<1>1. CASE open
  <2>1. m \in Text
    BY DEF SendInv, SendTypeOK, Text
  <2>2. /\ mailslot' \in Seq(Text) /\ Len(mailslot') = Len(mailslot) + 1
        /\ \A i \in DOMAIN mailslot' :
             (i \in DOMAIN mailslot /\ mailslot'[i] = mailslot[i]) \/ mailslot'[i] = m
    BY <1>1, <2>1, AppendProperties
  <2>3. SendTypeOK'
    BY <1>1, <2>2 DEF SendInv, SendTypeOK
  <2>4. LockHeld' /\ GoneAtEnd' /\ EmptyAtReturn'
    BY DEF SendInv, LockHeld, GoneAtEnd, EmptyAtReturn
  <2>5. PastRuns' /\ CleanEnd'
    BY <2>2 DEF SendInv, PastRuns, CleanEnd
  <2>6. OwnEndIsLast'
    BY <2>2 DEF SendInv, OwnEndIsLast, SendEnding
  <2> QED
    BY <2>3, <2>4, <2>5, <2>6 DEF SendInv
<1>2. CASE ~open
  <2>1. SendTypeOK' /\ LockHeld' /\ GoneAtEnd' /\ EmptyAtReturn'
    BY <1>2 DEF SendInv, SendTypeOK, LockHeld, GoneAtEnd, EmptyAtReturn
  <2>2. PastRuns' /\ CleanEnd' /\ OwnEndIsLast'
    BY <1>2 DEF SendInv, PastRuns, CleanEnd, OwnEndIsLast, SendEnding
  <2> QED
    BY <2>1, <2>2 DEF SendInv
<1> QED
  BY <1>1, <1>2

LEMMA QuietProducerInv == SendInv /\ (CreateP \/ LockP \/ UnlockP) => SendInv'
<1> SUFFICES ASSUME SendInv, CreateP \/ LockP \/ UnlockP PROVE SendInv'
  OBVIOUS
<1> USE SendAssumption, SendBounds DEF CreateP, LockP, UnlockP, ProducerStep
<1>1. mailslot' \in {mailslot, << >>}
  OBVIOUS
<1>0. Flags /\ Values
  BY TypesSplit DEF SendInv
<1>2. SendTypeOK'
  <2>1. Flags'
    BY <1>0, Zenon DEF Flags
  <2>2. Values'
    <3>1. mailslot' \in Seq(Text) /\ Len(mailslot') <= mq_maxmsg
      <4>1. CASE mailslot' = mailslot
        BY <1>0, <4>1 DEF Values
      <4>2. CASE mailslot' = << >>
        BY <4>2, EmptySeq
      <4> QED
        BY <1>1, <4>1, <4>2
    <3> QED
      BY <1>0, <3>1 DEF Values
  <2> QED
    BY <2>1, <2>2, Zenon DEF SendTypeOK, Flags, Values
<1>3. LockHeld' /\ GoneAtEnd' /\ EmptyAtReturn'
  BY DEF SendInv, LockHeld, GoneAtEnd, EmptyAtReturn
<1>4. PastRuns' /\ CleanEnd' /\ OwnEndIsLast'
  BY <1>1 DEF SendInv, PastRuns, CleanEnd, OwnEndIsLast, SendEnding
<1> QED
  BY <1>2, <1>3, <1>4 DEF SendInv

LEMMA ReceiveInv == SendInv /\ Receive => SendInv'
<1> SUFFICES ASSUME SendInv, Receive PROVE SendInv'
  OBVIOUS
<1> USE SendAssumption, SendBounds DEF Receive, ProducerStep
<1>1. CASE mailslot = << >>
  <2>1. SendTypeOK' /\ LockHeld' /\ GoneAtEnd' /\ EmptyAtReturn'
    BY <1>1 DEF SendInv, SendTypeOK, LockHeld, GoneAtEnd, EmptyAtReturn
  <2>2. PastRuns' /\ CleanEnd' /\ OwnEndIsLast'
    BY <1>1 DEF SendInv, PastRuns, CleanEnd, OwnEndIsLast, SendEnding
  <2> QED
    BY <2>1, <2>2 DEF SendInv
<1>2. CASE mailslot # << >>
  <2>1. /\ Head(mailslot) = mailslot[1] /\ 1 \in DOMAIN mailslot
        /\ mailslot' = Tail(mailslot) /\ mailslot' \in Seq(Text)
        /\ Len(mailslot') = Len(mailslot) - 1
        /\ \A i \in DOMAIN mailslot' : i + 1 \in DOMAIN mailslot /\ mailslot'[i] = mailslot[i + 1]
    BY <1>2, HeadTailProperties, EmptySeq
  <2>2. stopped' \in {stopped, {mailslot[1]}} /\ (stopped' # stopped => mailslot[1].end)
    BY <2>1
  <2>3. SendTypeOK'
    BY <2>1, <2>2 DEF SendInv, SendTypeOK
  <2>4. LockHeld' /\ EmptyAtReturn'
    BY <1>2 DEF SendInv, LockHeld, EmptyAtReturn
  <2>5. GoneAtEnd'
    BY <1>2 DEF SendInv, GoneAtEnd
  <2>6. PastRuns' /\ CleanEnd'
    BY <2>1, <2>2 DEF SendInv, PastRuns, CleanEnd
  <2>7. OwnEndIsLast'
    BY <2>1, <2>2 DEF SendInv, OwnEndIsLast, SendEnding
  <2> QED
    BY <2>3, <2>4, <2>5, <2>6, <2>7 DEF SendInv
<1> QED
  BY <1>1, <1>2

LEMMA StartAgainInv == SendInv /\ StartAgain => SendInv'
<1> SUFFICES ASSUME SendInv, StartAgain PROVE SendInv'
  OBVIOUS
<1> USE SendAssumption, SendBounds DEF StartAgain, Started
<1>1. mailslot' \in {mailslot, << >>} /\ run' = run + 1
  OBVIOUS
<1>0. Flags /\ Values
  BY TypesSplit DEF SendInv
<1>2. SendTypeOK'
  <2>1. Flags'
    BY <1>0, Zenon DEF Flags
  <2>2. Values'
    <3>1. mailslot' \in Seq(Text) /\ Len(mailslot') <= mq_maxmsg
      <4>1. CASE mailslot' = mailslot
        BY <1>0, <4>1 DEF Values
      <4>2. CASE mailslot' = << >>
        BY <4>2, EmptySeq
      <4> QED
        BY <1>1, <4>1, <4>2
    <3> QED
      BY <1>0, <3>1 DEF Values
  <2> QED
    BY <2>1, <2>2, Zenon DEF SendTypeOK, Flags, Values
<1>3. LockHeld' /\ GoneAtEnd' /\ EmptyAtReturn'
  BY DEF LockHeld, GoneAtEnd, EmptyAtReturn
<1>4. \A i \in DOMAIN mailslot' : mailslot'[i].run < run'
  BY <1>1 DEF SendInv, PastRuns, Text
<1>5. PastRuns' /\ OwnEndIsLast'
  BY <1>2, <1>4 DEF PastRuns, OwnEndIsLast, SendTypeOK, Text
<1>6. unlinked' => mailslot' = << >>
  BY DEF SendInv, EmptyAtReturn
<1>7. CleanEnd'
  BY <1>6 DEF CleanEnd
<1> QED
  BY <1>2, <1>3, <1>5, <1>7 DEF SendInv

LEMMA SendNextInv == SendInv /\ [SendNext]_sendVars => SendInv'
<1> SUFFICES ASSUME SendInv, [SendNext]_sendVars PROVE SendInv'
  OBVIOUS
<1>1. CASE UNCHANGED sendVars
  BY <1>1 DEF sendVars, SendInv, SendTypeOK, LockHeld, PastRuns, OwnEndIsLast, SendEnding,
     GoneAtEnd, EmptyAtReturn, CleanEnd
<1>2. CASE SendNext
  <2>1. CASE sendMain
    BY <2>1, QuietMainInv, SendStepInv DEF sendMain
  <2>2. CASE sendProducer
    BY <2>2, QuietProducerInv, ReceiveInv DEF sendProducer
  <2>3. CASE SendIdle
    BY <1>1, <2>3 DEF SendIdle
  <2> QED
    BY <1>2, <2>1, <2>2, <2>3, StartAgainInv DEF SendNext
<1> QED
  BY <1>1, <1>2

LEMMA SendInvariance == SendSpec => []SendInv
BY SendInitInv, SendNextInv, PTL DEF SendSpec

(* Types of the program, its mailslot within mq_maxmsg, runs included.     *)
THEOREM SendTyped == SendSpec => []SendTypeOK
<1>1. SendInv => SendTypeOK
  BY DEF SendInv
<1> QED
  BY SendInvariance, <1>1, PTL

(* A process that ends with END leaves no text to the next, however many   *)
(* were left to it and whenever its producer has made the mailslot.        *)
THEOREM EndIsClean == SendSpec => []CleanEnd
<1>1. SendInv => CleanEnd
  BY DEF SendInv
<1> QED
  BY SendInvariance, <1>1, PTL

(* main and producer stop each other only by a full mailslot, or by an END *)
(* of an earlier process.                                                  *)
THEOREM StopsExplained == SendSpec => []OnlyFullOrLeftoverStops
<1>1. SendInv => OnlyFullOrLeftoverStops
  <2> SUFFICES ASSUME SendInv, lock # Nobody, at \in {"lock", "send"}, MainWaits, ProducerWaits
               PROVE \/ at = "send" /\ lock = "main" /\ Len(mailslot) = mq_maxmsg
                     \/ producerAt = "gone" /\ lock = "producer" /\ \E m \in stopped : m.run < run
    BY DEF OnlyFullOrLeftoverStops
  <2>1. CASE at = "send"
    BY <2>1, SendAssumption, SendBounds DEF SendInv, SendTypeOK, LockHeld, MainWaits
  <2>2. CASE at = "lock"
    <3>1. lock = "producer" /\ producerAt = "gone"
      BY <2>2 DEF SendInv, SendTypeOK, LockHeld, ProducerWaits
    <3>2. PICK m \in stopped : TRUE
      BY <3>1 DEF SendInv, GoneAtEnd
    <3>3. m.run # run
      BY <2>2 DEF SendInv, OwnEndIsLast, SendEnding
    <3>4. m.run < run
      BY <3>3, SendBounds, SendAssumption DEF SendInv, PastRuns, Text
    <3> QED
      BY <3>1, <3>4
  <2> QED
    BY <2>1, <2>2
<1> QED
  BY SendInvariance, <1>1, PTL
-----------------------------------------------------------------------------
(* intro2.c of lab1.3: for any mailslot, any number of texts and restarts. *)

Typed ==
  /\ l1 \in BOOLEAN /\ l2 \in BOOLEAN
  /\ mpc \in {"await", "lock", "type", "write", "pass", "close", "exited"}
  /\ ppc \in {"create", "wait", "read", "pass", "no slot", "returned"}
  /\ msg \in Message
  /\ typed \in 0 .. MaxTyped
  /\ slot \in [Slot -> Seq(Message)] /\ printed \in [Slot -> Seq(Message)]
  /\ mq \in 1 .. restarts + 2
  /\ restarts \in 0 .. MaxRestarts
  /\ left \in Seq(Message)

(* A program closes the mailslot at most once.                             *)
ClosesOnce == mpc # "exited" => mq <= restarts + 1

(* main works only while producer waits for l2.                            *)
MainAlone == MainTurn => ppc = "wait"

(* Where an END can come from: it was left, or main has just written it    *)
(* and will not come back to wait.                                         *)
Ending == mpc = "close" \/ (mpc = "pass" /\ msg = END)
EndLeft == \E i \in DOMAIN left : left[i] = END
EndExplained ==
  mpc # "exited" =>
    /\ (\E i \in DOMAIN slot[mq] : slot[mq][i] = END) => EndLeft \/ Ending
    /\ ppc = "returned" => EndLeft \/ Ending

Turns == OneTurn /\ MainAlone
IInv == Typed /\ ClosesOnce /\ Turns /\ LagStays /\ EndExplained
-----------------------------------------------------------------------------
(* main has locked both mutexes before there is a second thread.           *)
LEMMA InitIInv == Init => IInv
<1> SUFFICES ASSUME Init PROVE IInv
  OBVIOUS
<1> USE HandoffAssumption
<1>1. Typed /\ ClosesOnce
  BY DEF Init, Typed, ClosesOnce, Slot, Message
<1>2. Turns
  BY DEF Init, Turns, OneTurn, MainAlone, MainTurn, ProducerTurn
<1>3. LagStays /\ EndExplained
  BY DEF Init, LagStays, EndExplained, Slot
<1>4. QED
  BY <1>1, <1>2, <1>3 DEF IInv

(* The mailslot called /mq3 is one of those that are modelled, and a       *)
(* sequence of messages.                                                   *)
LEMMA CurrentSlot ==
  ASSUME Typed, ClosesOnce, mpc # "exited"
  PROVE  /\ mq \in Slot /\ slot[mq] \in Seq(Message)
         /\ Len(slot[mq]) \in Nat /\ Len(left) \in Nat
<1>1. mq \in Slot
  <2>1. restarts \in 0 .. MaxRestarts /\ mq \in 1 .. restarts + 2
    BY DEF Typed
  <2>2. MaxRestarts \in Nat
    BY HandoffAssumption
  <2>3. mq <= restarts + 1
    BY DEF ClosesOnce
  <2>4. QED
    BY <2>1, <2>2, <2>3 DEF Slot
<1>2. slot[mq] \in Seq(Message) /\ left \in Seq(Message)
  BY <1>1 DEF Typed
<1>3. QED
  BY <1>1, <1>2, LenProperties

(* No statement stores a value of another type, and the mailslot is        *)
(* unlinked once in each run of the program.                               *)
LEMMA TypedStep == IInv /\ Next => Typed' /\ ClosesOnce'
<1> SUFFICES ASSUME IInv, Next PROVE Typed' /\ ClosesOnce'
  OBVIOUS
<1>a. Typed /\ ClosesOnce
  BY DEF IInv
<1>b. ASSUME mpc # "exited"
      PROVE  mq \in Slot /\ slot[mq] \in Seq(Message)
  BY <1>a, <1>b, CurrentSlot
<1>1. CASE Await
  BY <1>a, <1>1 DEF Typed, ClosesOnce, Await, StepM, mailVars
<1>2. CASE TakeL1
  BY <1>a, <1>2 DEF Typed, ClosesOnce, TakeL1, StepM, mailVars
<1>3. CASE Type
  <2>1. typed \in 0 .. MaxTyped
    BY <1>a DEF Typed
  <2>2. MaxTyped \in Nat
    BY HandoffAssumption
  <2>3. typed < MaxTyped
    BY <1>3 DEF Type
  <2>4. typed + 1 \in 0 .. MaxTyped /\ typed + 1 \in Message /\ END \in Message
    BY <2>1, <2>2, <2>3 DEF Message
  <2>5. QED
    BY <1>a, <1>3, <2>4 DEF Typed, ClosesOnce, Type, StepM, mailVars
<1>4. CASE Write
  <2>1. mq \in Slot /\ slot[mq] \in Seq(Message) /\ msg \in Message
    BY <1>a, <1>b, <1>4 DEF Typed, Write, StepM
  <2>2. Append(slot[mq], msg) \in Seq(Message)
    BY <2>1
  <2>3. slot' \in [Slot -> Seq(Message)]
    BY <1>a, <1>4, <2>1, <2>2 DEF Typed, Write
  <2>4. QED
    BY <1>a, <1>4, <2>3 DEF Typed, ClosesOnce, Write, StepM
<1>5. CASE PassL2
  BY <1>a, <1>5 DEF Typed, ClosesOnce, PassL2, StepM, mailVars
<1>6. CASE Close
  <2>1. restarts \in 0 .. MaxRestarts /\ mq \in 1 .. restarts + 2
    BY <1>a DEF Typed
  <2>2. MaxRestarts \in Nat
    BY HandoffAssumption
  <2>3. mq <= restarts + 1
    BY <1>a, <1>6 DEF ClosesOnce, Close, StepM
  <2>4. mq + 1 \in 1 .. restarts + 2
    BY <2>1, <2>2, <2>3
  <2>5. QED
    BY <1>a, <1>6, <2>4 DEF Typed, ClosesOnce, Close, StepM
<1>7. CASE Create
  BY <1>a, <1>7 DEF Typed, ClosesOnce, Create, StepP, mailVars
<1>8. CASE TakeL2
  BY <1>a, <1>8 DEF Typed, ClosesOnce, TakeL2, StepP, mailVars
<1>9. CASE Read
  <2>1. CASE slot[mq] = << >>
    BY <1>a, <1>9, <2>1 DEF Typed, ClosesOnce, Read, StepP
  <2>2. CASE slot[mq] # << >>
    <3>1. mq \in Slot /\ slot[mq] \in Seq(Message) /\ printed[mq] \in Seq(Message)
      BY <1>a, <1>b, <1>9 DEF Typed, Read, StepP
    <3>2. Head(slot[mq]) \in Message /\ Tail(slot[mq]) \in Seq(Message)
      BY <2>2, <3>1
    <3>3. Append(printed[mq], Head(slot[mq])) \in Seq(Message)
      BY <3>1, <3>2
    <3>4. /\ slot' \in [Slot -> Seq(Message)]
          /\ printed' \in [Slot -> Seq(Message)]
      BY <1>a, <1>9, <2>2, <3>1, <3>2, <3>3 DEF Typed, Read
    <3>5. QED
      BY <1>a, <1>9, <3>4 DEF Typed, ClosesOnce, Read, StepP
  <2>3. QED
    BY <2>1, <2>2
<1>10. CASE PassL1
  BY <1>a, <1>10 DEF Typed, ClosesOnce, PassL1, StepP, mailVars
<1>11. CASE Restart
  <2>1. restarts \in 0 .. MaxRestarts /\ mq \in 1 .. restarts + 2
    BY <1>a DEF Typed
  <2>2. MaxRestarts \in Nat
    BY HandoffAssumption
  <2>3. restarts < MaxRestarts
    BY <1>11 DEF Restart
  <2>4. /\ restarts + 1 \in 0 .. MaxRestarts
        /\ mq \in 1 .. (restarts + 1) + 2 /\ mq <= (restarts + 1) + 1
        /\ mq \in Slot
    BY <2>1, <2>2, <2>3 DEF Slot
  <2>5. slot[mq] \in Seq(Message)
    BY <1>a, <2>4 DEF Typed
  <2>6. QED
    BY <1>a, <1>11, <2>4, <2>5 DEF Typed, ClosesOnce, Restart, Start, mailVars
<1>12. CASE Idle
  BY <1>a, <1>12 DEF Typed, ClosesOnce, Idle, vars, mailVars
<1>13. QED
  BY <1>1, <1>2, <1>3, <1>4, <1>5, <1>6, <1>7, <1>8, <1>9, <1>10, <1>11, <1>12
  DEF Next, main, mainGoesOn, producer

(* A mutex is unlocked only by the thread at work, which so passes the     *)
(* turn; the other takes it by locking that mutex again.                   *)
LEMMA TurnsStep == IInv /\ Next => Turns'
<1> SUFFICES ASSUME IInv, Next PROVE Turns'
  OBVIOUS
<1> USE DEF IInv, Typed, Turns, OneTurn, MainAlone, MainTurn, ProducerTurn
<1>1. CASE Await
  BY <1>1 DEF Await, StepM
<1>2. CASE TakeL1
  BY <1>2 DEF TakeL1, StepM
<1>3. CASE Type
  BY <1>3 DEF Type, StepM
<1>4. CASE Write
  BY <1>4 DEF Write, StepM
<1>5. CASE PassL2
  BY <1>5 DEF PassL2, StepM
<1>6. CASE Close
  BY <1>6 DEF Close, StepM
<1>7. CASE Create
  BY <1>7 DEF Create, StepP
<1>8. CASE TakeL2
  BY <1>8 DEF TakeL2, StepP
<1>9. CASE Read
  BY <1>9 DEF Read, StepP
<1>10. CASE PassL1
  BY <1>10 DEF PassL1, StepP
<1>11. CASE Restart
  BY <1>11 DEF Restart, Start
<1>12. CASE Idle
  BY <1>12 DEF Idle, vars
<1>13. QED
  BY <1>1, <1>2, <1>3, <1>4, <1>5, <1>6, <1>7, <1>8, <1>9, <1>10, <1>11, <1>12
  DEF Next, main, mainGoesOn, producer
(* What waits in /mq3 beyond what the program found there is the one text  *)
(* that main has written and producer has not read.                        *)
LEMMA LagStep == IInv /\ Next => LagStays'
<1> SUFFICES ASSUME IInv, Next, mpc' # "exited"
             PROVE  LagStays'
  BY DEF LagStays
<1>a. Typed /\ ClosesOnce /\ Turns /\ LagStays
  BY DEF IInv
<1> DEFINE owed == IF mpc = "pass" \/ ~l2 \/ ppc = "read" THEN 1 ELSE 0
<1>b. ASSUME mpc # "exited"
      PROVE  /\ mq \in Slot /\ slot[mq] \in Seq(Message)
             /\ Len(slot[mq]) = Len(left) + owed
             /\ Len(left) \in Nat
  BY <1>a, <1>b, CurrentSlot DEF LagStays
<1>c. ASSUME mpc # "exited", UNCHANGED <<slot, mq, left>>, owed' = owed
      PROVE  LagStays'
  BY <1>b, <1>c DEF LagStays
<1> USE DEF Turns, OneTurn, MainAlone, MainTurn, ProducerTurn
<1>1. CASE Await
  BY <1>1, <1>c DEF Await, StepM, mailVars
<1>2. CASE TakeL1
  BY <1>2, <1>c DEF TakeL1, StepM, mailVars
<1>3. CASE Type
  BY <1>3, <1>c DEF Type, StepM, mailVars
<1>4. CASE Write
  <2>1. owed = 0 /\ owed' = 1
    BY <1>4, <1>a DEF Write, StepM
  <2>2. slot'[mq'] = Append(slot[mq], msg) /\ left' = left /\ msg \in Message
    BY <1>4, <1>a, <1>b DEF Write, StepM, Typed
  <2>3. Len(slot'[mq']) = Len(slot[mq]) + 1
    BY <1>4, <1>b, <2>2 DEF Write, StepM
  <2>4. QED
    BY <1>4, <1>b, <2>1, <2>2, <2>3 DEF LagStays, Write, StepM
<1>5. CASE PassL2
  BY <1>5, <1>c DEF PassL2, StepM, mailVars
<1>6. CASE Close
  BY <1>6 DEF Close, StepM
<1>7. CASE Create
  <2>1. mpc # "exited" /\ UNCHANGED <<slot, mq, left>>
    BY <1>7 DEF Create, StepP, mailVars
  <2>2. l2' = l2 /\ mpc' = mpc /\ ppc # "read" /\ ppc' # "read"
    BY <1>7 DEF Create, StepP, mailVars
  <2>3. owed' = owed
    BY <2>2
  <2>4. QED
    BY <2>1, <2>3, <1>c
<1>8. CASE TakeL2
  BY <1>8, <1>c DEF TakeL2, StepP, mailVars
<1>9. CASE Read
  <2>1. owed = 1 /\ owed' = 0
    BY <1>9, <1>a DEF Read, StepP, Typed
  <2>2. slot[mq] # << >>
    BY <1>9, <1>b, <2>1, EmptySeq DEF Read, StepP
  <2>3. slot'[mq'] = Tail(slot[mq]) /\ left' = left
    BY <1>9, <1>a, <1>b, <2>2 DEF Read, StepP, Typed
  <2>4. Len(slot'[mq']) = Len(slot[mq]) - 1
    BY <1>9, <1>b, <2>2, <2>3 DEF Read, StepP
  <2>5. QED
    BY <1>9, <1>b, <2>1, <2>3, <2>4 DEF LagStays, Read, StepP
<1>10. CASE PassL1
  BY <1>10, <1>c DEF PassL1, StepP, mailVars
<1>11. CASE Restart
  <2>1. slot'[mq'] = left' /\ owed' = 0
    BY <1>11 DEF Restart, Start, mailVars
  <2>2. left' \in Seq(Message)
    BY TypedStep DEF Typed
  <2>3. Len(left') \in Nat
    BY <2>2, LenProperties
  <2>4. QED
    BY <2>1, <2>3 DEF LagStays
<1>12. CASE Idle
  BY <1>12, <1>c DEF Idle, vars, mailVars
<1>13. QED
  BY <1>1, <1>2, <1>3, <1>4, <1>5, <1>6, <1>7, <1>8, <1>9, <1>10, <1>11, <1>12
  DEF Next, main, mainGoesOn, producer

(* An END in /mq3, or one that producer has read, was there when the       *)
(* program was started, or main is about to close and end.                 *)
LEMMA EndStep == IInv /\ Next => EndExplained'
<1> SUFFICES ASSUME IInv, Next, mpc' # "exited"
             PROVE  EndExplained'
  BY DEF EndExplained
<1>a. Typed /\ ClosesOnce /\ Turns /\ LagStays /\ EndExplained
  BY DEF IInv
<1>b. ASSUME mpc # "exited"
      PROVE  mq \in Slot /\ slot[mq] \in Seq(Message)
  BY <1>a, <1>b, CurrentSlot
<1>c. ASSUME mpc # "exited", UNCHANGED <<slot, mq, left, ppc>>, Ending => Ending'
      PROVE  EndExplained'
  BY <1>a, <1>c DEF EndExplained, EndLeft
<1>1. CASE Await
  BY <1>1, <1>c DEF Await, StepM, mailVars, Ending
<1>2. CASE TakeL1
  BY <1>2, <1>c DEF TakeL1, StepM, mailVars, Ending
<1>3. CASE Type
  BY <1>3, <1>c DEF Type, StepM, mailVars, Ending
<1>4. CASE Write
  <2>1. /\ mq \in Slot /\ slot[mq] \in Seq(Message) /\ msg \in Message
        /\ slot'[mq'] = Append(slot[mq], msg)
        /\ UNCHANGED <<left, ppc, msg>> /\ ~Ending /\ mpc' = "pass"
    BY <1>4, <1>a, <1>b DEF Write, StepM, Typed, Ending
  <2>2. ppc' # "returned"
    BY <1>4, <1>a, <2>1 DEF Write, StepM, Turns, MainAlone, MainTurn
  <2>3. ASSUME NEW i \in DOMAIN slot'[mq'], slot'[mq'][i] = END
        PROVE  EndLeft' \/ Ending'
    <3>1. CASE i = Len(slot[mq]) + 1
      BY <2>1, <2>3, <3>1 DEF Ending
    <3>2. CASE i # Len(slot[mq]) + 1
      <4>1. i \in DOMAIN slot[mq] /\ slot[mq][i] = END
        BY <2>1, <2>3, <3>2
      <4>2. QED
        BY <1>4, <1>a, <2>1, <4>1 DEF EndExplained, EndLeft, Write, StepM
    <3>3. QED
      BY <3>1, <3>2
  <2>4. QED
    BY <2>2, <2>3 DEF EndExplained
<1>5. CASE PassL2
  <2>1. Ending => Ending'
    BY <1>5 DEF PassL2, StepM, Ending
  <2>2. QED
    BY <1>5, <1>c, <2>1 DEF PassL2, StepM, mailVars
<1>6. CASE Close
  BY <1>6 DEF Close, StepM
<1>7. CASE Create
  <2>1. /\ mpc # "exited" /\ ppc' # "returned"
        /\ UNCHANGED <<slot, mq, left, mpc, msg>>
    BY <1>7 DEF Create, StepP, mailVars
  <2>2. QED
    BY <1>a, <2>1 DEF EndExplained, EndLeft, Ending
<1>8. CASE TakeL2
  <2>1. /\ mpc # "exited" /\ ppc' # "returned"
        /\ UNCHANGED <<slot, mq, left, mpc, msg>>
    BY <1>8 DEF TakeL2, StepP, mailVars
  <2>2. QED
    BY <1>a, <2>1 DEF EndExplained, EndLeft, Ending
<1>9. CASE Read
  <2>1. mpc # "exited" /\ UNCHANGED <<mq, left, mpc, msg>>
    BY <1>9 DEF Read, StepP
  <2>2. mq \in Slot /\ slot[mq] \in Seq(Message)
    BY <1>b, <2>1
  <2>3. CASE slot[mq] = << >>
    BY <1>9, <1>a, <2>1, <2>3 DEF Read, StepP, EndExplained, EndLeft, Ending
  <2>4. CASE slot[mq] # << >>
    <3>1. slot'[mq'] = Tail(slot[mq])
      BY <1>9, <1>a, <2>1, <2>2, <2>4 DEF Read, Typed
    <3>2. 1 \in DOMAIN slot[mq] /\ Head(slot[mq]) = slot[mq][1]
      BY <2>2, <2>4
    <3>3. ASSUME NEW i \in DOMAIN slot'[mq'], slot'[mq'][i] = END
          PROVE  i + 1 \in DOMAIN slot[mq] /\ slot[mq][i + 1] = END
      BY <2>2, <2>4, <3>1, <3>3
    <3>4. ppc' = "returned" => slot[mq][1] = END
      BY <1>9, <3>2 DEF Read, StepP
    <3>5. QED
      BY <1>a, <2>1, <3>2, <3>3, <3>4 DEF EndExplained, EndLeft, Ending
  <2>5. QED
    BY <2>3, <2>4
<1>10. CASE PassL1
  <2>1. /\ mpc # "exited" /\ ppc' # "returned"
        /\ UNCHANGED <<slot, mq, left, mpc, msg>>
    BY <1>10 DEF PassL1, StepP, mailVars
  <2>2. QED
    BY <1>a, <2>1 DEF EndExplained, EndLeft, Ending
<1>11. CASE Restart
  <2>1. slot'[mq'] = left' /\ ppc' # "returned"
    BY <1>11 DEF Restart, Start, mailVars
  <2>2. QED
    BY <2>1 DEF EndExplained, EndLeft
<1>12. CASE Idle
  BY <1>12, <1>c DEF Idle, vars, mailVars, Ending
<1>13. QED
  BY <1>1, <1>2, <1>3, <1>4, <1>5, <1>6, <1>7, <1>8, <1>9, <1>10, <1>11, <1>12
  DEF Next, main, mainGoesOn, producer
-----------------------------------------------------------------------------
(* The invariant holds of every run of the program, restarts included.     *)
THEOREM Invariance == Spec => []IInv
<1>1. ASSUME IInv, UNCHANGED vars PROVE IInv'
  <2> USE <1>1 DEF vars, mailVars, IInv
  <2>1. Typed' /\ ClosesOnce'
    BY DEF Typed, ClosesOnce
  <2>2. Turns'
    BY DEF Turns, OneTurn, MainAlone, MainTurn, ProducerTurn
  <2>3. LagStays'
    BY DEF LagStays
  <2>4. EndExplained'
    BY DEF EndExplained, EndLeft, Ending
  <2>5. QED
    BY <2>1, <2>2, <2>3, <2>4
<1>2. IInv /\ [Next]_vars => IInv'
  BY <1>1, TypedStep, TurnsStep, LagStep, EndStep DEF IInv
<1>3. QED
  BY InitIInv, <1>2, PTL DEF Spec

(* Every variable keeps its type, in lab1.3/intro2.c started again and     *)
(* again at any statement.                                                 *)
THEOREM HandoffTyped == Spec => []TypeOK
<1>1. IInv => TypeOK
  BY DEF IInv, Typed, TypeOK
<1>2. QED
  BY Invariance, <1>1, PTL

(* The two mutexes pass one turn between main and producer, which is never *)
(* lost while both run, and neither unlocks a mutex that is not locked.    *)
THEOREM TurnIsOne == Spec => []OneTurn
<1>1. IInv => OneTurn
  BY DEF IInv, Turns
<1>2. QED
  BY Invariance, <1>1, PTL

(* A program that finds n texts in /mq3 prints n texts late, for ever.     *)
THEOREM LagIsConstant == Spec => []LagStays
<1>1. IInv => LagStays
  BY DEF IInv
<1>2. QED
  BY Invariance, <1>1, PTL

(* Only what an earlier run left in /mq3, or a mailslot that cannot be     *)
(* made, stops the program.                                                *)
THEOREM LeftoversStop == Spec => []OnlyLeftoversStop
<1>1. ASSUME IInv, Stuck PROVE OnlyLeftoversStop
  <2>1. CASE mpc \in {"await", "lock"} /\ ppc = "no slot"
    BY <2>1 DEF OnlyLeftoversStop
  <2>2. CASE mpc \in {"await", "lock"} /\ ppc = "returned"
    BY <1>1, <2>2 DEF IInv, EndExplained, EndLeft, Ending, OnlyLeftoversStop
  <2>3. CASE mpc = "write" /\ Len(slot[mq]) = MAXMSG
    <3>1. l2 /\ ppc = "wait"
      BY <1>1, <2>3 DEF IInv, Turns, OneTurn, MainAlone, MainTurn
    <3>2. Len(slot[mq]) = Len(left) + 0
      BY <1>1, <2>3, <3>1 DEF IInv, LagStays
    <3>3. Len(left) \in Nat
      BY <1>1, LenProperties DEF IInv, Typed
    <3>4. QED
      BY <2>3, <3>2, <3>3 DEF OnlyLeftoversStop
  <2>4. QED
    BY <1>1, <2>1, <2>2, <2>3 DEF Stuck
<1>2. IInv => OnlyLeftoversStop
  BY <1>1 DEF OnlyLeftoversStop
<1>3. QED
  BY Invariance, <1>2, PTL
=============================================================================
