-------------------------- MODULE FtpServiceProof --------------------------
(* Theorems about FtpService, for every value of its constants.            *)
EXTENDS FtpService, SequenceTheorems, TLAPS

USE DEF Instances, NoInstance, Broadcasts, ServerPoints, Idle

\* startService leaves a well-formed record, count and queue.
LEMMA StartServiceType ==
  ASSUME TypeOK, StartService, BoundsAssumption
  PROVE  /\ record' \in Instances
         /\ made' \in 0..MaxInstances
         /\ inbox' \in Seq(Messages)
<1> DEFINE svc == IF record = NoInstance THEN made + 1 ELSE record
<1>1. svc \in Instances /\ [op |-> "start", svc |-> svc] \in Messages
  BY DEF StartService, Messages
<1>2. inbox \in Seq(Messages) /\ inbox' = Append(inbox, [op |-> "start", svc |-> svc])
  BY DEF StartService, TypeOK
<1>3. inbox' \in Seq(Messages)
  <2> HIDE DEF svc
  <2> QED BY <1>1, <1>2, AppendProperties
<1> QED BY <1>1, <1>3 DEF StartService, TypeOK, BoundsAssumption

\* So does stopService, and with it stopSelf.
LEMMA StopServiceType ==
  ASSUME TypeOK, StopService
  PROVE  /\ record' \in Instances \union {NoInstance}
         /\ made' = made
         /\ inbox' \in Seq(Messages)
<1>1. inbox \in Seq(Messages) /\ record \in Instances \union {NoInstance}
  BY DEF TypeOK
<1>2. CASE record = NoInstance
  BY <1>1, <1>2 DEF StopService
<1>3. CASE record # NoInstance
  <2>1. [op |-> "destroy", svc |-> record] \in Messages
    BY <1>1, <1>3 DEF Messages
  <2>2. inbox' = Append(inbox, [op |-> "destroy", svc |-> record])
    BY <1>3 DEF StopService
  <2>3. inbox' \in Seq(Messages)
    <3> QED BY <1>1, <2>1, <2>2, AppendProperties
  <2> QED BY <2>3 DEF StopService
<1> QED BY <1>2, <1>3

LEMMA StopSelfType ==
  ASSUME TypeOK, NEW svc \in Instances, StopSelf(svc)
  PROVE  /\ record' \in Instances \union {NoInstance}
         /\ made' = made
         /\ inbox' \in Seq(Messages)
  BY StopServiceType DEF StopSelf, amsVars, TypeOK

\* Taking a message off the main thread's queue keeps the queue well formed.
LEMMA ReceiveType ==
  ASSUME TypeOK, NEW op, NEW svc \in Instances, Receive(op, svc)
  PROVE  /\ record' = record /\ made' = made
         /\ inbox' \in Seq(Messages)
<1>1. inbox \in Seq(Messages) /\ inbox # <<>> /\ inbox' = Tail(inbox)
  BY DEF TypeOK, Receive
<1>2. inbox' \in Seq(Messages)
  <2> QED BY <1>1, HeadTailProperties
<1> QED BY <1>2 DEF Receive

LEMMA BroadcastType ==
  ASSUME TypeOK, NEW action \in Broadcasts, SendBroadcast(action)
  PROVE  outbox' \in Seq(Broadcasts)
<1>1. outbox \in Seq(Broadcasts) BY DEF TypeOK
<1> HIDE DEF Broadcasts
<1> QED BY <1>1, AppendProperties DEF SendBroadcast
-----------------------------------------------------------------------------
(* Type correctness.                                                       *)

LEMMA RequestType ==
  ASSUME TypeOK, BoundsAssumption, Request \/ Kill \/ Deliver
  PROVE  TypeOK'
<1> USE DEF amsVars, serverVars, lockVars, sessionVars, boundVars
<1>1. CASE RequestStart
  <2>1. StartService BY <1>1 DEF RequestStart
  <2>2. requests' \in 0..MaxRequests BY <1>1 DEF RequestStart, TypeOK, BoundsAssumption
  <2> QED BY <1>1, <2>1, <2>2, StartServiceType DEF RequestStart, TypeOK
<1>2. CASE RequestStop
  <2>1. StopService BY <1>2 DEF RequestStop
  <2>2. requests' \in 0..MaxRequests BY <1>2 DEF RequestStop, TypeOK, BoundsAssumption
  <2> QED BY <1>2, <2>1, <2>2, StopServiceType DEF RequestStop, TypeOK
<1>3. CASE TaskRemovedAlarm
  <2>1. StartService BY <1>3 DEF TaskRemovedAlarm
  <2>2. requests' \in 0..MaxRequests BY <1>3 DEF TaskRemovedAlarm, TypeOK, BoundsAssumption
  <2> QED BY <1>3, <2>1, <2>2, StartServiceType DEF TaskRemovedAlarm, TypeOK
<1>4. CASE Deliver
  <2>1. outbox' \in Seq(Broadcasts) /\ heard' \in Broadcasts
    <3>1. outbox \in Seq(Broadcasts) BY DEF TypeOK
    <3> HIDE DEF Broadcasts
    <3> QED BY <1>4, <3>1, HeadTailProperties DEF Deliver
  <2> QED BY <1>4, <2>1 DEF Deliver, TypeOK
<1>5. CASE Kill
  <2>1. /\ record \in 0..MaxInstances /\ made \in 0..MaxInstances /\ MaxInstances \in Nat
        /\ record # NoInstance => made + 1 \in Instances
    BY <1>5, BoundsAssumption DEF Kill, TypeOK, BoundsAssumption
  <2>2. /\ record' \in Instances \union {NoInstance} /\ made' \in 0..MaxInstances
        /\ gone' \in SUBSET Instances
    BY <1>5, <2>1 DEF Kill
  <2>6. kills' \in 0..MaxKills
    BY <1>5, BoundsAssumption DEF Kill, TypeOK, BoundsAssumption
  <2>7. inbox' \in Seq(Messages)
    <3>1. CASE record = NoInstance BY <1>5, <3>1 DEF Kill
    <3>2. CASE record # NoInstance
      <4> DEFINE m == [op |-> "start", svc |-> made + 1]
      <4>1. m \in Messages
        BY <2>1, <3>2 DEF Messages
      <4>2. inbox' = <<m>>
        BY <1>5, <3>2 DEF Kill
      <4> HIDE DEF m
      <4> QED BY <4>1, <4>2
    <3> QED BY <3>1, <3>2
  <2>3. /\ server' \in [Instances -> ServerPoints]
        /\ listener' \in [Instances -> {"none", "running", "dead"}]
    BY <1>5 DEF Kill, TypeOK
  <2>4. session' \in [Sessions -> SessionStates]
    BY <1>5 DEF Kill, KillSessions, TypeOK, SessionStates
  <2>5. main' \in MainPoints
    BY <1>5 DEF Kill, MainPoints
  <2> QED BY <1>5, <2>2, <2>3, <2>4, <2>5, <2>6, <2>7 DEF Kill, TypeOK
<1> QED BY <1>1, <1>2, <1>3, <1>4, <1>5 DEF Request

LEMMA MainType ==
  ASSUME TypeOK, MainStep
  PROVE  TypeOK'
<1> USE DEF amsVars, serverVars, lockVars, sessionVars, boundVars, MainAt
<1> PICK svc \in Instances :
      \/ onStartCommand(svc) \/ EndWait(svc)
      \/ onDestroy(svc) \/ JoinServerThread(svc)
      \/ CloseListenSocket(svc) \/ ReleaseWifiLock(svc) \/ ReleaseWakeLock(svc)
  BY DEF MainStep
<1>1. CASE onStartCommand(svc)
  <2>1. Receive("start", svc) BY <1>1 DEF onStartCommand
  <2>2. main' \in MainPoints BY <1>1 DEF onStartCommand, TypeOK, MainPoints
  <2> QED BY <1>1, <2>1, <2>2, ReceiveType DEF onStartCommand, CreateServerThread, TypeOK
<1>2. CASE EndWait(svc)
  BY <1>2 DEF EndWait, CreateServerThread, TypeOK, MainPoints
<1>3. CASE onDestroy(svc)
  <2>1. Receive("destroy", svc) BY <1>3 DEF onDestroy
  <2>2. main' \in MainPoints BY <1>3 DEF onDestroy, TypeOK, MainPoints
  <2> QED BY <1>3, <2>1, <2>2, ReceiveType DEF onDestroy, RaiseExitFlag, TypeOK
<1>4. CASE JoinServerThread(svc)
  BY <1>4 DEF JoinServerThread, ThreadAfterJoin, TypeOK, MainPoints
<1>5. CASE CloseListenSocket(svc)
  BY <1>5 DEF CloseListenSocket, TypeOK, MainPoints
<1>6. CASE ReleaseWifiLock(svc)
  BY <1>6 DEF ReleaseWifiLock, TypeOK, MainPoints
<1>7. CASE ReleaseWakeLock(svc)
  BY <1>7 DEF ReleaseWakeLock, TypeOK, MainPoints
<1> QED BY <1>1, <1>2, <1>3, <1>4, <1>5, <1>6, <1>7

LEMMA ServerType ==
  ASSUME TypeOK, NEW svc \in Instances, ServerStep(svc)
  PROVE  TypeOK'
<1> USE DEF amsVars, serverVars, lockVars, sessionVars, boundVars, Goto
<1>1. CASE CheckNetwork(svc)
  BY <1>1 DEF CheckNetwork, TypeOK
<1>2. CASE Bind(svc)
  BY <1>2 DEF Bind, TypeOK
<1>3. CASE takeWifiLock(svc)
  BY <1>3 DEF takeWifiLock, TypeOK
<1>4. CASE takeWakeLock(svc)
  BY <1>4 DEF takeWakeLock, TypeOK
<1>5. CASE SpawnListener(svc)
  BY <1>5 DEF SpawnListener, TypeOK
<1>6. CASE LeaveLoop(svc)
  BY <1>6 DEF LeaveLoop, TypeOK
<1>7. CASE terminateAllSessions(svc)
  BY <1>7 DEF terminateAllSessions, TypeOK, SessionStates
<1>8. CASE QuitListener(svc)
  BY <1>8 DEF QuitListener, TypeOK
<1>9. CASE AnnounceStarted(svc)
  <2>1. SendBroadcast("STARTED") BY <1>9 DEF AnnounceStarted
  <2>2. outbox' \in Seq(Broadcasts) BY <2>1, BroadcastType
  <2> QED BY <1>9, <2>2 DEF AnnounceStarted, TypeOK
<1>10. CASE AnnounceStopped(svc)
  <2>1. SendBroadcast("STOPPED") BY <1>10 DEF AnnounceStopped
  <2>2. outbox' \in Seq(Broadcasts) BY <2>1, BroadcastType
  <2> QED BY <1>10, <2>2 DEF AnnounceStopped, TypeOK
<1>11. CASE AnnounceFailed(svc)
  <2>1. SendBroadcast("FAILEDTOSTART") BY <1>11 DEF AnnounceFailed
  <2>2. outbox' \in Seq(Broadcasts) BY <2>1, BroadcastType
  <2> QED BY <1>11, <2>2 DEF AnnounceFailed, TypeOK
<1>12. CASE AcknowledgeExit(svc)
  <2>1. StopSelf(svc) BY <1>12 DEF AcknowledgeExit
  <2> QED BY <1>12, <2>1, StopSelfType DEF AcknowledgeExit, TypeOK
<1>13. CASE BailOut(svc)
  <2>1. StopSelf(svc) BY <1>13 DEF BailOut
  <2> QED BY <1>13, <2>1, StopSelfType DEF BailOut, TypeOK
<1> QED BY <1>1, <1>2, <1>3, <1>4, <1>5, <1>6, <1>7, <1>8, <1>9, <1>10, <1>11, <1>12, <1>13
              DEF ServerStep

LEMMA ListenerType ==
  ASSUME TypeOK, NEW svc \in Instances, ListenerStep(svc)
  PROVE  TypeOK'
<1> USE DEF amsVars, serverVars, lockVars, sessionVars, boundVars
<1>1. ASSUME NEW s \in Sessions, Accept(svc, s) PROVE TypeOK'
  BY <1>1 DEF Accept, TypeOK, SessionStates
<1>2. CASE registerSessionThread(svc)
  BY <1>2 DEF registerSessionThread, Unfinished, TypeOK
<1>3. CASE ListenerEnds(svc)
  BY <1>3 DEF ListenerEnds, TypeOK
<1> QED BY <1>1, <1>2, <1>3 DEF ListenerStep

LEMMA SessionEndsType ==
  ASSUME TypeOK, NEW s \in Sessions, SessionEnds(s)
  PROVE  TypeOK'
  BY DEF SessionEnds, TypeOK, SessionStates, amsVars, serverVars, lockVars, boundVars

\* Every variable keeps its type in every behaviour.
THEOREM TypeCorrect == Spec => []TypeOK
<1>1. Init => TypeOK
  BY BoundsAssumption DEF Init, TypeOK, SessionStates, MainPoints, BoundsAssumption
<1>2. TypeOK /\ [Next]_vars => TypeOK'
  <2> SUFFICES ASSUME TypeOK, [Next]_vars PROVE TypeOK'
    OBVIOUS
  <2>1. CASE UNCHANGED vars
    BY <2>1 DEF vars, TypeOK
  <2>2. CASE Next
    BY <2>2, BoundsAssumption, RequestType, MainType, ServerType, ListenerType,
       SessionEndsType DEF Next
  <2> QED BY <2>1, <2>2
<1> QED BY <1>1, <1>2, PTL DEF Spec
-----------------------------------------------------------------------------
(* The live server thread is the one in serverThread.                      *)

\* A thread can only start to live where onStartCommand creates one, and only a
\* step of the main thread or a kill changes serverThread.
LEMMA OnlyOwnThreadMoves ==
  ASSUME TypeOK, NEW svc \in Instances, ServerStep(svc), LiveThreadIsTracked
  PROVE  LiveThreadIsTracked'
<1>1. Alive(svc) /\ serverThread' = serverThread
  BY DEF ServerStep, CheckNetwork, Bind, takeWifiLock, takeWakeLock, AnnounceStarted,
     SpawnListener, LeaveLoop, terminateAllSessions, QuitListener, AcknowledgeExit,
     AnnounceStopped, BailOut, AnnounceFailed, Goto, Alive
<1>2. \A other \in Instances \ {svc} : server'[other] = server[other]
  BY DEF ServerStep, CheckNetwork, Bind, takeWifiLock, takeWakeLock, AnnounceStarted,
     SpawnListener, LeaveLoop, terminateAllSessions, QuitListener, AcknowledgeExit,
     AnnounceStopped, BailOut, AnnounceFailed, Goto, TypeOK
<1> QED BY <1>1, <1>2 DEF LiveThreadIsTracked, Alive

\* For every number of instances, and whether or not the join may expire, a live
\* server thread is the one serverThread holds.
THEOREM TrackedThread == Spec => []LiveThreadIsTracked
<1>1. Init => LiveThreadIsTracked
  BY DEF Init, LiveThreadIsTracked, Alive
<1>2. TypeOK /\ LiveThreadIsTracked /\ [Next]_vars => LiveThreadIsTracked'
  <2> SUFFICES ASSUME TypeOK, LiveThreadIsTracked, [Next]_vars
               PROVE  LiveThreadIsTracked'
    OBVIOUS
  <2>1. CASE UNCHANGED <<server, serverThread>>
    BY <2>1 DEF LiveThreadIsTracked, Alive
  <2>2. CASE Request \/ Deliver
    BY <2>1, <2>2 DEF Request, RequestStart, RequestStop, TaskRemovedAlarm, Deliver
  <2>3. CASE Kill
    BY <2>3 DEF Kill, LiveThreadIsTracked, Alive
  <2>4. ASSUME NEW svc \in Instances,
               \/ onStartCommand(svc) \/ EndWait(svc)
               \/ onDestroy(svc) \/ JoinServerThread(svc)
               \/ CloseListenSocket(svc) \/ ReleaseWifiLock(svc) \/ ReleaseWakeLock(svc)
        PROVE  LiveThreadIsTracked'
    <3>1. CASE onStartCommand(svc) \/ EndWait(svc)
      <4>1. CASE serverThread = NoInstance
        <5>1. CreateServerThread(svc)
          BY <3>1, <4>1 DEF onStartCommand, EndWait
        <5>2. \A other \in Instances : ~Alive(other)
          BY <4>1 DEF LiveThreadIsTracked
        <5> QED BY <5>1, <5>2 DEF CreateServerThread, LiveThreadIsTracked, Alive, TypeOK
      <4>2. CASE serverThread # NoInstance
        BY <2>1, <3>1, <4>2 DEF onStartCommand, EndWait
      <4> QED BY <4>1, <4>2
    <3>2. CASE JoinServerThread(svc)
      BY <3>2 DEF JoinServerThread, ThreadAfterJoin, LiveThreadIsTracked, Alive
    <3>3. CASE onDestroy(svc) \/ CloseListenSocket(svc) \/ ReleaseWifiLock(svc)
                 \/ ReleaseWakeLock(svc)
      BY <2>1, <3>3 DEF onDestroy, CloseListenSocket, ReleaseWifiLock, ReleaseWakeLock
    <3> QED BY <2>4, <3>1, <3>2, <3>3
  <2>5. ASSUME NEW svc \in Instances, ServerStep(svc) PROVE LiveThreadIsTracked'
    BY <2>5, OnlyOwnThreadMoves
  <2>6. ASSUME NEW svc \in Instances, ListenerStep(svc) PROVE LiveThreadIsTracked'
    BY <2>1, <2>6 DEF ListenerStep, Accept, registerSessionThread, ListenerEnds
  <2>7. ASSUME NEW s \in Sessions, SessionEnds(s) PROVE LiveThreadIsTracked'
    BY <2>1, <2>7 DEF SessionEnds
  <2>8. CASE UNCHANGED vars
    BY <2>1, <2>8 DEF vars
  <2> QED BY <2>2, <2>3, <2>4, <2>5, <2>6, <2>7, <2>8 DEF Next, MainStep
<1> QED BY <1>1, <1>2, TypeCorrect, PTL DEF Spec
-----------------------------------------------------------------------------
(* FtpService implements OnOffServer.                                      *)

PhaseAt(point) ==
  IF point \in StartingPoints THEN "starting"
  ELSE IF point \in UpPoints THEN "up" ELSE "off"

IInv == TypeOK /\ LiveThreadIsTracked

PhaseFits ==
  phase = IF serverThread = NoInstance THEN "off" ELSE PhaseAt(server[serverThread])

\* With at most one live thread, the phase is where that thread is.
LEMMA PhaseOfThread == IInv => PhaseFits
<1> SUFFICES ASSUME IInv PROVE PhaseFits
  OBVIOUS
<1>1. \A svc \in Instances : server[svc] \in StartingPoints \union UpPoints => Alive(svc)
  BY DEF StartingPoints, UpPoints, Alive
<1>2. \A svc \in Instances : server[svc] \in StartingPoints \union UpPoints
                                 => serverThread = svc
  BY <1>1 DEF IInv, LiveThreadIsTracked
<1>3. serverThread = NoInstance \/ serverThread \in Instances
  BY DEF IInv, TypeOK
<1>4. NoInstance \notin Instances
  OBVIOUS
<1> QED
  <2> HIDE DEF Instances, NoInstance
  <2> QED BY <1>2, <1>3, <1>4 DEF phase, PhaseAt, PhaseFits

\* Delivering the oldest broadcast does not change which one was sent last.
LEMMA DeliverKeepsTold ==
  ASSUME IInv, Deliver
  PROVE  told' = told
<1>1. outbox \in Seq(Broadcasts) /\ outbox # <<>>
  BY DEF IInv, TypeOK, Deliver
<1>2. outbox' = Tail(outbox) /\ heard' = Head(outbox)
  BY DEF Deliver
<1> HIDE DEF Broadcasts
<1>3. CASE Len(outbox) = 1
  <2>1. /\ Tail(outbox) \in Seq(Broadcasts) /\ Len(Tail(outbox)) = 0
        /\ Head(outbox) = outbox[1]
    BY <1>1, <1>3, HeadTailProperties
  <2>2. Tail(outbox) = <<>>
    BY <2>1, EmptySeq
  <2> QED BY <1>1, <1>2, <1>3, <2>1, <2>2 DEF told
<1>4. CASE Len(outbox) # 1
  <2>1. Len(outbox) \in Nat /\ Len(outbox) > 1
    <3> DEFINE n == Len(outbox)
    <3>1. n \in Nat \ {0} BY Zenon, <1>1, EmptySeq
    <3>2. n # 1 BY <1>4
    <3>3. n \in Nat /\ n > 1
      <4> HIDE DEF n
      <4> QED BY <3>1, <3>2
    <3> QED BY Zenon, <3>3
  <2>2. Len(Tail(outbox)) = Len(outbox) - 1
    BY <1>1, HeadTailProperties
  <2>3. Tail(outbox)[Len(outbox) - 1] = outbox[Len(outbox)]
    <3>1. Len(outbox) - 1 \in 1..Len(Tail(outbox)) BY <2>1, <2>2
    <3> QED BY <1>1, <2>1, <3>1, HeadTailProperties
  <2>4. Tail(outbox) # <<>>
    <3>1. Len(Tail(outbox)) # 0 BY <1>1, <2>1, <2>2
    <3>2. Len(<<>>) = 0 OBVIOUS
    <3> QED BY <3>1, <3>2
  <2> QED BY <1>1, <1>2, <2>2, <2>3, <2>4 DEF told
<1> QED BY <1>3, <1>4

LEMMA BroadcastTold ==
  ASSUME IInv, NEW action \in Broadcasts, SendBroadcast(action)
  PROVE  told' = action
<1>1. outbox \in Seq(Broadcasts) /\ outbox' = Append(outbox, action)
  BY DEF IInv, TypeOK, SendBroadcast
<1> HIDE DEF Broadcasts
<1>2. outbox' # <<>> /\ outbox'[Len(outbox')] = action
  BY <1>1
<1> QED BY <1>2 DEF told

\* A step of the live server thread starts, fails, stops or stutters.
LEMMA ServerRefines ==
  ASSUME IInv, IInv', NEW svc \in Instances, ServerStep(svc)
  PROVE  OnOff!Next \/ UNCHANGED <<phase, told>>
<1> USE DEF Goto
<1> DEFINE Same == outbox' = outbox /\ heard' = heard
<1>1. /\ serverThread = svc /\ serverThread' = svc /\ svc # NoInstance
      /\ server[svc] \in ServerPoints /\ server'[svc] \in ServerPoints
  BY DEF ServerStep, CheckNetwork, Bind, takeWifiLock, takeWakeLock, AnnounceStarted,
     SpawnListener, LeaveLoop, terminateAllSessions, QuitListener, AcknowledgeExit,
     AnnounceStopped, BailOut, AnnounceFailed, IInv, LiveThreadIsTracked, Alive, TypeOK
<1>2. phase = PhaseAt(server[svc]) /\ phase' = PhaseAt(server'[svc])
  <2>1. PhaseFits BY PhaseOfThread
  <2>2. PhaseFits' BY PhaseOfThread, PTL
  <2> QED BY <1>1, <2>1, <2>2 DEF PhaseFits
<1>3. ASSUME Same PROVE told' = told
  BY <1>3 DEF told
<1>4. CASE \/ CheckNetwork(svc) \/ Bind(svc) \/ takeWifiLock(svc) \/ takeWakeLock(svc)
           \/ SpawnListener(svc) \/ LeaveLoop(svc) \/ terminateAllSessions(svc)
           \/ QuitListener(svc) \/ AcknowledgeExit(svc) \/ BailOut(svc)
  <2>1. Same /\ PhaseAt(server[svc]) = PhaseAt(server'[svc])
    BY <1>1, <1>4 DEF CheckNetwork, Bind, takeWifiLock, takeWakeLock, SpawnListener,
       LeaveLoop, terminateAllSessions, QuitListener, AcknowledgeExit, BailOut,
       PhaseAt, StartingPoints, UpPoints, IInv, TypeOK
  <2> QED BY <1>2, <1>3, <2>1
<1>5. CASE AnnounceStarted(svc)
  <2>1. told' = "STARTED"
    BY <1>5, BroadcastTold DEF AnnounceStarted
  <2>2. phase = "starting" /\ phase' = "up"
    BY <1>2, <1>5 DEF AnnounceStarted, PhaseAt, StartingPoints, UpPoints, IInv, TypeOK
  <2> QED BY <2>1, <2>2 DEF OnOff!Next, OnOff!Succeed
<1>6. CASE AnnounceStopped(svc)
  <2>1. told' = "STOPPED"
    BY <1>6, BroadcastTold DEF AnnounceStopped
  <2>2. phase = "up" /\ phase' = "off"
    BY <1>2, <1>6 DEF AnnounceStopped, PhaseAt, StartingPoints, UpPoints, IInv, TypeOK
  <2> QED BY <2>1, <2>2 DEF OnOff!Next, OnOff!Stop
<1>7. CASE AnnounceFailed(svc)
  <2>1. told' = "FAILEDTOSTART"
    BY <1>7, BroadcastTold DEF AnnounceFailed
  <2>2. phase = "starting" /\ phase' = "off"
    BY <1>2, <1>7 DEF AnnounceFailed, PhaseAt, StartingPoints, UpPoints, IInv, TypeOK
  <2> QED BY <2>1, <2>2 DEF OnOff!Next, OnOff!Fail
<1> QED BY <1>4, <1>5, <1>6, <1>7 DEF ServerStep

\* A step of the main thread begins a start or leaves the server as it is.
LEMMA MainRefines ==
  ASSUME IInv, IInv', MainStep
  PROVE  OnOff!Next \/ UNCHANGED <<phase, told>>
<1> PICK svc \in Instances :
      \/ onStartCommand(svc) \/ EndWait(svc)
      \/ onDestroy(svc) \/ JoinServerThread(svc)
      \/ CloseListenSocket(svc) \/ ReleaseWifiLock(svc) \/ ReleaseWakeLock(svc)
  BY DEF MainStep
<1>1. told' = told
  BY DEF onStartCommand, EndWait, onDestroy, JoinServerThread, CloseListenSocket,
     ReleaseWifiLock, ReleaseWakeLock, told
<1>2. CASE (onStartCommand(svc) \/ EndWait(svc)) /\ serverThread = NoInstance
  <2>1. server' = [server EXCEPT ![svc] = "network"] /\ serverThread' = svc
    BY <1>2 DEF onStartCommand, EndWait, CreateServerThread
  <2>2. server'[svc] = "network" /\ svc # NoInstance
    BY <2>1 DEF IInv, TypeOK
  <2>3. phase = "off"
    BY <1>2, PhaseOfThread DEF PhaseFits
  <2>4. phase' = PhaseAt(server'[svc])
    <3>1. PhaseFits' BY PhaseOfThread, PTL
    <3> QED BY <2>1, <2>2, <3>1 DEF PhaseFits
  <2>5. phase' = "starting"
    BY <2>2, <2>4 DEF PhaseAt, StartingPoints
  <2> QED BY <1>1, <2>3, <2>5 DEF OnOff!Next, OnOff!Begin
<1>3. CASE server' = server
  BY <1>1, <1>3 DEF phase
<1> QED
  BY <1>2, <1>3 DEF onStartCommand, EndWait, onDestroy, JoinServerThread,
     CloseListenSocket, ReleaseWifiLock, ReleaseWakeLock

\* A kill takes a server that was not off down without telling.
LEMMA KillRefines ==
  ASSUME IInv, IInv', Kill
  PROVE  OnOff!Next \/ UNCHANGED <<phase, told>>
<1>1. told' = told BY DEF Kill, told
<1>2. phase' = "off"
  <2>1. \A svc \in Instances : server'[svc] \in {"none", "dead"}
    BY DEF Kill
  <2> QED BY <2>1 DEF phase, StartingPoints, UpPoints
<1> QED BY <1>1, <1>2 DEF OnOff!Next, OnOff!Die

\* For every number of instances, sessions, requests and kills, and whether or not the
\* join may expire, the service is one on/off server to those who hear its broadcasts.
THEOREM Refinement == Spec => ImplementsOnOffServer
<1>1. Init => OnOff!Init
  BY DEF Init, OnOff!Init, phase, told, StartingPoints, UpPoints
<1>2. IInv /\ IInv' /\ [Next]_vars => [OnOff!Next]_<<phase, told>>
  <2> SUFFICES ASSUME IInv, IInv', [Next]_vars
               PROVE  OnOff!Next \/ UNCHANGED <<phase, told>>
    OBVIOUS
  <2>1. CASE UNCHANGED <<server, outbox, heard>>
    BY <2>1 DEF phase, told
  <2>2. CASE Request
    BY <2>1, <2>2 DEF Request, RequestStart, RequestStop, TaskRemovedAlarm
  <2>3. CASE Deliver
    <3>1. told' = told BY <2>3, DeliverKeepsTold
    <3>2. phase' = phase BY <2>3 DEF Deliver, phase
    <3> QED BY <3>1, <3>2
  <2>4. ASSUME NEW svc \in Instances, ListenerStep(svc)
        PROVE  UNCHANGED <<server, outbox, heard>>
    BY <2>4 DEF ListenerStep, Accept, registerSessionThread, ListenerEnds
  <2>5. ASSUME NEW s \in Sessions, SessionEnds(s)
        PROVE  UNCHANGED <<server, outbox, heard>>
    BY <2>5 DEF SessionEnds
  <2>6. CASE UNCHANGED vars
    BY <2>1, <2>6 DEF vars
  <2> QED BY <2>1, <2>2, <2>3, <2>4, <2>5, <2>6, ServerRefines, MainRefines, KillRefines
          DEF Next
<1> QED BY <1>1, <1>2, TypeCorrect, TrackedThread, PTL DEF Spec, ImplementsOnOffServer,
           OnOff!Spec, IInv
-----------------------------------------------------------------------------
(* onDestroy releases all that its instance holds, if its join never       *)
(* expires. That needs the order of the main thread's messages: a second   *)
(* instance is made before the first is destroyed, and one serverThread    *)
(* serves them both.                                                       *)

\* The instance whose onDestroy is under way.
Destroying == IF main.at \in {"join", "close", "wifi", "wake"} THEN main.svc ELSE NoInstance

\* The service record is of the last instance made, and never of one that is being, or
\* has been, destroyed.
RecordInv ==
  /\ record \in {NoInstance, made} /\ record \notin gone
  /\ gone \subseteq 1..made /\ serverThread <= made /\ main.svc <= made
  /\ Destroying # NoInstance => Destroying \notin gone /\ Destroying # record

\* The messages of an instance come before those of the next, its destroy message last,
\* and those of the instance that the main thread or the server thread is busy with
\* before all others.
QueueInv ==
  /\ \A i \in 1..Len(inbox) :
       /\ inbox[i].svc \in (1..made) \ gone
       /\ serverThread <= inbox[i].svc /\ Destroying < inbox[i].svc
       /\ inbox[i].op = "destroy" => inbox[i].svc # record
  /\ \A i, j \in 1..Len(inbox) : i < j =>
       /\ inbox[i].svc <= inbox[j].svc
       /\ inbox[i].op = "destroy" => inbox[i].svc # inbox[j].svc

\* The instance is up still, or it is to be destroyed.
Expected(svc) ==
  \/ svc = record
  \/ \E i \in 1..Len(inbox) : inbox[i] = [op |-> "destroy", svc |-> svc]

ExpectedInv ==
  /\ \A i \in 1..Len(inbox) : Expected(inbox[i].svc)
  /\ serverThread \in {NoInstance, Destroying} \/ Expected(serverThread)

\* onDestroy joins the thread of its own instance, and forgets it; every thread that
\* ever ran is in serverThread or belongs to an instance that is being destroyed.
ThreadInv ==
  /\ main.at = "join" => serverThread = main.svc
  /\ main.at \in {"close", "wifi", "wake"} => serverThread = NoInstance
  /\ main.at = "wait" => serverThread # NoInstance
  /\ \A svc \in Instances : server[svc] # "none" => svc \in gone \union {serverThread, Destroying}

\* Only an instance whose thread has run holds anything, and onDestroy takes it away.
HeldInv ==
  /\ \A svc \in Instances : server[svc] = "none" =>
       listenSocket[svc] = "null" /\ ~wifiLock[svc] /\ ~wakeLock[svc]
  /\ main.at \in {"wifi", "wake"} => listenSocket[main.svc] \notin {"unbound", "open"}
  /\ main.at = "wake" => ~wifiLock[main.svc]

\* What holds of the record, the queue and the shared thread.
AmsInv == RecordInv /\ QueueInv /\ ExpectedInv

\* What holds of every instance that is being, or has been, destroyed.
DestroyInv == AmsInv /\ ThreadInv /\ HeldInv /\ DestroyedHoldsNothing

\* A message put on the main thread's queue is its last.
LEMMA Appended ==
  ASSUME TypeOK, NEW m \in Messages, inbox' = Append(inbox, m)
  PROVE  /\ Len(inbox) \in Nat /\ Len(inbox') = Len(inbox) + 1
         /\ \A i \in 1..Len(inbox) : inbox'[i] = inbox[i]
         /\ inbox'[Len(inbox) + 1] = m
<1>1. inbox \in Seq(Messages)
  BY DEF TypeOK
<1> HIDE DEF Messages
<1> QED
  BY <1>1, AppendProperties, LenProperties

\* The message that the main thread takes is the queue's first.
LEMMA Taken ==
  ASSUME TypeOK, NEW op, NEW svc \in Instances, Receive(op, svc)
  PROVE  /\ Len(inbox) \in Nat /\ Len(inbox) >= 1 /\ Len(inbox') = Len(inbox) - 1
         /\ \A i \in 1..Len(inbox') : inbox'[i] = inbox[i + 1]
         /\ inbox[1] = [op |-> op, svc |-> svc]
<1>1. /\ inbox \in Seq(Messages) /\ inbox # <<>>
      /\ inbox' = Tail(inbox) /\ Head(inbox) = [op |-> op, svc |-> svc]
  BY DEF TypeOK, Receive
<1> HIDE DEF Messages
<1>2. Len(inbox) \in Nat /\ Len(inbox) # 0
  BY <1>1, EmptySeq, LenProperties
<1> QED
  BY <1>1, <1>2, HeadTailProperties

\* startService puts a start message of the instance on record, which it may make.
LEMMA StartKeeps ==
  ASSUME TypeOK, AmsInv, StartService, UNCHANGED <<main, serverThread, gone>>
  PROVE  AmsInv'
<1> USE DEF AmsInv
<1> DEFINE svc == IF record = NoInstance THEN made + 1 ELSE record
           m == [op |-> "start", svc |-> svc]
<1>1. /\ m \in Messages /\ inbox' = Append(inbox, m)
      /\ record' = svc /\ made' = svc /\ made \in Nat /\ made <= svc
      /\ record = svc \/ (record = NoInstance /\ made < svc)
      /\ svc \in Instances /\ svc # NoInstance
  BY DEF StartService, Messages, TypeOK, RecordInv
<1>8. /\ serverThread \in Nat /\ main.svc \in Nat /\ Destroying \in Nat /\ Destroying' = Destroying
  BY DEF TypeOK, MainPoints, Destroying
<1>2. \A i \in 1..Len(inbox) : inbox[i] \in Messages
  BY DEF TypeOK
<1> DEFINE n == Len(inbox)
<1>3. /\ n \in Nat /\ Len(inbox') = n + 1
      /\ \A i \in 1..n : inbox'[i] = inbox[i]
      /\ inbox'[n + 1] = m /\ m.svc = svc /\ m.op = "start"
  <2> HIDE DEF svc
  <2> QED BY <1>1, Appended
<1> HIDE DEF n, svc, m
<1>4. svc \notin gone /\ Destroying < svc /\ serverThread <= svc
  <2>1. Destroying <= made /\ (Destroying = NoInstance \/ Destroying # record)
    BY <1>1 DEF RecordInv, Destroying
  <2> QED BY <1>1, <1>8, <2>1 DEF RecordInv
<1>5. RecordInv'
  BY <1>1, <1>8, <1>4 DEF RecordInv
<1>6. QueueInv'
  <2>1. \A i \in 1..n :
          /\ inbox[i].svc \in 1..made /\ inbox[i].svc \notin gone /\ inbox[i].svc \in Nat
          /\ serverThread <= inbox[i].svc /\ Destroying < inbox[i].svc
          /\ inbox[i].op = "destroy" => inbox[i].svc # record
          /\ inbox[i].svc <= svc
    BY <1>1, <1>2 DEF QueueInv, n
  <2>2. \A i \in 1..n : inbox[i].op = "destroy" => inbox[i].svc # svc
    BY <1>1, <2>1
  <2>3. \A i \in 1..Len(inbox') : i \in 1..n \/ i = n + 1
    BY <1>3
  <2>4. ASSUME NEW i \in 1..Len(inbox')
        PROVE  /\ inbox'[i].svc \in (1..made') \ gone
               /\ serverThread <= inbox'[i].svc /\ Destroying < inbox'[i].svc
               /\ inbox'[i].op = "destroy" => inbox'[i].svc # record'
    BY <1>1, <1>3, <1>4, <2>1, <2>2, <2>3
  <2>5. ASSUME NEW i \in 1..Len(inbox'), NEW j \in 1..Len(inbox'), i < j
        PROVE  /\ inbox'[i].svc <= inbox'[j].svc
               /\ inbox'[i].op = "destroy" => inbox'[i].svc # inbox'[j].svc
    <3>1. i \in 1..n
      BY <1>3, <2>5
    <3>2. CASE j \in 1..n
      BY <1>3, <3>1, <3>2, <2>5 DEF QueueInv, n
    <3>3. CASE j = n + 1
      BY <1>3, <3>1, <3>3, <2>1, <2>2
    <3> QED BY <2>3, <3>2, <3>3
  <2> QED BY <2>4, <2>5, <1>8 DEF QueueInv
<1>7. ExpectedInv'
  <2> DEFINE E(d) == \/ d = record'
                    \/ \E i \in 1..Len(inbox') : inbox'[i] = [op |-> "destroy", svc |-> d]
  <2>1. ASSUME NEW d, d # NoInstance, Expected(d) PROVE E(d)
    <3>1. CASE d = record
      BY <1>1, <2>1, <3>1
    <3>2. ASSUME NEW i \in 1..n, inbox[i] = [op |-> "destroy", svc |-> d]
          PROVE  E(d)
      <4>1. i \in 1..Len(inbox')
        BY <1>3, <3>2
      <4> QED BY <1>3, <3>2, <4>1 DEF Expected
    <3> QED BY <2>1, <3>1, <3>2 DEF Expected, n
  <2>2. E(svc)
    BY <1>1 DEF Expected
  <2>3. ASSUME NEW i \in 1..Len(inbox') PROVE E(inbox'[i].svc)
    <3>1. CASE i \in 1..n
      <4>1. inbox[i].svc # NoInstance
        BY <3>1 DEF QueueInv, n
      <4> QED BY <1>3, <2>1, <3>1, <4>1 DEF ExpectedInv, n
    <3>2. CASE i = n + 1
      BY <1>3, <2>2, <3>2
    <3> QED BY <1>3, <3>1, <3>2
  <2> QED BY <1>8, <2>1, <2>3 DEF ExpectedInv, Expected
<1> QED
  BY <1>5, <1>6, <1>7

\* stopService takes the instance off the record and puts its destroy message last.
LEMMA StopKeeps ==
  ASSUME TypeOK, AmsInv, StopService, UNCHANGED <<main, serverThread, gone>>
  PROVE  AmsInv'
<1> USE DEF AmsInv
<1>1. CASE record = NoInstance
  BY <1>1 DEF StopService, RecordInv, QueueInv, ExpectedInv, Expected, Destroying
<1>2. CASE record # NoInstance
  <2> DEFINE m == [op |-> "destroy", svc |-> record]
             n == Len(inbox)
  <2>1. /\ m \in Messages /\ inbox' = Append(inbox, m)
        /\ record' = NoInstance /\ made' = made /\ made \in Nat
        /\ record = made /\ m.svc = record /\ m.op = "destroy" /\ record \notin gone
        /\ serverThread \in Nat /\ main.svc \in Nat
        /\ Destroying \in Nat /\ Destroying' = Destroying
    BY <1>2 DEF StopService, Messages, TypeOK, RecordInv, MainPoints, Destroying
  <2> HIDE DEF m
  <2>2. /\ n \in Nat /\ Len(inbox') = n + 1
        /\ \A i \in 1..n : inbox'[i] = inbox[i]
        /\ inbox'[n + 1] = m
    BY <2>1, Appended
  <2>3. \A i \in 1..n : inbox[i] \in Messages
    BY DEF TypeOK
  <2> HIDE DEF n
  <2>4. Destroying < record /\ serverThread <= record
    BY <1>2, <2>1 DEF RecordInv, Destroying
  <2>5. RecordInv'
    BY <2>1 DEF RecordInv
  <2>6. QueueInv'
    <3>1. \A i \in 1..n :
            /\ inbox[i].svc \in 1..made /\ inbox[i].svc \notin gone /\ inbox[i].svc \in Nat
            /\ serverThread <= inbox[i].svc /\ Destroying < inbox[i].svc
            /\ inbox[i].op = "destroy" => inbox[i].svc # record
            /\ inbox[i].svc <= record
      BY <2>1, <2>3 DEF QueueInv, n
    <3>3. \A i \in 1..Len(inbox') : i \in 1..n \/ i = n + 1
      BY <2>2
    <3>4. ASSUME NEW i \in 1..Len(inbox')
          PROVE  /\ inbox'[i].svc \in (1..made') \ gone
                 /\ serverThread <= inbox'[i].svc /\ Destroying < inbox'[i].svc
                 /\ inbox'[i].op = "destroy" => inbox'[i].svc # record'
      BY <1>2, <2>1, <2>2, <2>4, <3>1, <3>3 DEF TypeOK
    <3>5. ASSUME NEW i \in 1..Len(inbox'), NEW j \in 1..Len(inbox'), i < j
          PROVE  /\ inbox'[i].svc <= inbox'[j].svc
                 /\ inbox'[i].op = "destroy" => inbox'[i].svc # inbox'[j].svc
      <4>1. i \in 1..n
        BY <2>2, <3>5
      <4>2. CASE j \in 1..n
        BY <2>2, <4>1, <4>2, <3>5 DEF QueueInv, n
      <4>3. CASE j = n + 1
        BY <2>1, <2>2, <4>1, <4>3, <3>1
      <4> QED BY <3>3, <4>2, <4>3
    <3> QED BY <2>1, <3>4, <3>5 DEF QueueInv
  <2>7. ExpectedInv'
    <3> DEFINE E(d) == \/ d = record'
                      \/ \E i \in 1..Len(inbox') : inbox'[i] = [op |-> "destroy", svc |-> d]
    <3>1. E(record)
      <4>1. n + 1 \in 1..Len(inbox')
        BY <2>2
      <4> QED BY <2>1, <2>2, <4>1 DEF Expected, m
    <3>2. ASSUME NEW d, Expected(d) PROVE E(d)
      <4>1. ASSUME NEW i \in 1..n, inbox[i] = [op |-> "destroy", svc |-> d]
            PROVE  E(d)
        <5>1. i \in 1..Len(inbox')
          BY <2>2, <4>1
        <5> QED BY <2>2, <4>1, <5>1 DEF Expected
      <4> QED BY <3>1, <3>2, <4>1 DEF Expected, n
    <3>3. ASSUME NEW i \in 1..Len(inbox') PROVE E(inbox'[i].svc)
      <4>1. CASE i \in 1..n
        BY <2>2, <3>2, <4>1 DEF ExpectedInv, n
      <4>2. CASE i = n + 1
        BY <2>1, <2>2, <3>1, <4>2
      <4> QED BY <2>2, <4>1, <4>2
    <3> QED BY <2>1, <3>2, <3>3 DEF ExpectedInv, Expected
  <2> QED BY <2>5, <2>6, <2>7
<1> QED
  BY <1>1, <1>2

\* stopSelf does that too, or nothing when another instance is on record.
LEMMA StopSelfKeeps ==
  ASSUME TypeOK, AmsInv, NEW svc \in Instances, StopSelf(svc),
         UNCHANGED <<main, serverThread, gone>>
  PROVE  AmsInv'
<1>1. CASE UNCHANGED amsVars
  BY <1>1 DEF amsVars, AmsInv, RecordInv, QueueInv, ExpectedInv, Expected, Destroying
<1> QED BY <1>1, StopKeeps DEF StopSelf

\* The message that the main thread takes, and those that are left: the instance of a
\* destroy message is no longer on record, and no later message is of it.
LEMMA TakeKeeps ==
  ASSUME TypeOK, AmsInv, main = Idle, NEW op, NEW svc \in Instances, Receive(op, svc)
  PROVE  /\ svc \in (1..made) \ gone /\ serverThread <= svc /\ Expected(svc)
         /\ op = "destroy" => svc # record /\ serverThread \in {NoInstance, svc}
         /\ \A i \in 1..Len(inbox') :
              /\ inbox'[i].svc \in (1..made) \ gone
              /\ svc <= inbox'[i].svc /\ (op = "destroy" => svc < inbox'[i].svc)
              /\ inbox'[i].op = "destroy" => inbox'[i].svc # record
         /\ \A i, j \in 1..Len(inbox') : i < j =>
              /\ inbox'[i].svc <= inbox'[j].svc
              /\ inbox'[i].op = "destroy" => inbox'[i].svc # inbox'[j].svc
         /\ \A d \in Instances : Expected(d) /\ (op = "destroy" => d # svc) =>
              \/ d = record'
              \/ \E i \in 1..Len(inbox') : inbox'[i] = [op |-> "destroy", svc |-> d]
         /\ \A i \in 1..Len(inbox') : Expected(inbox'[i].svc)
         /\ UNCHANGED <<record, made>>
<1> USE DEF AmsInv
<1> DEFINE n == Len(inbox)
<1>1. /\ n \in Nat /\ n >= 1 /\ Len(inbox') = n - 1
      /\ \A i \in 1..Len(inbox') : inbox'[i] = inbox[i + 1] /\ i + 1 \in 1..n
      /\ inbox[1] = [op |-> op, svc |-> svc] /\ 1 \in 1..n
      /\ \A i \in 2..n : i - 1 \in 1..Len(inbox') /\ inbox'[i - 1] = inbox[i]
  BY Taken
<1>2. /\ \A i \in 1..n : inbox[i] \in Messages
      /\ serverThread \in Nat /\ made \in Nat /\ record \in Nat
  BY DEF TypeOK
<1>3. \A i \in 1..n : inbox[i].svc \in Nat
  BY <1>2 DEF Messages
<1>4. /\ svc \in (1..made) \ gone /\ serverThread <= svc /\ Expected(svc)
      /\ op = "destroy" => svc # record
  BY <1>1 DEF QueueInv, ExpectedInv
<1>5. \A i \in 1..n \ {1} : svc <= inbox[i].svc /\ (op = "destroy" => svc < inbox[i].svc)
  BY <1>1, <1>3 DEF QueueInv
<1>6. op = "destroy" => serverThread \in {NoInstance, svc}
  <2> SUFFICES ASSUME op = "destroy", serverThread # NoInstance PROVE serverThread = svc
    OBVIOUS
  <2>1. Expected(serverThread)
    BY DEF ExpectedInv, Destroying
  <2>2. serverThread # record
    BY <1>2, <1>4 DEF RecordInv
  <2>3. PICK i \in 1..n : inbox[i] = [op |-> "destroy", svc |-> serverThread]
    BY <2>1, <2>2 DEF Expected
  <2>4. CASE i = 1
    BY <1>1, <2>3, <2>4
  <2>5. CASE i # 1
    BY <1>2, <1>4, <1>5, <2>3, <2>5
  <2> QED BY <2>4, <2>5
<1>7. \A i \in 1..Len(inbox') :
        /\ inbox'[i].svc \in (1..made) \ gone
        /\ svc <= inbox'[i].svc /\ (op = "destroy" => svc < inbox'[i].svc)
        /\ inbox'[i].op = "destroy" => inbox'[i].svc # record
  <2> TAKE i \in 1..Len(inbox')
  <2>1. inbox'[i] = inbox[i + 1] /\ i + 1 \in 1..n \ {1}
    BY <1>1
  <2> QED BY <1>5, <2>1 DEF QueueInv
<1>8. \A i, j \in 1..Len(inbox') : i < j =>
        /\ inbox'[i].svc <= inbox'[j].svc
        /\ inbox'[i].op = "destroy" => inbox'[i].svc # inbox'[j].svc
  <2> SUFFICES ASSUME NEW i \in 1..Len(inbox'), NEW j \in 1..Len(inbox'), i < j
               PROVE  /\ inbox'[i].svc <= inbox'[j].svc
                      /\ inbox'[i].op = "destroy" => inbox'[i].svc # inbox'[j].svc
    OBVIOUS
  <2>1. /\ inbox'[i] = inbox[i + 1] /\ inbox'[j] = inbox[j + 1]
        /\ i + 1 \in 1..n /\ j + 1 \in 1..n /\ i + 1 < j + 1
    BY <1>1
  <2> QED BY <2>1 DEF QueueInv
<1>9. \A d \in Instances : Expected(d) /\ (op = "destroy" => d # svc) =>
        \/ d = record'
        \/ \E i \in 1..Len(inbox') : inbox'[i] = [op |-> "destroy", svc |-> d]
  <2> SUFFICES ASSUME NEW d \in Instances, Expected(d), op = "destroy" => d # svc, d # record
               PROVE  \E i \in 1..Len(inbox') : inbox'[i] = [op |-> "destroy", svc |-> d]
    BY DEF Receive
  <2>1. PICK i \in 1..n : inbox[i] = [op |-> "destroy", svc |-> d]
    BY DEF Expected
  <2>2. i # 1
    BY <1>1, <2>1
  <2>3. i \in 2..n
    BY <1>1, <2>2
  <2> QED BY <1>1, <2>1, <2>3
<1>10. \A i \in 1..Len(inbox') : Expected(inbox'[i].svc)
  BY <1>1 DEF ExpectedInv
<1> QED
  BY <1>4, <1>6, <1>7, <1>8, <1>9, <1>10 DEF Receive

\* A request to start or stop the service keeps it all, and so does a broadcast heard.
LEMMA RequestKeeps ==
  ASSUME TypeOK, DestroyInv, Request \/ Deliver PROVE DestroyInv'
<1> USE DEF DestroyInv, amsVars, serverVars, lockVars, sessionVars, boundVars
<1>1. UNCHANGED <<main, serverThread, server, gone, listenSocket, wifiLock, wakeLock>>
  BY DEF Request, RequestStart, RequestStop, TaskRemovedAlarm, Deliver
<1>2. AmsInv'
  <2>1. CASE Request
    BY <1>1, <2>1, StartKeeps, StopKeeps DEF Request, RequestStart, RequestStop,
                                             TaskRemovedAlarm
  <2>2. CASE Deliver
    BY <2>2 DEF Deliver, AmsInv, RecordInv, QueueInv, ExpectedInv, Expected, Destroying
  <2> QED BY <2>1, <2>2
<1>3. ThreadInv' /\ HeldInv'
  BY <1>1 DEF ThreadInv, HeldInv, Destroying
<1>4. DestroyedHoldsNothing'
  BY <1>1 DEF DestroyedHoldsNothing, Alive
<1> QED
  BY <1>2, <1>3, <1>4

\* Nothing outlives the process, and the instance made after it is a new one.
LEMMA KillKeeps == ASSUME TypeOK, DestroyInv, Kill PROVE DestroyInv'
<1> USE DEF DestroyInv
<1>1. /\ made \in Nat /\ record \in {NoInstance, made} /\ gone' = 1..made
      /\ main' = Idle /\ serverThread' = NoInstance /\ Destroying' = NoInstance
      /\ \A svc \in Instances : server[svc] # "none" => svc <= made
      /\ 1..made \subseteq Instances
  <2>1. main.svc \in Nat
    BY DEF TypeOK, MainPoints
  <2>2. /\ made \in Nat /\ record \in {NoInstance, made} /\ gone \subseteq 1..made
        /\ serverThread <= made /\ Destroying <= made
    BY <2>1 DEF TypeOK, AmsInv, RecordInv, Destroying
  <2>3. 1..made \subseteq Instances
    BY BoundsAssumption DEF TypeOK, BoundsAssumption
  <2> QED BY <2>2, <2>3 DEF Kill, Destroying, ThreadInv
<1>2. \/ /\ record = NoInstance /\ record' = NoInstance /\ made' = made /\ inbox' = <<>>
      \/ /\ record' = made + 1 /\ made' = made + 1
         /\ inbox' = <<[op |-> "start", svc |-> made + 1]>>
  BY DEF Kill
<1>3. RecordInv'
  BY <1>1, <1>2 DEF RecordInv
<1>4. QueueInv' /\ ExpectedInv'
  <2>1. CASE inbox' = <<>>
    BY <1>1, <2>1 DEF QueueInv, ExpectedInv
  <2>2. CASE /\ record' = made + 1 /\ made' = made + 1
             /\ inbox' = <<[op |-> "start", svc |-> made + 1]>>
    <3>1. /\ Len(inbox') = 1 /\ inbox'[1] = [op |-> "start", svc |-> made + 1]
          /\ inbox'[1].svc = made + 1 /\ inbox'[1].op = "start"
      BY <2>2
    <3>2. \A i \in 1..Len(inbox') : i = 1
      BY <3>1
    <3> QED BY <1>1, <2>2, <3>1, <3>2 DEF QueueInv, ExpectedInv, Expected
  <2> QED BY <1>2, <2>1, <2>2
<1>5. ThreadInv'
  BY <1>1 DEF Kill, ThreadInv
<1>6. HeldInv'
  BY <1>1 DEF Kill, HeldInv
<1>7. DestroyedHoldsNothing'
  <2>1. \A svc \in Instances : server'[svc] \in {"none", "dead"} /\ listenSocket'[svc] = "null"
                               /\ ~wifiLock'[svc] /\ ~wakeLock'[svc]
    BY DEF Kill
  <2> QED BY <1>1, <2>1 DEF DestroyedHoldsNothing, Alive
<1> QED
  BY <1>3, <1>4, <1>5, <1>6, <1>7 DEF AmsInv

\* Only an instance that is not destroyed runs a server thread, and takes resources.
LEMMA ServerKeeps ==
  ASSUME TypeOK, LiveThreadIsTracked, DestroyInv, NEW svc \in Instances, ServerStep(svc)
  PROVE  DestroyInv'
<1> USE DEF DestroyInv, amsVars, serverVars, lockVars, sessionVars, boundVars, Goto
<1>1. /\ Alive(svc) /\ serverThread = svc /\ UNCHANGED <<main, serverThread, gone>>
      /\ \A other \in Instances \ {svc} : server'[other] = server[other]
      /\ server'[svc] # "none"
  BY DEF ServerStep, CheckNetwork, Bind, takeWifiLock, takeWakeLock, AnnounceStarted,
     SpawnListener, LeaveLoop, terminateAllSessions, QuitListener, AcknowledgeExit,
     AnnounceStopped, BailOut, AnnounceFailed, TypeOK, Alive, LiveThreadIsTracked
<1>2. svc \notin gone
  BY <1>1 DEF DestroyedHoldsNothing
<1>3. AmsInv'
  <2>1. CASE AcknowledgeExit(svc) \/ BailOut(svc)
    BY <1>1, <2>1, StopSelfKeeps DEF AcknowledgeExit, BailOut
  <2>2. CASE UNCHANGED amsVars
    BY <1>1, <2>2 DEF AmsInv, RecordInv, QueueInv, ExpectedInv, Expected, Destroying
  <2> QED
    BY <2>1, <2>2 DEF ServerStep, CheckNetwork, Bind, takeWifiLock, takeWakeLock, AnnounceStarted,
     SpawnListener, LeaveLoop, terminateAllSessions, QuitListener, AnnounceStopped, AnnounceFailed
<1>4. \A other \in Instances \ {svc} :
        /\ listenSocket'[other] = listenSocket[other]
        /\ wifiLock'[other] = wifiLock[other] /\ wakeLock'[other] = wakeLock[other]
  BY DEF ServerStep, CheckNetwork, Bind, takeWifiLock, takeWakeLock, AnnounceStarted,
     SpawnListener, LeaveLoop, terminateAllSessions, QuitListener, AcknowledgeExit,
     AnnounceStopped, BailOut, AnnounceFailed, TypeOK
<1>5. main.at \notin {"close", "wifi", "wake"}
  BY <1>1 DEF ThreadInv
<1>6. ThreadInv'
  BY <1>1 DEF ThreadInv, Destroying
<1>7. HeldInv'
  BY <1>1, <1>4, <1>5 DEF HeldInv
<1>8. DestroyedHoldsNothing'
  BY <1>1, <1>2, <1>4 DEF DestroyedHoldsNothing, Alive, TypeOK
<1> QED
  BY <1>3, <1>6, <1>7, <1>8

\* onDestroy finds the thread of its own instance or none, and when it returns it has
\* taken away the socket and both locks.
LEMMA MainKeeps ==
  ASSUME TypeOK, LiveThreadIsTracked, DestroyInv, ~JoinMayTimeOut, MainStep
  PROVE  DestroyInv'
<1> USE DEF DestroyInv, AmsInv, amsVars, serverVars, lockVars, sessionVars, boundVars, MainAt
<1> PICK svc \in Instances :
      \/ onStartCommand(svc) \/ EndWait(svc)
      \/ onDestroy(svc) \/ JoinServerThread(svc)
      \/ CloseListenSocket(svc) \/ ReleaseWifiLock(svc) \/ ReleaseWakeLock(svc)
  BY DEF MainStep
<1>1. main \in MainPoints /\ main.svc \in Nat /\ serverThread \in Nat /\ made \in Nat
  BY DEF TypeOK, MainPoints
<1>8. 1..made \subseteq Instances
  BY BoundsAssumption DEF TypeOK, BoundsAssumption
<1>2. CASE onStartCommand(svc)
  <2> USE <1>2
  <2>1. /\ main = Idle /\ Receive("start", svc) /\ Destroying = NoInstance
        /\ UNCHANGED <<record, made, gone, listenSocket, wifiLock, wakeLock>>
    BY DEF onStartCommand, Receive, Destroying
  <2>2. \/ /\ serverThread = NoInstance /\ serverThread' = svc /\ main' = main
           /\ server' = [server EXCEPT ![svc] = "network"]
        \/ /\ serverThread # NoInstance /\ serverThread' = serverThread /\ server' = server
           /\ main' = [at |-> "wait", svc |-> svc]
    BY DEF onStartCommand, CreateServerThread
  <2>3. serverThread' <= svc /\ svc \in 1..made /\ Destroying' = NoInstance /\ svc \notin gone
    BY <2>1, <2>2, TakeKeeps DEF Destroying
  <2>4. RecordInv'
    BY <2>1, <2>2, <2>3 DEF RecordInv
  <2>5. QueueInv'
    <3>1. \A i \in 1..Len(inbox') :
            /\ inbox'[i].svc \in (1..made) \ gone /\ svc <= inbox'[i].svc
            /\ inbox'[i].op = "destroy" => inbox'[i].svc # record
      BY <2>1, TakeKeeps
    <3>2. \A i, j \in 1..Len(inbox') : i < j =>
              /\ inbox'[i].svc <= inbox'[j].svc
              /\ inbox'[i].op = "destroy" => inbox'[i].svc # inbox'[j].svc
      BY <2>1, TakeKeeps
    <3>3. serverThread' \in Nat
      BY <1>1, <2>2
    <3> QED BY <2>1, <2>3, <3>1, <3>2, <3>3 DEF QueueInv
  <2>6. ExpectedInv'
    <3> DEFINE E(d) == \/ d = record'
                       \/ \E i \in 1..Len(inbox') : inbox'[i] = [op |-> "destroy", svc |-> d]
    <3>7. \A d \in Instances : Expected(d) /\ ("start" = "destroy" => d # svc) => E(d)
      BY <2>1, TakeKeeps
    <3>1. \A d \in Instances : Expected(d) => E(d)
      <4> HIDE DEF E
      <4> QED BY <3>7
    <3>2. E(svc)
      BY <2>1, <3>1, TakeKeeps
    <3>3. \A i \in 1..Len(inbox') : Expected(inbox'[i].svc) /\ inbox'[i].svc \in 1..made
      BY <2>1, TakeKeeps
    <3>4. serverThread # NoInstance => Expected(serverThread) /\ serverThread \in Instances
      BY <2>1 DEF ExpectedInv, TypeOK
    <3>5. serverThread' \in {NoInstance, Destroying'} \/ E(serverThread')
      BY <2>2, <3>1, <3>2, <3>4
    <3>6. \A i \in 1..Len(inbox') : E(inbox'[i].svc)
      BY <1>8, <3>1, <3>3
    <3> QED BY <3>5, <3>6 DEF ExpectedInv, Expected
  <2>7. ThreadInv'
    <3>1. \A other \in Instances : other # svc => server'[other] = server[other]
      BY <2>2 DEF TypeOK
    <3> QED BY <2>1, <2>2, <2>3, <3>1 DEF ThreadInv
  <2>8. HeldInv' /\ DestroyedHoldsNothing'
    <3>1. \A other \in Instances : other # svc => server'[other] = server[other]
      BY <2>2 DEF TypeOK
    <3>2. server'[svc] = "none" => server[svc] = "none"
      BY <2>2 DEF TypeOK
    <3>3. HeldInv'
      BY <2>1, <2>2, <3>1, <3>2 DEF HeldInv
    <3>4. gone \subseteq Instances
      BY DEF TypeOK
    <3>5. DestroyedHoldsNothing'
      BY <2>1, <2>3, <3>1, <3>4 DEF DestroyedHoldsNothing, Alive
    <3> QED BY <3>3, <3>5
  <2> QED BY <2>4, <2>5, <2>6, <2>7, <2>8
<1>3. CASE EndWait(svc)
  <2>1. /\ main.at = "wait" /\ serverThread # NoInstance /\ main' = Idle
        /\ UNCHANGED <<record, made, inbox, gone, serverThread, server,
                       listenSocket, wifiLock, wakeLock>>
        /\ Destroying' = Destroying
    BY <1>3 DEF EndWait, ThreadInv, Destroying
  <2>2. RecordInv' /\ QueueInv' /\ ExpectedInv'
    <3>1. RecordInv'
      BY <1>1, <2>1 DEF RecordInv, MainPoints
    <3>2. QueueInv'
      BY <2>1 DEF QueueInv
    <3>3. ExpectedInv'
      BY <2>1 DEF ExpectedInv, Expected
    <3> QED BY <3>1, <3>2, <3>3
  <2>3. ThreadInv' /\ HeldInv' /\ DestroyedHoldsNothing'
    BY <2>1 DEF ThreadInv, HeldInv, DestroyedHoldsNothing, Alive
  <2> QED BY <2>2, <2>3
<1>4. CASE onDestroy(svc)
  <2> USE <1>4
  <2>1. /\ main = Idle /\ Receive("destroy", svc)
        /\ UNCHANGED <<record, made, serverThread, server, listenSocket, wifiLock, wakeLock>>
        /\ Destroying = NoInstance
    BY DEF onDestroy, Receive, Destroying
  <2>2. \/ /\ serverThread = NoInstance /\ gone' = gone \union {svc} /\ main' = main
        \/ /\ serverThread # NoInstance /\ gone' = gone
           /\ main' = [at |-> "join", svc |-> svc]
    BY DEF onDestroy
  <2>3. /\ serverThread \in {NoInstance, svc} /\ svc \in 1..made /\ svc \notin gone /\ svc # record
        /\ Destroying' = serverThread
    BY <2>1, <2>2, TakeKeeps DEF Destroying
  <2>4. RecordInv'
    <3>1. serverThread = NoInstance \/ (serverThread = svc /\ gone' = gone)
      BY <2>2, <2>3
    <3>2. main'.svc <= made
      BY <1>1, <2>1, <2>2, <2>3
    <3>3. gone' \subseteq 1..made /\ record \notin gone'
      BY <2>2, <2>3 DEF RecordInv
    <3> QED BY <1>1, <2>1, <2>3, <3>1, <3>2, <3>3 DEF RecordInv
  <2>5. QueueInv'
    <3>1. \A i \in 1..Len(inbox') :
            /\ inbox'[i].svc \in (1..made) \ gone /\ svc <= inbox'[i].svc /\ svc < inbox'[i].svc
            /\ inbox'[i].op = "destroy" => inbox'[i].svc # record
      BY <2>1, TakeKeeps
    <3>2. \A i, j \in 1..Len(inbox') : i < j =>
              /\ inbox'[i].svc <= inbox'[j].svc
              /\ inbox'[i].op = "destroy" => inbox'[i].svc # inbox'[j].svc
      BY <2>1, TakeKeeps
    <3> QED BY <1>1, <2>1, <2>2, <2>3, <3>1, <3>2 DEF QueueInv
  <2>6. ExpectedInv'
    <3> DEFINE E(d) == \/ d = record'
                       \/ \E i \in 1..Len(inbox') : inbox'[i] = [op |-> "destroy", svc |-> d]
    <3>1. \A d \in Instances : Expected(d) /\ d # svc => E(d)
      BY <2>1, TakeKeeps
    <3>2. \A i \in 1..Len(inbox') :
            Expected(inbox'[i].svc) /\ inbox'[i].svc \in 1..made /\ svc < inbox'[i].svc
      BY <2>1, TakeKeeps
    <3>3. \A i \in 1..Len(inbox') : E(inbox'[i].svc)
      BY <1>8, <3>1, <3>2
    <3> QED BY <2>1, <2>3, <3>3 DEF ExpectedInv, Expected
  <2>7. ThreadInv' /\ HeldInv'
    BY <2>1, <2>2, <2>3 DEF ThreadInv, HeldInv
  <2>8. DestroyedHoldsNothing'
    <3>1. CASE serverThread = NoInstance
      <4>1. server[svc] = "none"
        BY <2>1, <2>3, <3>1 DEF ThreadInv
      <4> QED BY <2>1, <2>2, <3>1, <4>1 DEF HeldInv, DestroyedHoldsNothing, Alive
    <3>2. CASE serverThread # NoInstance
      BY <2>1, <2>2, <3>2 DEF DestroyedHoldsNothing, Alive
    <3> QED BY <3>1, <3>2
  <2> QED BY <2>4, <2>5, <2>6, <2>7, <2>8
<1>5. CASE JoinServerThread(svc)
  <2>1. /\ main.at = "join" /\ main.svc = svc /\ serverThread = svc /\ serverThread' = NoInstance
        /\ main' = [at |-> "close", svc |-> svc]
        /\ UNCHANGED <<record, made, inbox, gone, server, listenSocket, wifiLock, wakeLock>>
        /\ Destroying = svc /\ Destroying' = svc
    BY <1>1, <1>5 DEF JoinServerThread, JoinReturns, ThreadAfterJoin, ThreadInv, Destroying,
                      MainPoints
  <2>2. RecordInv' /\ QueueInv' /\ ExpectedInv'
    BY <1>1, <2>1 DEF RecordInv, QueueInv, ExpectedInv, Expected
  <2>3. ThreadInv' /\ HeldInv' /\ DestroyedHoldsNothing'
    BY <2>1 DEF ThreadInv, HeldInv, DestroyedHoldsNothing, Alive
  <2> QED BY <2>2, <2>3
<1>6. CASE CloseListenSocket(svc) \/ ReleaseWifiLock(svc)
  <2>1. /\ main.svc = svc /\ main.at \in {"close", "wifi"} /\ serverThread = NoInstance
        /\ main' = [at |-> IF main.at = "close" THEN "wifi" ELSE "wake", svc |-> svc]
        /\ UNCHANGED <<record, made, inbox, gone, server, serverThread, wakeLock>>
        /\ listenSocket' = IF main.at = "close"
                           THEN [listenSocket EXCEPT ![svc] = IF @ = "null" THEN @ ELSE "closed"]
                           ELSE listenSocket
        /\ wifiLock' = IF main.at = "wifi" THEN [wifiLock EXCEPT ![svc] = FALSE] ELSE wifiLock
        /\ Destroying = svc /\ Destroying' = svc
    BY <1>1, <1>6 DEF CloseListenSocket, ReleaseWifiLock, ThreadInv, Destroying, MainPoints
  <2>2. RecordInv' /\ QueueInv' /\ ExpectedInv'
    BY <1>1, <2>1 DEF RecordInv, QueueInv, ExpectedInv, Expected
  <2>3. ThreadInv'
    BY <2>1 DEF ThreadInv
  <2>4. HeldInv'
    BY <2>1 DEF HeldInv, TypeOK
  <2>5. DestroyedHoldsNothing'
    BY <2>1 DEF DestroyedHoldsNothing, Alive, TypeOK
  <2> QED BY <2>2, <2>3, <2>4, <2>5
<1>7. CASE ReleaseWakeLock(svc)
  <2>1. /\ main.svc = svc /\ main.at = "wake" /\ serverThread = NoInstance
        /\ main' = Idle /\ gone' = gone \union {svc}
        /\ UNCHANGED <<record, made, inbox, server, serverThread, wifiLock, listenSocket>>
        /\ wakeLock' = [wakeLock EXCEPT ![svc] = FALSE]
        /\ Destroying = svc /\ Destroying' = NoInstance
    BY <1>1, <1>7 DEF ReleaseWakeLock, ThreadInv, Destroying
  <2>2. RecordInv' /\ QueueInv' /\ ExpectedInv'
    BY <1>1, <2>1 DEF RecordInv, QueueInv, ExpectedInv, Expected
  <2>3. ThreadInv'
    BY <2>1 DEF ThreadInv
  <2>4. HeldInv'
    BY <2>1 DEF HeldInv, TypeOK
  <2>5. DestroyedHoldsNothing'
    <3>1. ~Alive(svc)
      BY <2>1 DEF LiveThreadIsTracked
    <3>2. listenSocket[svc] \notin {"unbound", "open"} /\ ~wifiLock[svc]
      BY <2>1 DEF HeldInv
    <3> QED BY <2>1, <3>1, <3>2 DEF DestroyedHoldsNothing, Alive, TypeOK
  <2> QED BY <2>2, <2>3, <2>4, <2>5
<1> QED
  BY <1>2, <1>3, <1>4, <1>5, <1>6, <1>7

\* It all holds before the first request, and every step keeps it.
LEMMA DestroyInit == Init => DestroyInv
<1> SUFFICES ASSUME Init PROVE DestroyInv
  OBVIOUS
<1>1. inbox = <<>> /\ Len(inbox) = 0 /\ Destroying = NoInstance
  BY DEF Init, Destroying
<1>2. AmsInv
  BY <1>1 DEF Init, AmsInv, RecordInv, QueueInv, ExpectedInv
<1>3. ThreadInv /\ HeldInv /\ DestroyedHoldsNothing
  BY DEF Init, ThreadInv, HeldInv, DestroyedHoldsNothing
<1> QED
  BY <1>2, <1>3 DEF DestroyInv

LEMMA DestroyPreserved ==
  ASSUME TypeOK, LiveThreadIsTracked, DestroyInv, ~JoinMayTimeOut, [Next]_vars
  PROVE  DestroyInv'
<1>1. CASE UNCHANGED <<record, made, inbox, main, serverThread, server, gone,
                       listenSocket, wifiLock, wakeLock>>
  BY <1>1 DEF DestroyInv, AmsInv, RecordInv, QueueInv, ExpectedInv, Expected, ThreadInv,
              HeldInv, DestroyedHoldsNothing, Alive, Destroying
<1>2. ASSUME NEW svc \in Instances, ListenerStep(svc) PROVE DestroyInv'
  BY <1>1, <1>2 DEF ListenerStep, Accept, registerSessionThread, ListenerEnds, amsVars,
                    serverVars, lockVars
<1>3. ASSUME NEW s \in Sessions, SessionEnds(s) PROVE DestroyInv'
  BY <1>1, <1>3 DEF SessionEnds, amsVars, serverVars, lockVars
<1>4. CASE UNCHANGED vars
  BY <1>1, <1>4 DEF vars
<1> QED
  BY <1>2, <1>3, <1>4, RequestKeeps, KillKeeps, MainKeeps, ServerKeeps DEF Next

\* No matter how starts, stops, kills and the thread's own end follow each other, an
\* instance whose onDestroy has returned holds no server thread, listening socket or
\* lock, provided that the join of onDestroy never expires.
THEOREM DestroyReleases ==
  ASSUME ~JoinMayTimeOut PROVE Spec => []DestroyedHoldsNothing
<1>1. TypeOK /\ LiveThreadIsTracked /\ DestroyInv /\ [Next]_vars => DestroyInv'
  BY DestroyPreserved
<1>2. DestroyInv => DestroyedHoldsNothing
  BY DEF DestroyInv
<1> QED
  BY <1>1, <1>2, DestroyInit, TypeCorrect, TrackedThread, PTL DEF Spec
-----------------------------------------------------------------------------
(* No running session is lost from the list.                               *)

\* Sessions are added by the listener, and dropped when they have finished or when the
\* server thread has told them all to end.
LEMMA SessionsKept ==
  ASSUME TypeOK, RunningSessionsAreKnown, [Next]_vars PROVE RunningSessionsAreKnown'
<1>1. CASE UNCHANGED <<session, sessionThreads, accepted>>
  BY <1>1 DEF RunningSessionsAreKnown, Known
<1>2. ASSUME NEW svc \in Instances, NEW s \in Sessions, Accept(svc, s)
      PROVE  RunningSessionsAreKnown'
  <2>1. /\ session' = [session EXCEPT ![s] = [run |-> "running", cmdSocket |-> "open", of |-> svc]]
        /\ accepted' = [accepted EXCEPT ![svc] = {s}] /\ accepted[svc] = {}
        /\ sessionThreads' = sessionThreads
    BY <1>2 DEF Accept
  <2>2. ASSUME NEW other \in Instances, NEW r \in Sessions,
               session'[r].run = "running", session'[r].of = other
        PROVE  r \in sessionThreads'[other] \union accepted'[other]
    <3>1. CASE r = s
      BY <2>1, <2>2, <3>1 DEF TypeOK
    <3>2. CASE r # s
      <4>1. r \in Known(other) /\ session[r].run = "running"
        BY <2>1, <2>2, <3>2 DEF Known, TypeOK
      <4> QED BY <2>1, <4>1 DEF RunningSessionsAreKnown, TypeOK
    <3> QED BY <3>1, <3>2
  <2> QED BY <2>2 DEF RunningSessionsAreKnown, Known
<1>3. ASSUME NEW svc \in Instances, registerSessionThread(svc)
      PROVE  RunningSessionsAreKnown'
  BY <1>3 DEF registerSessionThread, Unfinished, RunningSessionsAreKnown, Known, TypeOK
<1>4. ASSUME NEW svc \in Instances, terminateAllSessions(svc)
      PROVE  RunningSessionsAreKnown'
  <2>1. \A s \in Sessions : session'[s].run = session[s].run /\ session'[s].of = session[s].of
    BY <1>4 DEF terminateAllSessions, TypeOK, SessionStates
  <2> QED BY <1>4, <2>1 DEF terminateAllSessions, RunningSessionsAreKnown, Known
<1>5. ASSUME NEW s \in Sessions, SessionEnds(s) PROVE RunningSessionsAreKnown'
  <2>1. \A r \in Sessions : /\ session'[r].of = session[r].of
                            /\ session'[r].run = "running" => session[r].run = "running"
    BY <1>5 DEF SessionEnds, TypeOK, SessionStates
  <2> QED BY <1>5, <2>1 DEF SessionEnds, RunningSessionsAreKnown, Known
<1>6. CASE Kill
  <2>1. \A r \in Sessions : session'[r].run # "running"
    BY <1>6 DEF Kill, KillSessions, TypeOK, SessionStates
  <2> QED BY <2>1 DEF RunningSessionsAreKnown, Known
<1> USE DEF sessionVars
<1>7. CASE Request \/ Deliver \/ MainStep
  BY <1>1, <1>7 DEF Request, RequestStart, RequestStop, TaskRemovedAlarm, Deliver, MainStep,
     onStartCommand, EndWait, onDestroy, JoinServerThread, CloseListenSocket, ReleaseWifiLock,
     ReleaseWakeLock
<1>8. ASSUME NEW svc \in Instances, ServerStep(svc) PROVE RunningSessionsAreKnown'
  BY <1>1, <1>4, <1>8 DEF ServerStep, CheckNetwork, Bind, takeWifiLock, takeWakeLock,
     AnnounceStarted, SpawnListener, LeaveLoop, QuitListener, AcknowledgeExit,
     AnnounceStopped, BailOut, AnnounceFailed
<1>9. ASSUME NEW svc \in Instances, ListenerStep(svc) PROVE RunningSessionsAreKnown'
  BY <1>1, <1>2, <1>3, <1>9 DEF ListenerStep, ListenerEnds
<1> QED
  BY <1>1, <1>5, <1>6, <1>7, <1>8, <1>9 DEF Next, vars

\* For any number of connections, listeners and services, a running session is always
\* in the list that terminateAllSessions goes through, or about to be put there.
THEOREM SessionsAreKnown == Spec => []RunningSessionsAreKnown
<1>1. Init => RunningSessionsAreKnown
  BY DEF Init, RunningSessionsAreKnown, Known
<1>2. TypeOK /\ RunningSessionsAreKnown /\ [Next]_vars => RunningSessionsAreKnown'
  BY SessionsKept
<1> QED
  BY <1>1, <1>2, TypeCorrect, PTL DEF Spec
=============================================================================
