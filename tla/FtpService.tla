----------------------------- MODULE FtpService -----------------------------
(***************************************************************************)
(* The lifecycle of the SwiFTP server: FsService and its TcpListener.      *)
(*                                                                         *)
(* Four kinds of thread share the state:                                   *)
(*   - the application's main thread, which runs onStartCommand,           *)
(*     onDestroy and the receivers, one message at a time;                 *)
(*   - one server thread per service instance (FsService.run), held in the *)
(*     static field serverThread;                                          *)
(*   - the TcpListener thread that the server thread spawns;               *)
(*   - a SessionThread per connection, registered with the service.        *)
(* Android's activity manager (external) keeps the service record and      *)
(* queues the main thread's service messages; it may kill the process and, *)
(* the service being START_STICKY, start it again.                         *)
(*                                                                         *)
(* Instances of the service are numbered in the order of their creation.   *)
(***************************************************************************)
EXTENDS Naturals, Sequences

CONSTANTS
  MaxInstances,    \* bound: service instances ever created
  Sessions,        \* bound: connections ever accepted
  MaxRequests,     \* bound: start and stop requests
  MaxKills,        \* bound: kills of the process
  JoinMayTimeOut   \* whether the 10 s join of onDestroy may expire

ASSUME BoundsAssumption ==
  /\ MaxInstances \in Nat \ {0}
  /\ MaxRequests \in Nat
  /\ MaxKills \in Nat
  /\ JoinMayTimeOut \in BOOLEAN

Instances == 1..MaxInstances
Broadcasts == {"STARTED", "STOPPED", "FAILEDTOSTART"}
NoInstance == 0

VARIABLES
  record,        \* the activity manager's service record: an instance, or none
  made,          \* instances created so far
  inbox,         \* service messages queued for the main thread
  outbox,        \* broadcasts sent and not yet delivered
  heard,         \* the broadcast the receivers took last
  main,          \* the main thread: [at: control point, svc: whose callback]
  serverThread,  \* FsService.serverThread: the instance whose run() it runs
  server,        \* control point of each instance's server thread
  shouldExit,    \* FsService.shouldExit
  listenSocket,  \* FsService.listenSocket
  wifiListener,  \* whether FsService.wifiListener is non-null
  listener,      \* the TcpListener thread of each instance
  accepted,      \* the session TcpListener.run started and did not yet register
  sessionThreads,\* FsService.sessionThreads
  wifiLock,      \* whether the lock is held
  wakeLock,
  session,       \* each session thread: [run, cmdSocket, of]
  gone,          \* instances whose onDestroy returned, or that were killed
  requests, kills \* counters of the bounds

amsVars     == <<record, made, inbox>>
serverVars  == <<shouldExit, listenSocket, wifiListener>>
lockVars    == <<wifiLock, wakeLock>>
sessionVars == <<accepted, sessionThreads, session>>
boundVars   == <<requests, kills>>
vars == <<record, made, inbox, outbox, heard, main, serverThread, server, shouldExit,
          listenSocket, wifiListener, listener, accepted, sessionThreads,
          wifiLock, wakeLock, session, gone, requests, kills>>

Messages == [op : {"start", "destroy"}, svc : Instances]

Idle == [at |-> "idle", svc |-> NoInstance]
MainPoints == [at : {"idle", "wait", "join", "close", "wifi", "wake"},
               svc : Instances \union {NoInstance}]
MainAt(point, svc) == main.at = point /\ main.svc = svc

\* The points of run(): a thread is alive from Thread.start to its return.
ServerPoints == {"none", "network", "bind", "wifi", "wake", "announce", "loop",
                 "terminate", "quit", "ack", "stopped", "bail", "failed", "dead"}
Alive(svc) == server[svc] \notin {"none", "dead"}
Goto(svc, from, to) == server[svc] = from /\ server' = [server EXCEPT ![svc] = to]

SessionStates == [run : {"unused", "running", "ended"},
                  cmdSocket : {"open", "closed"},
                  of : Instances \union {NoInstance}]
Known(svc) == {s \in Sessions : session[s].run # "unused" /\ session[s].of = svc}
-----------------------------------------------------------------------------
(* The activity manager, as FsService and its clients use it.              *)

StartService ==
  LET svc == IF record = NoInstance THEN made + 1 ELSE record
  IN  /\ svc \in Instances
      /\ record' = svc
      /\ made' = IF record = NoInstance THEN svc ELSE made
      /\ inbox' = Append(inbox, [op |-> "start", svc |-> svc])

StopService_WithoutRecord ==
  /\ record' = NoInstance
  /\ inbox' = Append(inbox, [op |-> "destroy", svc |-> record])
  /\ UNCHANGED made

StopService ==
  /\ record' = NoInstance
  /\ inbox' = IF record = NoInstance THEN inbox
              ELSE Append(inbox, [op |-> "destroy", svc |-> record])
  /\ UNCHANGED made

\* stopSelf names its own instance: a later record is left alone.
StopSelf(svc) == IF record = svc THEN StopService ELSE UNCHANGED amsVars

SendBroadcast(action) == outbox' = Append(outbox, action)

isRunning == serverThread # NoInstance

\* RequestStartStopReceiver.onReceive, on the main thread.
RequestStart ==
  /\ main = Idle /\ requests < MaxRequests
  /\ ~isRunning
  /\ StartService
  /\ requests' = requests + 1
  /\ UNCHANGED <<outbox, heard, main, serverThread, server, serverVars, listener,
                 sessionVars, lockVars, gone, kills>>

RequestStop ==
  /\ main = Idle /\ requests < MaxRequests
  /\ StopService
  /\ requests' = requests + 1
  /\ UNCHANGED <<outbox, heard, main, serverThread, server, serverVars, listener,
                 sessionVars, lockVars, gone, kills>>

\* The alarm that onTaskRemoved sets starts the service without asking
\* isRunning, whatever the main thread is doing.
TaskRemovedAlarm ==
  /\ requests < MaxRequests
  /\ StartService
  /\ requests' = requests + 1
  /\ UNCHANGED <<outbox, heard, main, serverThread, server, serverVars, listener,
                 sessionVars, lockVars, gone, kills>>

\* The receivers take broadcasts on the main thread, in the order sent.
Deliver ==
  /\ main = Idle /\ outbox # <<>>
  /\ outbox' = Tail(outbox) /\ heard' = Head(outbox)
  /\ UNCHANGED <<amsVars, main, serverThread, server, serverVars, listener,
                 sessionVars, lockVars, gone, boundVars>>

KillSessions ==
  session' = [s \in Sessions |-> IF session[s].run = "unused" THEN session[s]
                ELSE [session[s] EXCEPT !.run = "ended", !.cmdSocket = "closed"]]

\* The process is killed: threads, sockets and locks go with it, the statics
\* are reset, and a START_STICKY service that was up is created anew.
Kill ==
  /\ kills < MaxKills
  /\ record # NoInstance => made < MaxInstances
  /\ kills' = kills + 1
  /\ record' = IF record = NoInstance THEN NoInstance ELSE made + 1
  /\ made' = IF record = NoInstance THEN made ELSE made + 1
  /\ inbox' = IF record = NoInstance THEN <<>>
              ELSE <<[op |-> "start", svc |-> made + 1]>>
  /\ main' = Idle
  /\ serverThread' = NoInstance
  /\ server' = [svc \in Instances |-> IF server[svc] = "none" THEN "none" ELSE "dead"]
  /\ listener' = [svc \in Instances |-> IF listener[svc] = "none" THEN "none" ELSE "dead"]
  /\ listenSocket' = [svc \in Instances |-> "null"]
  /\ wifiListener' = [svc \in Instances |-> FALSE]
  /\ shouldExit' = [svc \in Instances |-> FALSE]
  /\ accepted' = [svc \in Instances |-> {}]
  /\ sessionThreads' = [svc \in Instances |-> {}]
  /\ wifiLock' = [svc \in Instances |-> FALSE]
  /\ wakeLock' = [svc \in Instances |-> FALSE]
  /\ KillSessions
  /\ gone' = 1..made
  /\ UNCHANGED <<outbox, heard, requests>>
-----------------------------------------------------------------------------
(* The main thread.                                                        *)

Receive(op, svc) ==
  /\ main = Idle /\ inbox # <<>>
  /\ Head(inbox) = [op |-> op, svc |-> svc]
  /\ inbox' = Tail(inbox)
  /\ UNCHANGED <<record, made>>

CreateServerThread(svc) ==
  /\ serverThread' = svc
  /\ server' = [server EXCEPT ![svc] = "network"]

onStartCommand(svc) ==
  /\ Receive("start", svc)
  /\ shouldExit' = [shouldExit EXCEPT ![svc] = FALSE]
  /\ IF serverThread = NoInstance
     THEN CreateServerThread(svc) /\ UNCHANGED main
     ELSE main' = [at |-> "wait", svc |-> svc] /\ UNCHANGED <<serverThread, server>>
  /\ UNCHANGED <<outbox, heard, listenSocket, wifiListener, listener, sessionVars,
                 lockVars, gone, boundVars>>

\* The end of the ten one-second sleeps of the wait loop, or its exit.
EndWait(svc) ==
  /\ MainAt("wait", svc)
  /\ main' = Idle
  /\ IF serverThread = NoInstance
     THEN CreateServerThread(svc)
     ELSE UNCHANGED <<serverThread, server>>
  /\ UNCHANGED <<amsVars, outbox, heard, serverVars, listener, sessionVars, lockVars,
                 gone, boundVars>>

RaiseExitFlag_Forgotten(svc) == UNCHANGED shouldExit
RaiseExitFlag(svc) == shouldExit' = [shouldExit EXCEPT ![svc] = TRUE]

\* onDestroy up to the join: with no server thread it returns at once.
onDestroy(svc) ==
  /\ Receive("destroy", svc)
  /\ RaiseExitFlag(svc)
  /\ IF serverThread = NoInstance
     THEN gone' = gone \union {svc} /\ UNCHANGED main
     ELSE main' = [at |-> "join", svc |-> svc] /\ UNCHANGED gone
  /\ UNCHANGED <<outbox, heard, serverThread, server, listenSocket, wifiListener, listener,
                 sessionVars, lockVars, boundVars>>

\* serverThread.join(10000) returns: the thread is dead, or the time is up.
JoinReturns_AtOnce == TRUE
JoinReturns == Alive(serverThread) => JoinMayTimeOut

\* The isAlive test after the join.
ThreadAfterJoin_Unchecked == NoInstance
ThreadAfterJoin_Kept == serverThread
ThreadAfterJoin == IF Alive(serverThread) THEN serverThread ELSE NoInstance

JoinServerThread(svc) ==
  /\ MainAt("join", svc)
  /\ JoinReturns
  /\ serverThread' = ThreadAfterJoin
  /\ main' = [main EXCEPT !.at = "close"]
  /\ UNCHANGED <<amsVars, outbox, heard, server, serverVars, listener, sessionVars,
                 lockVars, gone, boundVars>>

CloseListenSocket(svc) ==
  /\ MainAt("close", svc)
  /\ listenSocket' = [listenSocket EXCEPT ![svc] = IF @ = "null" THEN @ ELSE "closed"]
  /\ main' = [main EXCEPT !.at = "wifi"]
  /\ UNCHANGED <<amsVars, outbox, heard, serverThread, server, shouldExit, wifiListener,
                 listener, sessionVars, lockVars, gone, boundVars>>

ReleaseWifiLock(svc) ==
  /\ MainAt("wifi", svc)
  /\ wifiLock' = [wifiLock EXCEPT ![svc] = FALSE]
  /\ main' = [main EXCEPT !.at = "wake"]
  /\ UNCHANGED <<amsVars, outbox, heard, serverThread, server, serverVars, listener,
                 sessionVars, wakeLock, gone, boundVars>>

ReleaseWakeLock(svc) ==
  /\ MainAt("wake", svc)
  /\ wakeLock' = [wakeLock EXCEPT ![svc] = FALSE]
  /\ main' = Idle
  /\ gone' = gone \union {svc}
  /\ UNCHANGED <<amsVars, outbox, heard, serverThread, server, serverVars, listener,
                 sessionVars, wifiLock, boundVars>>

MainStep ==
  \E svc \in Instances :
    \/ onStartCommand(svc) \/ EndWait(svc)
    \/ onDestroy(svc) \/ JoinServerThread(svc)
    \/ CloseListenSocket(svc) \/ ReleaseWifiLock(svc) \/ ReleaseWakeLock(svc)
-----------------------------------------------------------------------------
(* The server thread: FsService.run.                                       *)

\* The network test, then the first half of setupListener: the socket exists.
CheckNetwork(svc) ==
  /\ \/ /\ Goto(svc, "network", "bind")
        /\ listenSocket' = [listenSocket EXCEPT ![svc] = "unbound"]
     \/ /\ Goto(svc, "network", "bail")
        /\ UNCHANGED listenSocket
  /\ UNCHANGED <<amsVars, outbox, heard, main, serverThread, shouldExit, wifiListener,
                 listener, sessionVars, lockVars, gone, boundVars>>

\* bind fails on a port in use, by this process or another, and on a socket
\* that onDestroy has closed meanwhile.
Bind(svc) ==
  /\ \/ /\ Goto(svc, "bind", "wifi")
        /\ listenSocket[svc] = "unbound"
        /\ \A other \in Instances : listenSocket[other] # "open"
        /\ listenSocket' = [listenSocket EXCEPT ![svc] = "open"]
     \/ /\ Goto(svc, "bind", "bail")
        /\ UNCHANGED listenSocket
  /\ UNCHANGED <<amsVars, outbox, heard, main, serverThread, shouldExit, wifiListener,
                 listener, sessionVars, lockVars, gone, boundVars>>

takeWifiLock(svc) ==
  /\ Goto(svc, "wifi", "wake")
  /\ wifiLock' = [wifiLock EXCEPT ![svc] = TRUE]
  /\ UNCHANGED <<amsVars, outbox, heard, main, serverThread, serverVars, listener,
                 sessionVars, wakeLock, gone, boundVars>>

takeWakeLock(svc) ==
  /\ Goto(svc, "wake", "announce")
  /\ wakeLock' = [wakeLock EXCEPT ![svc] = TRUE]
  /\ UNCHANGED <<amsVars, outbox, heard, main, serverThread, serverVars, listener,
                 sessionVars, wifiLock, gone, boundVars>>

AnnounceStarted(svc) ==
  /\ Goto(svc, "announce", "loop")
  /\ SendBroadcast("STARTED")
  /\ UNCHANGED <<amsVars, heard, main, serverThread, serverVars, listener, sessionVars,
                 lockVars, gone, boundVars>>

\* One turn of the while loop that spawns a TcpListener, or replaces a dead one.
SpawnListener(svc) ==
  /\ server[svc] = "loop" /\ ~shouldExit[svc]
  /\ ~wifiListener[svc] \/ listener[svc] = "dead"
  /\ wifiListener' = [wifiListener EXCEPT ![svc] = TRUE]
  /\ listener' = [listener EXCEPT ![svc] = "running"]
  /\ UNCHANGED <<amsVars, outbox, heard, main, serverThread, server, shouldExit,
                 listenSocket, sessionVars, lockVars, gone, boundVars>>

LeaveLoop(svc) ==
  /\ shouldExit[svc]
  /\ Goto(svc, "loop", "terminate")
  /\ UNCHANGED <<amsVars, outbox, heard, main, serverThread, serverVars, listener,
                 sessionVars, lockVars, gone, boundVars>>

\* Closes the sockets of the sessions registered at this moment.
terminateAllSessions(svc) ==
  /\ Goto(svc, "terminate", "quit")
  /\ session' = [s \in Sessions |-> IF s \in sessionThreads[svc]
                   THEN [session[s] EXCEPT !.cmdSocket = "closed"] ELSE session[s]]
  /\ UNCHANGED <<amsVars, outbox, heard, main, serverThread, serverVars, listener,
                 accepted, sessionThreads, lockVars, gone, boundVars>>

\* TcpListener.quit, skipped when the loop never spawned a listener.
QuitListener(svc) ==
  /\ Goto(svc, "quit", "ack")
  /\ listenSocket' = [listenSocket EXCEPT ![svc] = IF wifiListener[svc] THEN "closed" ELSE @]
  /\ wifiListener' = [wifiListener EXCEPT ![svc] = FALSE]
  /\ UNCHANGED <<amsVars, outbox, heard, main, serverThread, shouldExit, listener,
                 sessionVars, lockVars, gone, boundVars>>

AcknowledgeExit(svc) ==
  /\ Goto(svc, "ack", "stopped")
  /\ shouldExit' = [shouldExit EXCEPT ![svc] = FALSE]
  /\ StopSelf(svc)
  /\ UNCHANGED <<outbox, heard, main, serverThread, listenSocket, wifiListener, listener,
                 sessionVars, lockVars, gone, boundVars>>

AnnounceStopped(svc) ==
  /\ Goto(svc, "stopped", "dead")
  /\ SendBroadcast("STOPPED")
  /\ UNCHANGED <<amsVars, heard, main, serverThread, serverVars, listener, sessionVars,
                 lockVars, gone, boundVars>>

\* The two early returns of run.
BailOut(svc) ==
  /\ Goto(svc, "bail", "failed")
  /\ StopSelf(svc)
  /\ UNCHANGED <<outbox, heard, main, serverThread, serverVars, listener, sessionVars,
                 lockVars, gone, boundVars>>

AnnounceFailed(svc) ==
  /\ Goto(svc, "failed", "dead")
  /\ SendBroadcast("FAILEDTOSTART")
  /\ UNCHANGED <<amsVars, heard, main, serverThread, serverVars, listener, sessionVars,
                 lockVars, gone, boundVars>>

ServerStep(svc) ==
  \/ CheckNetwork(svc) \/ Bind(svc) \/ takeWifiLock(svc) \/ takeWakeLock(svc)
  \/ AnnounceStarted(svc) \/ SpawnListener(svc) \/ LeaveLoop(svc)
  \/ terminateAllSessions(svc) \/ QuitListener(svc)
  \/ AcknowledgeExit(svc) \/ AnnounceStopped(svc)
  \/ BailOut(svc) \/ AnnounceFailed(svc)
-----------------------------------------------------------------------------
(* The TcpListener thread and the session threads.                         *)

\* accept returns; the session thread is created and started.
Accept(svc, s) ==
  /\ listener[svc] = "running" /\ accepted[svc] = {}
  /\ listenSocket[svc] = "open"
  /\ session[s].run = "unused"
  /\ session' = [session EXCEPT ![s] = [run |-> "running", cmdSocket |-> "open", of |-> svc]]
  /\ accepted' = [accepted EXCEPT ![svc] = {s}]
  /\ UNCHANGED <<amsVars, outbox, heard, main, serverThread, server, serverVars, listener,
                 sessionThreads, lockVars, gone, boundVars>>

\* The sessions registerSessionThread leaves in the list.
Unfinished_Inverted(svc) == {s \in sessionThreads[svc] : session[s].run # "running"}
Unfinished(svc) == {s \in sessionThreads[svc] : session[s].run = "running"}

\* Finished sessions leave the list, the new one joins it.
registerSessionThread(svc) ==
  /\ listener[svc] = "running" /\ accepted[svc] # {}
  /\ sessionThreads' = [sessionThreads EXCEPT ![svc] = Unfinished(svc) \union accepted[svc]]
  /\ accepted' = [accepted EXCEPT ![svc] = {}]
  /\ UNCHANGED <<amsVars, outbox, heard, main, serverThread, server, serverVars, listener,
                 session, lockVars, gone, boundVars>>

\* accept throws: the socket was closed, or the accept itself failed.
ListenerEnds(svc) ==
  /\ listener[svc] = "running" /\ accepted[svc] = {}
  /\ listener' = [listener EXCEPT ![svc] = "dead"]
  /\ UNCHANGED <<amsVars, outbox, heard, main, serverThread, server, serverVars,
                 sessionVars, lockVars, gone, boundVars>>

\* SessionThread.run returns: the client left, or its socket was closed.
SessionEnds(s) ==
  /\ session[s].run = "running"
  /\ session' = [session EXCEPT ![s].run = "ended", ![s].cmdSocket = "closed"]
  /\ UNCHANGED <<amsVars, outbox, heard, main, serverThread, server, serverVars, listener,
                 accepted, sessionThreads, lockVars, gone, boundVars>>

ListenerStep(svc) ==
  \/ \E s \in Sessions : Accept(svc, s)
  \/ registerSessionThread(svc)
  \/ ListenerEnds(svc)
-----------------------------------------------------------------------------
Init ==
  /\ record = NoInstance /\ made = 0
  /\ inbox = <<>> /\ outbox = <<>> /\ heard = "nothing"
  /\ main = Idle /\ serverThread = NoInstance
  /\ server = [svc \in Instances |-> "none"]
  /\ shouldExit = [svc \in Instances |-> FALSE]
  /\ listenSocket = [svc \in Instances |-> "null"]
  /\ wifiListener = [svc \in Instances |-> FALSE]
  /\ listener = [svc \in Instances |-> "none"]
  /\ accepted = [svc \in Instances |-> {}]
  /\ sessionThreads = [svc \in Instances |-> {}]
  /\ wifiLock = [svc \in Instances |-> FALSE]
  /\ wakeLock = [svc \in Instances |-> FALSE]
  /\ session = [s \in Sessions |-> [run |-> "unused", cmdSocket |-> "closed", of |-> NoInstance]]
  /\ gone = {} /\ requests = 0 /\ kills = 0

Request == RequestStart \/ RequestStop \/ TaskRemovedAlarm

Next ==
  \/ Request \/ Kill \/ Deliver
  \/ MainStep
  \/ \E svc \in Instances : ServerStep(svc) \/ ListenerStep(svc)
  \/ \E s \in Sessions : SessionEnds(s)

\* Threads are scheduled; requests, clients and kills need never come.
Fairness ==
  /\ WF_vars(MainStep) /\ WF_vars(Deliver)
  /\ \A svc \in Instances : WF_vars(ServerStep(svc))

Spec == Init /\ [][Next]_vars
FairSpec == Spec /\ Fairness
-----------------------------------------------------------------------------
(* Properties.                                                             *)

TypeOK ==
  /\ record \in Instances \union {NoInstance}
  /\ made \in 0..MaxInstances
  /\ inbox \in Seq(Messages)
  /\ outbox \in Seq(Broadcasts)
  /\ heard \in Broadcasts \union {"nothing"}
  /\ main \in MainPoints
  /\ serverThread \in Instances \union {NoInstance}
  /\ server \in [Instances -> ServerPoints]
  /\ shouldExit \in [Instances -> BOOLEAN]
  /\ listenSocket \in [Instances -> {"null", "unbound", "open", "closed"}]
  /\ wifiListener \in [Instances -> BOOLEAN]
  /\ listener \in [Instances -> {"none", "running", "dead"}]
  /\ accepted \in [Instances -> SUBSET Sessions]
  /\ sessionThreads \in [Instances -> SUBSET Sessions]
  /\ wifiLock \in [Instances -> BOOLEAN]
  /\ wakeLock \in [Instances -> BOOLEAN]
  /\ session \in [Sessions -> SessionStates]
  /\ gone \in SUBSET Instances
  /\ requests \in 0..MaxRequests
  /\ kills \in 0..MaxKills

\* A server thread that is alive is the one the static field serverThread holds,
\* even when onDestroy gave up waiting for it: so isRunning never denies a running
\* server, and two instances never run a server thread at once.
LiveThreadIsTracked == \A svc \in Instances : Alive(svc) => serverThread = svc

\* Once onDestroy has returned, its instance holds nothing: no server thread, no
\* listening socket, no wifi or wake lock. (The join of onDestroy must succeed.)
DestroyedHoldsNothing ==
  \A svc \in gone :
    /\ ~Alive(svc)
    /\ listenSocket[svc] \notin {"unbound", "open"}
    /\ ~wifiLock[svc] /\ ~wakeLock[svc]

\* Every running session is in its service's sessionThreads, or in the hands of the
\* listener that is about to register it: the clean-up of finished sessions in
\* registerSessionThread never loses a running one.
RunningSessionsAreKnown ==
  \A svc \in Instances : \A s \in Known(svc) :
    session[s].run = "running" => s \in sessionThreads[svc] \union accepted[svc]

\* An instance that has been destroyed is left by its server thread, also when
\* onDestroy stopped waiting for it: the exit flag stays set until the thread sees it.
DestroyedThreadExits == \A svc \in Instances : svc \in gone ~> ~Alive(svc)

\* A service that stays up serves: if the record of an instance is never taken
\* down again, its server thread gets into the accept loop and stays there.
ServiceServes ==
  \A svc \in Instances : <>[](record = svc) => <>[](server[svc] = "loop")
-----------------------------------------------------------------------------
(* What the service promises to the rest of the application: OnOffServer.  *)

StartingPoints == {"network", "bind", "wifi", "wake", "announce", "bail", "failed"}
UpPoints == {"loop", "terminate", "quit", "ack", "stopped"}

phase ==
  IF \E svc \in Instances : server[svc] \in StartingPoints THEN "starting"
  ELSE IF \E svc \in Instances : server[svc] \in UpPoints THEN "up"
  ELSE "off"

told == IF outbox = <<>> THEN heard ELSE outbox[Len(outbox)]

OnOff == INSTANCE OnOffServer WITH phase <- phase, told <- told

\* Seen from the broadcasts, the service is one server that is off, starting or up:
\* STARTED and STOPPED alternate, a failed start is announced as such, and no
\* start begins before the previous server has announced its end or was killed.
ImplementsOnOffServer == OnOff!Spec
=============================================================================
