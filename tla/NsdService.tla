----------------------------- MODULE NsdService -----------------------------
(***************************************************************************)
(* NsdService advertises the FTP server on the local network: STARTED and  *)
(* STOPPED broadcasts start and stop it, onCreate spawns a thread that     *)
(* registers the service, onDestroy takes the registration back.           *)
(*                                                                         *)
(* The main thread and the spawned thread share the fields running         *)
(* (volatile) and mNsdManager. A call through mNsdManager loads the field  *)
(* first and is made in a later step; every exception of these calls is    *)
(* caught. NsdManager (external) may hang when it is asked for, and both   *)
(* registering and unregistering may fail: with an exception, or later by  *)
(* onRegistrationFailed and onUnregistrationFailed, which only log it.     *)
(***************************************************************************)
EXTENDS Naturals, Sequences

CONSTANT MaxInstances  \* bound: instances of the service ever created
ASSUME InstancesAssumption == MaxInstances \in Nat \ {0}

Instances == 1..MaxInstances
NoInstance == 0

VARIABLES
  record,       \* the activity manager's record of the service
  instances,    \* instances created
  inbox,        \* service messages for the main thread
  main,         \* the onDestroy under way: [at, svc]
  running,      \* NsdService.running
  mNsdManager,  \* whether NsdService.mNsdManager is non-null
  thread,       \* control point of the thread of each instance
  registered,   \* listeners that NsdManager has registered
  refused,      \* those that it was asked to unregister, and failed to
  destroyed     \* instances whose onDestroy returned

nsdVars ==
  <<record, instances, inbox, main, running, mNsdManager, thread, registered, refused, destroyed>>

Idle == [at |-> "idle", svc |-> NoInstance]
ThreadPoints == {"none", "get", "sleep", "load", "call", "dead"}
ThreadGoto(svc, from, to) == thread[svc] = from /\ thread' = [thread EXCEPT ![svc] = to]
MainGoto(svc, from, to) ==
  main = [at |-> from, svc |-> svc] /\ main' = [at |-> to, svc |-> svc]
SetManager(svc, present) == mNsdManager' = [mNsdManager EXCEPT ![svc] = present]
-----------------------------------------------------------------------------
\* StartStopReceiver. A start while the record is up calls onStartCommand, and a
\* stop without one calls nothing.
ReceiveStarted ==
  /\ main = Idle /\ record = NoInstance /\ instances < MaxInstances
  /\ record' = instances + 1 /\ instances' = instances + 1
  /\ inbox' = Append(inbox, [op |-> "create", svc |-> instances + 1])
  /\ UNCHANGED <<main, running, mNsdManager, thread, registered, refused, destroyed>>

ReceiveStopped ==
  /\ main = Idle /\ record # NoInstance
  /\ record' = NoInstance
  /\ inbox' = Append(inbox, [op |-> "destroy", svc |-> record])
  /\ UNCHANGED <<instances, main, running, mNsdManager, thread, registered, refused, destroyed>>

Receive(op, svc) ==
  /\ main = Idle /\ inbox # <<>>
  /\ Head(inbox) = [op |-> op, svc |-> svc]
  /\ inbox' = Tail(inbox)
  /\ UNCHANGED <<record, instances>>

onCreate(svc) ==
  /\ Receive("create", svc)
  /\ running' = [running EXCEPT ![svc] = TRUE]
  /\ ThreadGoto(svc, "none", "get")
  /\ UNCHANGED <<main, mNsdManager, registered, refused, destroyed>>

\* onDestroy, with its early return when there is no manager.
onDestroy(svc) ==
  /\ Receive("destroy", svc)
  /\ running' = [running EXCEPT ![svc] = FALSE]
  /\ main' = [at |-> "test", svc |-> svc]
  /\ UNCHANGED <<mNsdManager, thread, registered, refused, destroyed>>

TestManager(svc) ==
  /\ IF mNsdManager[svc]
     THEN MainGoto(svc, "test", "load") /\ UNCHANGED destroyed
     ELSE /\ main = [at |-> "test", svc |-> svc]
          /\ main' = Idle
          /\ destroyed' = destroyed \union {svc}
  /\ UNCHANGED <<record, instances, inbox, running, mNsdManager, thread, registered, refused>>

\* Mutant: onDestroy clears the field without the call.
LoadManager_Forgets(svc) ==
  /\ MainGoto(svc, "load", "clear")
  /\ UNCHANGED <<record, instances, inbox, running, mNsdManager, thread, registered, refused, destroyed>>

\* The thread may have cleared the field meanwhile: the exception is caught.
LoadManager(svc) ==
  /\ MainGoto(svc, "load", IF mNsdManager[svc] THEN "unregister" ELSE "clear")
  /\ UNCHANGED <<record, instances, inbox, running, mNsdManager, thread, registered, refused, destroyed>>

\* NsdManager may fail to unregister the listener, and throws when it was never
\* registered: either way the next step clears the field.
UnregisterService(svc) ==
  /\ MainGoto(svc, "unregister", "clear")
  /\ \/ registered' = registered \ {svc} /\ UNCHANGED refused
     \/ refused' = refused \union {svc} /\ UNCHANGED registered
  /\ UNCHANGED <<record, instances, inbox, running, mNsdManager, thread, destroyed>>

ClearManager(svc) ==
  /\ main = [at |-> "clear", svc |-> svc] /\ main' = Idle
  /\ SetManager(svc, FALSE)
  /\ destroyed' = destroyed \union {svc}
  /\ UNCHANGED <<record, instances, inbox, running, thread, registered, refused>>

MainStep ==
  \E svc \in Instances :
    \/ onCreate(svc) \/ onDestroy(svc)
    \/ TestManager(svc) \/ LoadManager(svc) \/ UnregisterService(svc) \/ ClearManager(svc)
-----------------------------------------------------------------------------
\* The thread of onCreate. Its call of getSystemService "sometimes hangs".
GetManager(svc) ==
  /\ \/ ThreadGoto(svc, "get", "sleep") /\ SetManager(svc, TRUE)
     \/ ThreadGoto(svc, "get", "dead") /\ SetManager(svc, FALSE)
  /\ UNCHANGED <<record, instances, inbox, main, running, registered, refused, destroyed>>

StillRunning_Unasked(svc) == TRUE
StillRunning(svc) == running[svc]

TestRunning(svc) ==
  /\ IF StillRunning(svc)
     THEN ThreadGoto(svc, "sleep", "load") /\ UNCHANGED mNsdManager
     ELSE ThreadGoto(svc, "sleep", "dead") /\ SetManager(svc, FALSE)
  /\ UNCHANGED <<record, instances, inbox, main, running, registered, refused, destroyed>>

LoadToRegister(svc) ==
  /\ IF mNsdManager[svc]
     THEN ThreadGoto(svc, "load", "call") /\ UNCHANGED mNsdManager
     ELSE ThreadGoto(svc, "load", "dead") /\ SetManager(svc, FALSE)
  /\ UNCHANGED <<record, instances, inbox, main, running, registered, refused, destroyed>>

RegisterService(svc) ==
  /\ ThreadGoto(svc, "call", "dead")
  /\ \/ registered' = registered \union {svc} /\ UNCHANGED mNsdManager
     \/ UNCHANGED <<registered, mNsdManager>>
     \/ SetManager(svc, FALSE) /\ UNCHANGED registered
  /\ UNCHANGED <<record, instances, inbox, main, running, refused, destroyed>>

ThreadStep(svc) ==
  GetManager(svc) \/ TestRunning(svc) \/ LoadToRegister(svc) \/ RegisterService(svc)

NsdInit ==
  /\ record = NoInstance /\ instances = 0 /\ inbox = <<>> /\ main = Idle
  /\ running = [svc \in Instances |-> FALSE]
  /\ mNsdManager = [svc \in Instances |-> FALSE]
  /\ thread = [svc \in Instances |-> "none"]
  /\ registered = {} /\ refused = {} /\ destroyed = {}

NsdNext ==
  \/ ReceiveStarted \/ ReceiveStopped \/ MainStep
  \/ \E svc \in Instances : ThreadStep(svc)

NsdSpec == NsdInit /\ [][NsdNext]_nsdVars
-----------------------------------------------------------------------------
\* A thread that hangs in getSystemService, or still sleeps, until its service has
\* begun to be destroyed never registers the service: the flag that is there to "keep
\* runaway threads in check" does so. (A thread that has just tested it still may.)
HungThreadBailsOut ==
  \A svc \in Instances :
    [](main.svc = svc /\ thread[svc] \in {"get", "sleep"} => [](svc \notin registered))

\* A registration that was made before onDestroy began is not forgotten by it,
\* although both threads set and clear mNsdManager: when onDestroy has returned, the
\* service is not advertised any more, or NsdManager was asked and failed.
StopTakesRegistrationBack ==
  \A svc \in Instances :
    [](svc \in registered /\ running[svc] =>
         [](svc \in destroyed => svc \notin registered \/ svc \in refused))
=============================================================================
