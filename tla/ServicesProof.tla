--------------------------- MODULE ServicesProof ---------------------------
(***************************************************************************)
(* Theorems about three small components: MediaUpdater and NsdService, the *)
(* two services beside the server, and AsciiTransfer, the line ends of a   *)
(* transfer; they share nothing, each has its part of this module.         *)
(***************************************************************************)
EXTENDS MediaUpdater, NsdService, AsciiTransfer, FiniteSetTheorems, SequenceTheorems, TLAPS

-----------------------------------------------------------------------------
(* MediaUpdater, for any number of session threads, any delay and any number *)
(* of deletions. Without synchronization the shared field is safe only while *)
(* calls do not overlap: what is proved is that nothing else is needed.      *)

Points == {"idle", "cancel", "create", "load", "schedule"}
Tasks == [timer : Nat, due : Nat, request : Nat]

Types ==
  /\ made \in Nat /\ sTimer = made /\ requests \in Nat
  /\ cancelled \subseteq 1..made
  /\ tasks \subseteq Tasks
  /\ at \in [Callers -> Points] /\ using \in [Callers -> 1..made]
  /\ now \in Nat /\ lastRequest \in 0..now
  /\ overlapped \in BOOLEAN /\ crashed \in BOOLEAN

\* While no two calls have overlapped, a call is alone with the field: the timer that it
\* has loaded is the one that is there, and it is cancelled only between the call's
\* cancelling it and its putting another in its place.
OneCall == \A c, d \in Callers : at[c] # "idle" /\ at[d] # "idle" => c = d
Exchanging == \E c \in Callers : at[c] = "create"
Alone ==
  /\ OneCall
  /\ \A c \in Callers : at[c] \in {"cancel", "schedule"} => using[c] = sTimer
  /\ sTimer \in cancelled => Exchanging

\* All that waits is of the timer in the field, or nothing does while a call is at work
\* on a new one; and nothing is due before the last deletion's five seconds are over.
Waiting ==
  /\ (\E c \in Callers : at[c] \in {"create", "load", "schedule"}) => tasks = {}
  /\ \A task \in tasks : task.timer = sTimer /\ task.due >= lastRequest + Delay

MediaInv == Types /\ (overlapped \/ (Alone /\ Waiting /\ ~crashed))

\* Before the first deletion there is one timer, without a task.
LEMMA MediaInit == Init => MediaInv
<1> SUFFICES ASSUME Init PROVE MediaInv
  OBVIOUS
<1>1. Types
  <2>1. using \in [Callers -> 1..made] /\ at \in [Callers -> Points]
    <3>1. 1 \in 1..made /\ "idle" \in Points
      BY DEF Init, Points
    <3> QED BY <3>1 DEF Init
  <2>2. lastRequest \in 0..now
    BY DEF Init
  <2> QED BY <2>1, <2>2 DEF Init, Types
<1>2. Alone /\ Waiting /\ ~crashed
  BY DEF Init, Alone, OneCall, Waiting
<1> QED BY <1>1, <1>2 DEF MediaInv

\* A deletion loads the timer; if another call is under way, the two overlap.
LEMMA NotifyKeeps ==
  ASSUME MediaInv, NEW c \in Callers, notifyFileDeleted(c) PROVE MediaInv'
<1> USE DEF MediaInv, notifyFileDeleted, Goto, Load, timerVars
<1>1. Types'
  BY DEF Types, Points
<1>2. ASSUME ~overlapped' PROVE Alone' /\ Waiting' /\ ~crashed'
  <2>1. /\ ~overlapped /\ \A d \in Callers : at[d] = "idle"
        /\ \A d \in Callers : at'[d] = IF d = c THEN "cancel" ELSE "idle"
        /\ using'[c] = sTimer
    BY <1>2 DEF Types, Calling
  <2>2. Alone'
    BY <2>1 DEF Alone, OneCall, Exchanging
  <2> QED BY <2>1, <2>2 DEF Waiting
<1> QED BY <1>1, <1>2

\* Cancelling the loaded timer drops all that waits, as it is the one in the field.
LEMMA CancelKeeps ==
  ASSUME MediaInv, NEW c \in Callers, Cancel(c) PROVE MediaInv'
<1> USE DEF MediaInv, Cancel, Cancelled, Goto
<1>1. Types'
  <2>1. cancelled' \subseteq 1..made /\ tasks' \subseteq Tasks
    BY DEF Types
  <2>2. at' \in [Callers -> Points] /\ lastRequest' \in 0..now
    BY DEF Types, Points
  <2> QED BY <2>1, <2>2 DEF Types
<1>2. ASSUME ~overlapped PROVE Alone' /\ Waiting' /\ ~crashed'
  <2>1. /\ \A d \in Callers : at'[d] = IF d = c THEN "create" ELSE "idle"
        /\ using[c] = sTimer
    BY <1>2 DEF Types, Points, Alone, OneCall
  <2>2. Alone'
    BY <2>1 DEF Alone, OneCall, Exchanging
  <2>3. tasks' = {}
    BY <1>2, <2>1 DEF Waiting
  <2> QED BY <1>2, <2>2, <2>3 DEF Waiting
<1> QED BY <1>1, <1>2

\* The new timer is one that no one has cancelled.
LEMMA CreateKeeps ==
  ASSUME MediaInv, NEW c \in Callers, Create(c) PROVE MediaInv'
<1> USE DEF MediaInv, Create, Goto
<1>1. Types'
  BY DEF Types, Points
<1>2. ASSUME ~overlapped PROVE Alone' /\ Waiting' /\ ~crashed'
  <2>1. \A d \in Callers : at'[d] = IF d = c THEN "load" ELSE "idle"
    BY <1>2 DEF Types, Points, Alone, OneCall
  <2>2. sTimer' \notin cancelled
    BY DEF Types
  <2>3. tasks = {}
    BY <1>2 DEF Waiting
  <2> QED BY <1>2, <2>1, <2>2, <2>3 DEF Alone, OneCall, Waiting
<1> QED BY <1>1, <1>2

\* Loading the field a second time gives the new timer.
LEMMA LoadKeeps ==
  ASSUME MediaInv, NEW c \in Callers, LoadCreated(c) PROVE MediaInv'
<1> USE DEF MediaInv, LoadCreated, Goto, Load, timerVars
<1>1. Types'
  BY DEF Types, Points
<1>2. ASSUME ~overlapped PROVE Alone' /\ Waiting' /\ ~crashed'
  <2>1. /\ \A d \in Callers : at[d] = IF d = c THEN "load" ELSE "idle"
        /\ \A d \in Callers : at'[d] = IF d = c THEN "schedule" ELSE "idle"
        /\ using'[c] = sTimer
    BY <1>2 DEF Types, Points, Alone, OneCall
  <2>2. sTimer \notin cancelled /\ tasks = {}
    BY <1>2, <2>1 DEF Alone, Exchanging, Waiting
  <2> QED BY <1>2, <2>1, <2>2 DEF Alone, OneCall, Waiting
<1> QED BY <1>1, <1>2

\* The task goes to a timer that takes it, and is due five seconds from now.
LEMMA ScheduleKeeps ==
  ASSUME MediaInv, NEW c \in Callers, Schedule(c) PROVE MediaInv'
<1> USE DEF MediaInv, Schedule, NewTasks, Goto
<1>1. Delay \in Nat
  BY MediaBounds
<1>2. Types'
  <2>1. [timer |-> using[c], due |-> now + Delay, request |-> requests] \in Tasks
    BY <1>1 DEF Types, Tasks
  <2> QED BY <2>1 DEF Types, Points
<1>3. ASSUME ~overlapped PROVE Alone' /\ Waiting' /\ ~crashed'
  <2>1. /\ \A d \in Callers : at[d] = IF d = c THEN "schedule" ELSE "idle"
        /\ \A d \in Callers : at'[d] = "idle"
        /\ using[c] = sTimer
    BY <1>3 DEF Types, Points, Alone, OneCall
  <2>2. using[c] \notin cancelled /\ tasks = {}
    BY <1>3, <2>1 DEF Alone, Exchanging, Waiting
  <2>3. now + Delay >= lastRequest + Delay
    BY <1>1 DEF Types
  <2>4. tasks' = {[timer |-> using[c], due |-> now + Delay, request |-> requests]}
    BY <2>2
  <2>5. Waiting'
    BY <2>1, <2>3, <2>4 DEF Waiting
  <2> QED BY <1>3, <2>1, <2>2, <2>5 DEF Alone, OneCall
<1> QED BY <1>2, <1>3

\* Every step keeps it.
LEMMA MediaStep == MediaInv /\ [Next]_vars => MediaInv'
<1> SUFFICES ASSUME MediaInv, [Next]_vars PROVE MediaInv'
  OBVIOUS
<1>1. CASE Broadcast
  BY <1>1 DEF Broadcast, Fire, MediaInv, Types, Alone, OneCall, Exchanging, Waiting
<1>2. CASE Tick
  BY <1>2 DEF Tick, timerVars, MediaInv, Types, Alone, OneCall, Exchanging, Waiting
<1>3. CASE UNCHANGED vars
  BY <1>3 DEF vars, MediaInv, Types, Alone, OneCall, Exchanging, Waiting
<1> QED
  BY <1>1, <1>2, <1>3, NotifyKeeps, CancelKeeps, CreateKeeps, LoadKeeps, ScheduleKeeps
  DEF Next, Continue

LEMMA MediaInvariant == Spec => []MediaInv
  BY MediaInit, MediaStep, PTL DEF Spec

\* However many sessions delete files, and however their calls follow each other, the
\* process ends with "Timer already cancelled" only after two calls have overlapped.
THEOREM TimerIsLive == Spec => []CancelledTimerUnused
<1>1. MediaInv => CancelledTimerUnused
  BY DEF MediaInv, CancelledTimerUnused
<1> QED BY <1>1, MediaInvariant, PTL

\* And only then is the broadcast sent before the last deletion's delay is over: as long
\* as calls do not overlap, every deletion puts off the broadcast of those before it.
THEOREM BroadcastWaits == Spec => BroadcastAfterQuiet
<1>1. ASSUME MediaInv, NEW task \in tasks, Fire(task), ~overlapped
      PROVE  now >= lastRequest + Delay
  <2>1. task.due \in Nat /\ task.due >= lastRequest + Delay /\ task.due <= now
    BY <1>1 DEF MediaInv, Types, Tasks, Waiting, Fire
  <2>2. now \in Nat /\ lastRequest \in Nat /\ Delay \in Nat
    BY <1>1, MediaBounds DEF MediaInv, Types
  <2> QED BY <2>1, <2>2
<1>2. MediaInv =>
        [((\E task \in tasks : Fire(task)) /\ ~overlapped) => now >= lastRequest + Delay]_vars
  BY <1>1
<1> QED BY <1>2, MediaInvariant, PTL DEF BroadcastAfterQuiet
-----------------------------------------------------------------------------
(* NsdService, for any number of instances. The field mNsdManager is shared *)
(* by the main thread and the one that onCreate starts, and both may find   *)
(* that the other has cleared it since they tested or loaded it.            *)

\* A message that waits is one of onCreate or onDestroy of an instance.
Messages == [op : {"create", "destroy"}, svc : Nat \ {0}]
MainPoints == {"idle", "test", "load", "unregister", "clear"}

NsdTypes ==
  /\ instances \in Nat /\ record \in 0..instances
  /\ inbox \in Seq(Messages)
  /\ main \in [at : MainPoints, svc : Instances \union {NoInstance}]
  /\ running \in [Instances -> BOOLEAN] /\ mNsdManager \in [Instances -> BOOLEAN]
  /\ thread \in [Instances -> ThreadPoints]

Started == {svc \in Instances : thread[svc] # "none"}

\* onCreate of the instance has been called, or is to be before the i-th message.
CreatedBefore(started, messages, svc, i) ==
  \/ svc \in started
  \/ \E j \in 1..Len(messages) : j < i /\ messages[j] = [op |-> "create", svc |-> svc]

\* onCreate of an instance comes before its onDestroy.
Ordered ==
  /\ record # NoInstance => CreatedBefore(Started, inbox, record, Len(inbox) + 1)
  /\ \A i \in 1..Len(inbox) :
       inbox[i].op = "destroy" => CreatedBefore(Started, inbox, inbox[i].svc, i)
  /\ \A svc \in Instances : main.svc = svc \/ svc \in destroyed => svc \in Started

\* The flag is down from the start of onDestroy on. While it is up the manager that the
\* thread got is there, and a listener is registered by the thread's last step.
Flagged ==
  \A svc \in Instances :
    /\ main.svc = svc \/ svc \in destroyed => ~running[svc]
    /\ running[svc] /\ (thread[svc] \in {"sleep", "load", "call"} \/ svc \in registered)
         => mNsdManager[svc]
    /\ svc \in registered => thread[svc] = "dead"

NsdInv == NsdTypes /\ Ordered /\ Flagged

\* Nothing is there at first.
LEMMA NsdStarts == NsdInit => NsdInv
<1> SUFFICES ASSUME NsdInit PROVE NsdInv
  OBVIOUS
<1> USE DEF NsdInit
<1>1. NsdTypes
  <2>1. <<>> \in Seq(Messages)
    OBVIOUS
  <2> QED
    BY <2>1 DEF NsdTypes, NoInstance, Idle, MainPoints, ThreadPoints
<1>2. Ordered /\ Flagged
  BY DEF Ordered, Flagged, NoInstance, Idle, Instances
<1> QED BY <1>1, <1>2 DEF NsdInv

\* A broadcast puts its message behind those that wait.
LEMMA BroadcastKeeps ==
  ASSUME NsdInv, ReceiveStarted \/ ReceiveStopped PROVE NsdInv'
<1> USE DEF NsdInv
<1>2. PICK message \in Messages :
        /\ inbox' = Append(inbox, message)
        /\ \/ record' # NoInstance /\ message = [op |-> "create", svc |-> record']
           \/ /\ record' = NoInstance /\ record # NoInstance
              /\ message = [op |-> "destroy", svc |-> record]
  BY DEF ReceiveStarted, ReceiveStopped, NsdTypes, Messages, NoInstance
<1>3. UNCHANGED <<main, running, mNsdManager, thread, registered, refused, destroyed>>
  BY DEF ReceiveStarted, ReceiveStopped
<1>4. /\ inbox' \in Seq(Messages) /\ inbox \in Seq(Messages)
      /\ Len(inbox') = Len(inbox) + 1 /\ Len(inbox) \in Nat
      /\ inbox'[Len(inbox) + 1] = message
      /\ \A i \in 1..Len(inbox) : inbox'[i] = inbox[i]
  BY <1>2 DEF NsdTypes
<1>5. NsdTypes'
  BY <1>3, <1>4 DEF NsdTypes, ReceiveStarted, ReceiveStopped, NoInstance
<1>6. \A svc, i : CreatedBefore(Started, inbox, svc, i) => CreatedBefore(Started', inbox', svc, i)
  BY <1>3, <1>4 DEF CreatedBefore, Started
<1>7. \A i \in 1..Len(inbox') :
        inbox'[i].op = "destroy" => CreatedBefore(Started', inbox', inbox'[i].svc, i)
  <2> TAKE i \in 1..Len(inbox')
  <2>1. CASE i \in 1..Len(inbox)
    BY <1>4, <1>6, <2>1 DEF Ordered
  <2>2. CASE i = Len(inbox) + 1
    BY <1>2, <1>4, <1>6, <2>2 DEF Ordered
  <2> QED BY <1>4, <2>1, <2>2
<1>8. record' # NoInstance => CreatedBefore(Started', inbox', record', Len(inbox') + 1)
  BY <1>2, <1>4 DEF CreatedBefore
<1>9. Ordered'
  BY <1>3, <1>7, <1>8 DEF Ordered, Started
<1> QED BY <1>3, <1>5, <1>9 DEF Flagged

\* A message is taken from the front, and the others move up by one.
LEMMA Received ==
  ASSUME NsdInv, NEW op \in {"create", "destroy"}, NEW svc \in Instances,
         Receive(op, svc)
  PROVE  /\ main = Idle /\ inbox' \in Seq(Messages)
         /\ Len(inbox) \in Nat \ {0} /\ Len(inbox') = Len(inbox) - 1
         /\ inbox[1] = [op |-> op, svc |-> svc]
         /\ \A i \in 1..Len(inbox') : inbox'[i] = inbox[i + 1]
BY DEF Receive, NsdInv, NsdTypes

\* An onCreate that came before another message still does, or is the one taken: so
\* taking a message leaves the others in order, as onCreate starts the thread.
LEMMA StillOrdered ==
  ASSUME NsdInv, NEW op \in {"create", "destroy"}, NEW svc \in Instances,
         Receive(op, svc),
         Started \subseteq Started', op = "create" => svc \in Started',
         \A d \in Instances : main'.svc = d \/ d \in destroyed' => d \in Started'
  PROVE  Ordered'
<1> USE DEF NsdInv
<1>1. /\ Len(inbox) \in Nat \ {0} /\ Len(inbox') = Len(inbox) - 1
      /\ inbox[1] = [op |-> op, svc |-> svc] /\ inbox' \in Seq(Messages)
      /\ \A i \in 1..Len(inbox') : inbox'[i] = inbox[i + 1]
  BY Received
<1>2. ASSUME NEW d, NEW i \in 1..Len(inbox), CreatedBefore(Started, inbox, d, i + 1)
      PROVE  CreatedBefore(Started', inbox', d, i)
  <2>1. CASE d \in Started
    BY <2>1 DEF CreatedBefore
  <2>2. CASE d \notin Started
    <3>1. PICK j \in 1..Len(inbox) : j < i + 1 /\ inbox[j] = [op |-> "create", svc |-> d]
      BY <1>2, <2>2 DEF CreatedBefore
    <3>2. CASE j = 1
      BY <1>1, <3>1, <3>2 DEF CreatedBefore
    <3>3. CASE j # 1
      <4>1. j - 1 \in 1..Len(inbox') /\ j - 1 < i /\ inbox'[j - 1] = inbox[(j - 1) + 1]
        BY <1>1, <3>1, <3>3
      <4>2. inbox'[j - 1] = inbox[j]
        BY <4>1
      <4> QED BY <3>1, <4>1, <4>2 DEF CreatedBefore
    <3> QED BY <3>2, <3>3
  <2> QED BY <2>1, <2>2
<1>3. record' # NoInstance => CreatedBefore(Started', inbox', record', Len(inbox') + 1)
  <2>1. record' = record /\ Len(inbox') + 1 = Len(inbox) /\ Len(inbox) \in 1..Len(inbox)
    BY <1>1 DEF Receive
  <2> QED BY <1>2, <2>1 DEF Ordered
<1>4. ASSUME NEW i \in 1..Len(inbox'), inbox'[i].op = "destroy"
      PROVE  CreatedBefore(Started', inbox', inbox'[i].svc, i)
  <2>1. i + 1 \in 1..Len(inbox) /\ i \in 1..Len(inbox) /\ inbox'[i] = inbox[i + 1]
    BY <1>1
  <2>3. CreatedBefore(Started, inbox, inbox[i + 1].svc, i + 1)
    BY <1>4, <2>1 DEF Ordered
  <2> QED BY <1>2, <2>1, <2>3
<1> QED BY <1>3, <1>4 DEF Ordered

\* onCreate puts the flag up, for an instance that has neither been destroyed nor
\* registered.
LEMMA CreateServiceKeeps ==
  ASSUME NsdInv, NEW svc \in Instances, onCreate(svc) PROVE NsdInv'
<1> USE DEF NsdInv, onCreate, ThreadGoto
<1>1. /\ Receive("create", svc) /\ main = Idle /\ inbox' \in Seq(Messages)
      /\ thread[svc] = "none" /\ thread' = [thread EXCEPT ![svc] = "get"]
  BY Received
<1>2. NsdTypes'
  BY <1>1 DEF NsdTypes, Receive, ThreadPoints
<1>3. \A d \in Instances : thread'[d] = IF d = svc THEN "get" ELSE thread[d]
  BY <1>1 DEF NsdTypes
<1>4. Ordered'
  <2>1. \A d \in Instances : main'.svc = d \/ d \in destroyed' => d \in Started'
    BY <1>3 DEF Ordered, Started
  <2>2. Started \subseteq Started' /\ svc \in Started'
    BY <1>3 DEF Started
  <2> QED BY <1>1, <2>1, <2>2, StillOrdered
<1>5. Flagged'
  BY <1>1, <1>3 DEF NsdTypes, Ordered, Started, Flagged
<1> QED BY <1>2, <1>4, <1>5

\* onDestroy finds its thread started and takes the flag down.
LEMMA DestroyServiceKeeps ==
  ASSUME NsdInv, NEW svc \in Instances, onDestroy(svc) PROVE NsdInv'
<1> USE DEF NsdInv, onDestroy
<1>1. /\ Receive("destroy", svc) /\ main = Idle /\ inbox' \in Seq(Messages)
      /\ Len(inbox) \in Nat \ {0} /\ inbox[1] = [op |-> "destroy", svc |-> svc]
  BY Received
<1>2. NsdTypes'
  BY <1>1 DEF NsdTypes, Receive, MainPoints
<1>3. svc \in Started
  <2>1. 1 \in 1..Len(inbox) /\ inbox[1].op = "destroy" /\ inbox[1].svc = svc
    BY <1>1
  <2>2. CreatedBefore(Started, inbox, svc, 1)
    BY <2>1 DEF Ordered
  <2> QED BY <2>2 DEF CreatedBefore
<1>4. main'.svc = svc
  OBVIOUS
<1>5. Ordered'
  <2>1. \A d \in Instances : main'.svc = d \/ d \in destroyed' => d \in Started'
    BY <1>3, <1>4 DEF Ordered, Started
  <2>2. Started \subseteq Started'
    BY DEF Started
  <2> QED BY <1>1, <2>1, <2>2, StillOrdered
<1>6. Flagged'
  BY <1>4 DEF NsdTypes, Flagged
<1> QED BY <1>2, <1>5, <1>6

\* The later steps of onDestroy leave the flag down.
LEMMA DestroyingKeeps ==
  ASSUME NsdInv, NEW svc \in Instances,
         \/ TestManager(svc) \/ LoadManager(svc)
         \/ UnregisterService(svc) \/ ClearManager(svc)
  PROVE  NsdInv'
<1> USE DEF NsdInv
<1>1. /\ main.svc = svc /\ UNCHANGED <<record, instances, inbox, running, thread>>
      /\ destroyed' \subseteq destroyed \union {svc} /\ registered' \subseteq registered
      /\ \/ mNsdManager' = mNsdManager
         \/ mNsdManager' = [mNsdManager EXCEPT ![svc] = FALSE]
      /\ main' = Idle \/ main'.svc = svc
      /\ main' \in [at : MainPoints, svc : Instances \union {NoInstance}]
  BY DEF TestManager, LoadManager, UnregisterService, ClearManager,
     MainGoto, SetManager, Idle, MainPoints
<1>2. NsdTypes'
  BY <1>1 DEF NsdTypes
<1>3. \A d \in Instances : main'.svc = d => d = svc
  BY <1>1 DEF Idle, NoInstance, Instances
<1>4. Ordered'
  BY <1>1, <1>3 DEF Ordered, CreatedBefore, Started
<1>5. Flagged'
  BY <1>1, <1>3 DEF NsdTypes, Flagged
<1> QED BY <1>2, <1>4, <1>5

\* The thread clears the field of the manager only where it ends without registering.
LEMMA ThreadKeeps ==
  ASSUME NsdInv, NEW svc \in Instances, ThreadStep(svc) PROVE NsdInv'
<1> USE DEF NsdInv
<1> USE DEF ThreadStep, GetManager, TestRunning, LoadToRegister,
            RegisterService, ThreadGoto, SetManager, StillRunning
<1>1. NsdTypes'
  BY DEF NsdTypes, ThreadPoints
<1>2. Started \subseteq Started'
  BY DEF NsdTypes, Started
<1>3. Ordered'
  <2>1. UNCHANGED <<record, inbox, main, destroyed>>
    OBVIOUS
  <2>2. \A d, i : CreatedBefore(Started, inbox, d, i) => CreatedBefore(Started', inbox', d, i)
    BY <1>2, <2>1 DEF CreatedBefore
  <2> QED BY ONLY NsdInv, <1>2, <2>1, <2>2 DEF NsdInv, Ordered
<1>4. Flagged'
  <2>1. CASE GetManager(svc)
    BY <2>1 DEF NsdTypes, Flagged
  <2>2. CASE TestRunning(svc)
    BY <2>2 DEF NsdTypes, Flagged
  <2>3. CASE LoadToRegister(svc)
    BY <2>3 DEF NsdTypes, Flagged
  <2>4. CASE RegisterService(svc)
    BY <2>4 DEF NsdTypes, Flagged
  <2> QED BY <2>1, <2>2, <2>3, <2>4
<1> QED BY <1>1, <1>3, <1>4

\* Every step keeps it.
LEMMA NsdStep == NsdInv /\ [NsdNext]_nsdVars => NsdInv'
<1> SUFFICES ASSUME NsdInv, [NsdNext]_nsdVars PROVE NsdInv'
  OBVIOUS
<1>1. CASE UNCHANGED nsdVars
  BY <1>1 DEF nsdVars, NsdInv, NsdTypes, Ordered, CreatedBefore, Started, Flagged
<1> QED
  BY <1>1, BroadcastKeeps, CreateServiceKeeps, DestroyServiceKeeps, DestroyingKeeps,
     ThreadKeeps DEF NsdNext, MainStep

LEMMA NsdInvariant == NsdSpec => []NsdInv
  BY NsdStarts, NsdStep, PTL DEF NsdSpec

\* From then on the thread finds the flag down before it would register.
Bails(svc) ==
  ~running[svc] /\ thread[svc] \in {"get", "sleep", "dead"} /\ svc \notin registered

\* The flag stays down, and the one test that is left ends the thread.
LEMMA BailsKeeps ==
  ASSUME NEW svc \in Instances, NsdInv, Bails(svc), [NsdNext]_nsdVars
  PROVE  Bails(svc)'
<1> USE DEF NsdInv, Bails
<1>1. ASSUME ReceiveStarted \/ ReceiveStopped \/ UNCHANGED nsdVars PROVE Bails(svc)'
  BY <1>1 DEF ReceiveStarted, ReceiveStopped, nsdVars
<1>2. ASSUME NEW d \in Instances, onCreate(d) \/ onDestroy(d) PROVE Bails(svc)'
  BY <1>2 DEF onCreate, onDestroy, ThreadGoto, NsdTypes
<1>3. ASSUME NEW d \in Instances,
             \/ TestManager(d) \/ LoadManager(d)
             \/ UnregisterService(d) \/ ClearManager(d)
      PROVE  Bails(svc)'
  BY <1>3 DEF TestManager, LoadManager, UnregisterService, ClearManager
<1>4. ASSUME NEW d \in Instances, ThreadStep(d) PROVE Bails(svc)'
  BY <1>4 DEF ThreadStep, GetManager, TestRunning, LoadToRegister,
     RegisterService, ThreadGoto, StillRunning, NsdTypes
<1> QED BY <1>1, <1>2, <1>3, <1>4 DEF NsdNext, MainStep

\* What was registered while the flag was up stays until onDestroy asks for its end, for the
\* manager is there for onDestroy to find and the thread is at its end.
TakenBack(svc) ==
  /\ thread[svc] = "dead"
  /\ svc \in registered /\ svc \notin refused =>
       svc \notin destroyed /\ mNsdManager[svc] /\ main # [at |-> "clear", svc |-> svc]

\* onDestroy cannot reach its end past the call of unregisterService.
LEMMA TakenBackKeeps ==
  ASSUME NEW svc \in Instances, NsdInv, TakenBack(svc), [NsdNext]_nsdVars
  PROVE  TakenBack(svc)'
<1> USE DEF NsdInv, TakenBack
<1>1. ASSUME ReceiveStarted \/ ReceiveStopped \/ UNCHANGED nsdVars
      PROVE TakenBack(svc)'
  BY <1>1 DEF ReceiveStarted, ReceiveStopped, nsdVars
<1>2. ASSUME NEW d \in Instances, onCreate(d) \/ onDestroy(d)
      PROVE TakenBack(svc)'
  BY <1>2 DEF onCreate, onDestroy, ThreadGoto, NsdTypes
<1>3. ASSUME NEW d \in Instances,
             \/ TestManager(d) \/ LoadManager(d)
             \/ UnregisterService(d) \/ ClearManager(d)
      PROVE  TakenBack(svc)'
  BY <1>3 DEF TestManager, LoadManager, UnregisterService, ClearManager,
     MainGoto, SetManager, Idle, NsdTypes
<1>4. ASSUME NEW d \in Instances, ThreadStep(d) PROVE TakenBack(svc)'
  BY <1>4 DEF ThreadStep, GetManager, TestRunning, LoadToRegister,
     RegisterService, ThreadGoto, SetManager, NsdTypes
<1> QED BY <1>1, <1>2, <1>3, <1>4 DEF NsdNext, MainStep

\* However often the service is started and stopped, and wherever its threads hang: a
\* thread that has not got past its sleep when onDestroy begins never registers.
THEOREM LateThreadBailsOut == NsdSpec => HungThreadBailsOut
<1> SUFFICES ASSUME NEW svc \in Instances
             PROVE  NsdSpec => [](main.svc = svc /\ thread[svc] \in {"get", "sleep"}
                                   => [](svc \notin registered))
  BY DEF HungThreadBailsOut
<1>1. NsdInv /\ main.svc = svc /\ thread[svc] \in {"get", "sleep"} => Bails(svc)
  BY DEF NsdInv, Flagged, Bails
<1>2. NsdInv /\ Bails(svc) /\ [NsdNext]_nsdVars => Bails(svc)'
  BY BailsKeeps
<1>3. Bails(svc) => svc \notin registered
  BY DEF Bails
<1> QED BY <1>1, <1>2, <1>3, NsdInvariant, PTL DEF NsdSpec

\* And what was registered before onDestroy began is not registered when it has returned,
\* unless NsdManager was asked to unregister it and failed.
THEOREM RegistrationIsTakenBack == NsdSpec => StopTakesRegistrationBack
<1> SUFFICES ASSUME NEW svc \in Instances
             PROVE  NsdSpec => [](svc \in registered /\ running[svc]
                                   => [](svc \in destroyed => svc \notin registered \/ svc \in refused))
  BY DEF StopTakesRegistrationBack
<1>1. NsdInv /\ svc \in registered /\ running[svc] => TakenBack(svc)
  BY DEF NsdInv, Flagged, TakenBack
<1>2. NsdInv /\ TakenBack(svc) /\ [NsdNext]_nsdVars => TakenBack(svc)'
  BY TakenBackKeeps
<1>3. TakenBack(svc) => (svc \in destroyed => svc \notin registered \/ svc \in refused)
  BY DEF TakenBack
<1> QED BY <1>1, <1>2, <1>3, NsdInvariant, PTL DEF NsdSpec

-----------------------------------------------------------------------------
(* AsciiTransfer, for files of any length and buffers of any size. Both      *)
(* loops work on one buffer and remember little of those before it; what     *)
(* they make of a buffer is shown, byte by byte, to be what is promised of   *)
(* these bytes as part of the whole.                                         *)

\* A set that holds 0 and, with each number below n, the next one holds n: the theorem of
\* induction of the library takes an operator, this takes a set. Were n missing, adding one
\* would map the part up to n into itself without 0, one to one.
LEMMA Climbs ==
  ASSUME NEW S, NEW n \in Nat, 0 \in S, \A i \in 0 .. n - 1 : i \in S => i + 1 \in S
  PROVE  n \in S
<1> SUFFICES ASSUME n \notin S
             PROVE  FALSE
  OBVIOUS
<1> DEFINE T == {i \in 0 .. n : i \in S}
           f == [i \in T |-> i + 1]
<1>1. IsFiniteSet(T)
  <2>1. IsFiniteSet(0 .. n)
    BY FS_Interval
  <2>2. QED
    BY <2>1, FS_Subset
<1>2. IsFiniteSet(T \ {0}) /\ Cardinality(T \ {0}) < Cardinality(T)
  <2>1. 0 \in T
    OBVIOUS
  <2> HIDE DEF T
  <2>2. Cardinality(T) \in Nat
    BY <1>1, FS_CardinalityType
  <2>3. IsFiniteSet(T \ {0}) /\ Cardinality(T \ {0}) = Cardinality(T) - 1
    BY <1>1, <2>1, FS_RemoveElement
  <2>4. QED
    BY <2>2, <2>3
<1>3. f \in [T -> T \ {0}]
  <2> SUFFICES ASSUME NEW i \in T
               PROVE  i + 1 \in T \ {0}
    OBVIOUS
  <2>1. i \in 0 .. n - 1
    OBVIOUS
  <2>2. QED
    BY <2>1
<1>4. \A x, y \in T : x # y => f[x] # f[y]
  OBVIOUS
<1> HIDE DEF T, f
<1>5. \E x, y \in T : x # y /\ f[x] = f[y]
  BY <1>1, <1>2, <1>3, FS_PigeonHole
<1>6. QED
  BY <1>4, <1>5

\* The first n of the sequences in p, one after the other.
Flat(p, n) == FlattenSeq([i \in 1..n |-> p[i]])

\* FlattenSeq joins them from the first to the last.
LEMMA Unrolled ==
  ASSUME NEW p, NEW n \in Nat \ {0}
  PROVE  \E g : /\ \A i \in 1..n : g[i] = IF i = 1 THEN p[i] ELSE g[i - 1] \o p[i]
                /\ Flat(p, n) = g[n]
<1> DEFINE J(g, i) == IF i = 1 THEN p[i] ELSE g[i - 1] \o p[i]
<1> DEFINE F(g, m) == g = [i \in 1..m |-> IF i = 1 THEN p[i] ELSE g[i - 1] \o p[i]]
           S == {m \in 0..n : \E g : F(g, m)}
<1>1. 0 \in S
  <2> DEFINE g == [i \in 1..0 |-> p[i]]
  <2>1. F(g, 0)
    OBVIOUS
  <2> HIDE DEF F, g
  <2> QED BY <2>1
<1>2. ASSUME NEW m \in 0..n - 1, m \in S PROVE m + 1 \in S
  <2>1. PICK g : F(g, m)
    BY <1>2
  <2> DEFINE last == IF m = 0 THEN p[1] ELSE g[m] \o p[m + 1]
             more == [i \in 1..m + 1 |-> IF i = m + 1 THEN last ELSE g[i]]
  <2>2. ASSUME NEW i \in 1..m + 1 PROVE more[i] = IF i = 1 THEN p[i] ELSE more[i - 1] \o p[i]
    <3>1. CASE i = m + 1
      <4>1. more[i] = last /\ (m # 0 => more[i - 1] = g[m])
        BY <3>1
      <4> HIDE DEF more
      <4> QED BY <3>1, <4>1
    <3>2. CASE i # m + 1
      <4>1. i \in 1..m /\ more[i] = g[i]
        BY <3>2
      <4>2. i # 1 => more[i - 1] = g[i - 1]
        BY <3>2
      <4>3. g[i] = IF i = 1 THEN p[i] ELSE g[i - 1] \o p[i]
        BY <2>1, <4>1
      <4> HIDE DEF more
      <4> QED BY <4>1, <4>2, <4>3
    <3> QED BY <3>1, <3>2
  <2>3. F(more, m + 1)
    <3>1. more = [i \in 1..m + 1 |-> more[i]]
      OBVIOUS
    <3> HIDE DEF more
    <3> QED BY <2>2, <3>1
  <2> HIDE DEF F, more
  <2>4. m + 1 \in 0..n
    OBVIOUS
  <2> QED BY <2>3, <2>4
<1>3. n \in S
  <2> HIDE DEF S
  <2> QED BY <1>1, <1>2, Climbs
<1> DEFINE parts == [i \in 1..n |-> p[i]]
           G(g) == g = [i \in 1..n |-> IF i = 1 THEN parts[i] ELSE g[i - 1] \o parts[i]]
           flat == CHOOSE g : G(g)
<1>4. \A g : F(g, n) <=> G(g)
  <2> SUFFICES ASSUME NEW g PROVE F(g, n) <=> G(g)
    OBVIOUS
  <2>1. \A i \in 1..n : parts[i] = p[i]
    OBVIOUS
  <2> HIDE DEF parts
  <2> QED BY <2>1
<1>5. G(flat)
  <2> HIDE DEF F, G
  <2> QED BY <1>3, <1>4
<1>6. Len(parts) = n /\ n # 0
  OBVIOUS
<1>7. FlattenSeq(parts) = flat[n]
  <2> HIDE DEF parts
  <2> QED BY <1>6, Zenon DEF FlattenSeq, parts
<1> HIDE DEF flat
<1>8. flat = [i \in 1..n |-> J(flat, i)]
  BY <1>4, <1>5
<1>9. \A i \in 1..n : flat[i] = J(flat, i)
  <2> HIDE DEF J
  <2> QED BY <1>8
<1> QED BY <1>7, <1>9 DEF Flat

\* One more.
LEMMA FlatStep ==
  ASSUME NEW p, NEW n \in Nat
  PROVE  /\ Flat(p, 0) = <<>>
         /\ Flat(p, n + 1) = IF n = 0 THEN p[1] ELSE Flat(p, n) \o p[n + 1]
<1>1. Flat(p, 0) = <<>>
  <2> DEFINE parts == [i \in 1..0 |-> p[i]]
  <2>1. parts = <<>> /\ Len(parts) = 0
    OBVIOUS
  <2> HIDE DEF parts
  <2>2. FlattenSeq(parts) = <<>>
    BY <2>1 DEF FlattenSeq
  <2> QED BY <2>2 DEF Flat, parts
<1>2. PICK h : /\ \A i \in 1..n + 1 : h[i] = IF i = 1 THEN p[i] ELSE h[i - 1] \o p[i]
               /\ Flat(p, n + 1) = h[n + 1]
  BY Unrolled
<1>3. h[n + 1] = IF n + 1 = 1 THEN p[n + 1] ELSE h[n + 1 - 1] \o p[n + 1]
  BY <1>2
<1>4. CASE n = 0
  BY <1>1, <1>2, <1>3, <1>4
<1>5. CASE n # 0
  <2>1. PICK g : /\ \A i \in 1..n : g[i] = IF i = 1 THEN p[i] ELSE g[i - 1] \o p[i]
                 /\ Flat(p, n) = g[n]
    BY <1>5, Unrolled
  <2> DEFINE S == {i \in 0..n : i = 0 \/ g[i] = h[i]}
  <2>2. 0 \in S
    OBVIOUS
  <2>3. ASSUME NEW i \in 0..n - 1, i \in S PROVE i + 1 \in S
    <3>1. i + 1 \in 1..n /\ i + 1 \in 1..n + 1 /\ i + 1 - 1 = i
      OBVIOUS
    <3>2. g[i + 1] = IF i + 1 = 1 THEN p[i + 1] ELSE g[i] \o p[i + 1]
      BY <2>1, <3>1
    <3>3. h[i + 1] = IF i + 1 = 1 THEN p[i + 1] ELSE h[i] \o p[i + 1]
      BY <1>2, <3>1
    <3> QED BY <2>3, <3>1, <3>2, <3>3
  <2>4. n \in S
    <3> HIDE DEF S
    <3> QED BY <2>2, <2>3, Climbs
  <2>5. g[n] = h[n] /\ n + 1 # 1 /\ n + 1 - 1 = n
    BY <1>5, <2>4
  <2> QED BY <1>1, <1>2, <1>3, <1>5, <2>1, <2>5
<1> QED BY <1>4, <1>5

\* Sequences over one set joined one after the other.
LEMMA FlatGrows ==
  ASSUME NEW B, NEW n \in Nat, NEW p, \A i \in 1..n + 1 : p[i] \in Seq(B)
  PROVE  /\ Flat(p, 0) = <<>>
         /\ Flat(p, n) \in Seq(B)
         /\ Flat(p, n + 1) = Flat(p, n) \o p[n + 1]
<1> DEFINE S == {m \in 0..n : Flat(p, m) \in Seq(B)}
<1>1. 0 \in S
  <2>1. Flat(p, 0) = <<>>
    BY FlatStep, 0 \in Nat
  <2>2. <<>> \in Seq(B)
    OBVIOUS
  <2>3. Flat(p, 0) \in Seq(B)
    BY <2>1, <2>2, Zenon
  <2>4. 0 \in 0..n
    OBVIOUS
  <2> QED BY <2>3, <2>4, Zenon
<1>2. ASSUME NEW m \in 0..n - 1, m \in S PROVE m + 1 \in S
  <2>1. Flat(p, m + 1) = IF m = 0 THEN p[1] ELSE Flat(p, m) \o p[m + 1]
    BY FlatStep
  <2>2. p[m + 1] \in Seq(B) /\ p[1] \in Seq(B) /\ Flat(p, m) \in Seq(B)
    BY <1>2
  <2>3. Flat(p, m) \o p[m + 1] \in Seq(B)
    BY <2>2, ConcatProperties, Zenon
  <2>4. Flat(p, m + 1) \in Seq(B)
    BY <2>1, <2>2, <2>3, Zenon
  <2>5. m + 1 \in 0..n
    OBVIOUS
  <2> QED BY <2>4, <2>5, Zenon
<1>3. n \in S
  <2> HIDE DEF S
  <2> QED BY <1>1, <1>2, Climbs
<1>4. Flat(p, 0) = <<>> /\ Flat(p, n + 1) = IF n = 0 THEN p[1] ELSE Flat(p, n) \o p[n + 1]
  BY FlatStep
<1>5. p[1] \in Seq(B)
  OBVIOUS
<1>6. <<>> \o p[1] = p[1]
  BY <1>5, ConcatEmptySeq
<1>7. Flat(p, n + 1) = Flat(p, n) \o p[n + 1]
  <2>1. CASE n = 0
    BY <1>4, <1>6, <2>1
  <2>2. CASE n # 0
    BY <1>4, <2>2
  <2> QED BY <2>1, <2>2
<1> QED BY <1>3, <1>4, <1>7

-----------------------------------------------------------------------------
\* The largest of a set, if there is one.
LEMMA MaxIs ==
  ASSUME NEW T, T \subseteq Nat, NEW m \in T, \A k \in T : m >= k
  PROVE  Max(T) = m
<1>1. \A x \in T : (\A k \in T : x >= k) => x = m
  OBVIOUS
<1> QED BY <1>1 DEF Max

\* startPos moves to each LF.
LEMMA StartMoves ==
  ASSUME NEW s
  PROVE  /\ StartPos(s, 1) = 1
         /\ \A e \in Nat \ {0} : StartPos(s, e + 1) = IF s[e] = "LF" THEN e ELSE StartPos(s, e)
<1> DEFINE T(e) == {1} \union {k \in 1..(e - 1) : s[k] = "LF"}
<1>1. \A e : StartPos(s, e) = Max(T(e))
  BY DEF StartPos
<1>2. T(1) = {1} /\ Max({1}) = 1
  BY MaxIs
<1>3. ASSUME NEW e \in Nat \ {0} PROVE Max(T(e + 1)) = IF s[e] = "LF" THEN e ELSE Max(T(e))
  <2>1. CASE s[e] = "LF"
    <3>1. T(e + 1) \subseteq Nat /\ e \in T(e + 1) /\ \A k \in T(e + 1) : e >= k
      BY <2>1
    <3> HIDE DEF T
    <3> QED BY <2>1, <3>1, MaxIs
  <2>2. CASE s[e] # "LF"
    <3>1. T(e + 1) = T(e)
      BY <2>2
    <3> HIDE DEF T
    <3> QED BY <2>2, <3>1
  <2> QED BY <2>1, <2>2
<1> HIDE DEF T
<1> QED BY <1>1, <1>2, <1>3

\* CmdAbstractStore's moves behind each CR.
LEMMA AfterMoves ==
  ASSUME NEW s
  PROVE  /\ AfterCR(s, 1) = 1
         /\ \A e \in Nat \ {0} : AfterCR(s, e + 1) = IF s[e] = "CR" THEN e + 1 ELSE AfterCR(s, e)
<1> DEFINE T(e) == {0} \union {k \in 1..(e - 1) : s[k] = "CR"}
<1>1. \A e : AfterCR(s, e) = Max(T(e)) + 1
  BY DEF AfterCR
<1>2. T(1) = {0} /\ Max({0}) = 0
  BY MaxIs
<1>3. ASSUME NEW e \in Nat \ {0} PROVE Max(T(e + 1)) = IF s[e] = "CR" THEN e ELSE Max(T(e))
  <2>1. CASE s[e] = "CR"
    <3>1. T(e + 1) \subseteq Nat /\ e \in T(e + 1) /\ \A k \in T(e + 1) : e >= k
      BY <2>1
    <3> HIDE DEF T
    <3> QED BY <2>1, <3>1, MaxIs
  <2>2. CASE s[e] # "CR"
    <3>1. T(e + 1) = T(e)
      BY <2>2
    <3> HIDE DEF T
    <3> QED BY <2>2, <3>1
  <2> QED BY <2>1, <2>2
<1> HIDE DEF T
<1> QED BY <1>1, <1>2, <1>3

\* Neither is past the byte that is looked at.
LEMMA StartBounds ==
  ASSUME NEW s, NEW e \in Nat
  PROVE  StartPos(s, e + 1) \in 1..e + 1 /\ AfterCR(s, e + 1) \in 1..e + 1
<1> DEFINE S == {k \in 0..e : StartPos(s, k + 1) \in 1..k + 1 /\ AfterCR(s, k + 1) \in 1..k + 1}
<1>1. 0 \in S
  BY StartMoves, AfterMoves
<1>2. ASSUME NEW k \in 0..e - 1, k \in S PROVE k + 1 \in S
  <2>1. k + 1 \in Nat \ {0} /\ k + 1 \in 0..e
    OBVIOUS
  <2>2. StartPos(s, k + 1 + 1) = IF s[k + 1] = "LF" THEN k + 1 ELSE StartPos(s, k + 1)
    BY <2>1, StartMoves
  <2>3. AfterCR(s, k + 1 + 1) = IF s[k + 1] = "CR" THEN k + 1 + 1 ELSE AfterCR(s, k + 1)
    BY <2>1, AfterMoves
  <2>4. StartPos(s, k + 1) \in 1..k + 1 /\ AfterCR(s, k + 1) \in 1..k + 1
    BY <1>2
  <2>5. StartPos(s, k + 1 + 1) \in 1..k + 1 + 1 /\ AfterCR(s, k + 1 + 1) \in 1..k + 1 + 1
    BY <2>2, <2>3, <2>4
  <2> QED BY <2>1, <2>5
<1>3. e \in S
  <2> HIDE DEF S
  <2> QED BY <1>1, <1>2, Climbs
<1> QED BY <1>3

-----------------------------------------------------------------------------
\* A part of a sequence.
LEMMA SliceIs ==
  ASSUME NEW B, NEW s \in Seq(B), NEW from \in 0..Len(s), NEW to \in from..Len(s)
  PROVE  /\ Slice(s, from, to) \in Seq(B) /\ Len(Slice(s, from, to)) = to - from
         /\ \A i \in 1..to - from : Slice(s, from, to)[i] = s[from + i]
<1> DEFINE m == from + 1
<1>1. m \in Int /\ to \in Int /\ \A i \in m..to : s[i] \in B
  OBVIOUS
<1>2. /\ to - m + 1 = to - from /\ (m > to => to - from = 0)
      /\ \A i \in 1..to - from : m + i - 1 = from + i
  OBVIOUS
<1> HIDE DEF m
<1>3. /\ SubSeq(s, m, to) \in Seq(B)
      /\ Len(SubSeq(s, m, to)) = IF m <= to THEN to - m + 1 ELSE 0
      /\ \A i \in 1..to - m + 1 : SubSeq(s, m, to)[i] = s[m + i - 1]
  BY <1>1, SubSeqProperties
<1>4. Slice(s, from, to) = SubSeq(s, m, to)
  BY DEF Slice, m
<1>5. Len(SubSeq(s, m, to)) = to - from
  BY <1>1, <1>2, <1>3
<1> QED BY <1>2, <1>3, <1>4, <1>5

\* What is promised of the first k bytes is the first k parts of it.
LEMMA ConvertedPrefix ==
  ASSUME NEW s \in Seq(Bytes), NEW k \in 0..Len(s)
  PROVE  WithCRLF(Slice(s, 0, k)) = Flat([i \in 1..Len(s) |-> Converted(s, i)], k)
<1> DEFINE t == Slice(s, 0, k)
           p == [i \in 1..Len(s) |-> Converted(s, i)]
<1>1. Len(t) = k /\ \A i \in 1..k : t[i] = s[i]
  <2>1. 0 \in 0..Len(s) /\ k \in 0..Len(s) /\ k - 0 = k /\ \A i \in 1..k : 0 + i = i
    OBVIOUS
  <2>2. Len(t) = k - 0 /\ \A i \in 1..k - 0 : t[i] = s[0 + i]
    BY <2>1, SliceIs, Zenon
  <2> QED BY <2>1, <2>2, Zenon
<1> HIDE DEF t
<1>2. ASSUME NEW i \in 1..k PROVE Converted(t, i) = p[i]
  <2>1. p[i] = Converted(s, i) /\ t[i] = s[i] /\ (i = 1 \/ t[i - 1] = s[i - 1])
    BY <1>1
  <2> HIDE DEF p
  <2> QED BY <2>1 DEF Converted
<1>3. [i \in 1..Len(t) |-> Converted(t, i)] = [i \in 1..k |-> p[i]]
  <2> HIDE DEF p
  <2> QED BY <1>1, <1>2
<1> QED BY <1>3 DEF WithCRLF, Flat, t

\* The same of the bytes that are kept.
LEMMA KeptPrefix ==
  ASSUME NEW s \in Seq(Bytes), NEW k \in 0..Len(s)
  PROVE  WithoutCR(Slice(s, 0, k)) = Flat([i \in 1..Len(s) |-> Kept(s, i)], k)
<1> DEFINE t == Slice(s, 0, k)
           p == [i \in 1..Len(s) |-> Kept(s, i)]
<1>1. Len(t) = k /\ \A i \in 1..k : t[i] = s[i]
  <2>1. 0 \in 0..Len(s) /\ k \in 0..Len(s) /\ k - 0 = k /\ \A i \in 1..k : 0 + i = i
    OBVIOUS
  <2>2. Len(t) = k - 0 /\ \A i \in 1..k - 0 : t[i] = s[0 + i]
    BY <2>1, SliceIs, Zenon
  <2> QED BY <2>1, <2>2, Zenon
<1> HIDE DEF t
<1>2. ASSUME NEW i \in 1..k PROVE Kept(t, i) = p[i]
  <2>1. p[i] = Kept(s, i) /\ t[i] = s[i]
    BY <1>1
  <2> HIDE DEF p
  <2> QED BY <2>1 DEF Kept
<1>3. [i \in 1..Len(t) |-> Kept(t, i)] = [i \in 1..k |-> p[i]]
  <2> HIDE DEF p
  <2> QED BY <1>1, <1>2
<1> QED BY <1>3 DEF WithoutCR, Flat, t

\* Of the bytes of a sequence.
LEMMA BytesTyped ==
  ASSUME NEW s \in Seq(Bytes), NEW i \in 1..Len(s)
  PROVE  Converted(s, i) \in Seq(Bytes) /\ Kept(s, i) \in Seq(Bytes) /\ s[i] \in Bytes /\ <<s[i]>> \in Seq(Bytes)
<1>1. s[i] \in Bytes
  OBVIOUS
<1>2. <<s[i]>> \in Seq(Bytes) /\ <<>> \in Seq(Bytes)
  BY <1>1
<1>3. <<"CR", "LF">> \in Seq(Bytes)
  BY DEF Bytes
<1>4. Converted(s, i) \in Seq(Bytes)
  BY <1>2, <1>3, Zenon DEF Converted
<1>5. Kept(s, i) \in Seq(Bytes)
  BY <1>2, Zenon DEF Kept
<1> QED BY <1>1, <1>2, <1>4, <1>5

\* Both grow byte by byte.
LEMMA PrefixesGrow ==
  ASSUME NEW s \in Seq(Bytes), NEW k \in 0..Len(s)
  PROVE  LET c == [i \in 1..Len(s) |-> Converted(s, i)]
             d == [i \in 1..Len(s) |-> Kept(s, i)]
         IN  /\ Flat(c, k) \in Seq(Bytes) /\ Flat(d, k) \in Seq(Bytes)
             /\ Flat(c, 0) = <<>> /\ Flat(d, 0) = <<>>
             /\ k < Len(s) => /\ Flat(c, k + 1) = Flat(c, k) \o Converted(s, k + 1)
                              /\ Flat(d, k + 1) = Flat(d, k) \o Kept(s, k + 1)
<1> DEFINE c == [i \in 1..Len(s) |-> Converted(s, i)]
           d == [i \in 1..Len(s) |-> Kept(s, i)]
<1>1. \A i \in 1..Len(s) : c[i] \in Seq(Bytes) /\ d[i] \in Seq(Bytes)
  BY BytesTyped
<1>2. \A i \in 1..Len(s) : c[i] = Converted(s, i) /\ d[i] = Kept(s, i)
  OBVIOUS
<1> HIDE DEF c, d
<1>3. CASE k < Len(s)
  <2>1. k \in Nat /\ k + 1 \in 1..Len(s) /\ \A i \in 1..k + 1 : i \in 1..Len(s)
    BY <1>3
  <2>2. /\ Flat(c, 0) = <<>> /\ Flat(c, k) \in Seq(Bytes) /\ Flat(c, k + 1) = Flat(c, k) \o c[k + 1]
    BY <1>1, <2>1, FlatGrows, Zenon
  <2>3. /\ Flat(d, 0) = <<>> /\ Flat(d, k) \in Seq(Bytes) /\ Flat(d, k + 1) = Flat(d, k) \o d[k + 1]
    BY <1>1, <2>1, FlatGrows, Zenon
  <2> QED BY <1>2, <2>1, <2>2, <2>3, Zenon DEF c, d
<1>4. CASE k = Len(s) /\ k > 0
  <2>1. k - 1 \in Nat /\ k - 1 + 1 = k /\ k \in 1..Len(s) /\ ~(k < Len(s))
    BY <1>4
  <2>2. \A i \in 1..k - 1 + 1 : i \in 1..Len(s)
    BY <1>4
  <2>3. /\ Flat(c, 0) = <<>> /\ Flat(c, k - 1) \in Seq(Bytes) /\ Flat(c, k - 1 + 1) = Flat(c, k - 1) \o c[k - 1 + 1]
    BY <1>1, <2>1, <2>2, FlatGrows, Zenon
  <2>4. /\ Flat(d, 0) = <<>> /\ Flat(d, k - 1) \in Seq(Bytes) /\ Flat(d, k - 1 + 1) = Flat(d, k - 1) \o d[k - 1 + 1]
    BY <1>1, <2>1, <2>2, FlatGrows, Zenon
  <2>5. Flat(c, k) = Flat(c, k - 1) \o c[k] /\ Flat(d, k) = Flat(d, k - 1) \o d[k]
    BY <2>1, <2>3, <2>4, Zenon
  <2>6. c[k] \in Seq(Bytes) /\ d[k] \in Seq(Bytes)
    BY <1>1, <2>1, Zenon
  <2>7. Flat(c, k) \in Seq(Bytes) /\ Flat(d, k) \in Seq(Bytes)
    BY <2>3, <2>4, <2>5, <2>6, ConcatProperties, Zenon
  <2> QED BY <2>1, <2>3, <2>4, <2>7, Zenon DEF c, d
<1>5. CASE k = Len(s) /\ k = 0
  <2>1. Flat(c, 0) = <<>> /\ Flat(d, 0) = <<>> /\ ~(k < Len(s)) /\ k = 0
    BY <1>5, FlatStep, 0 \in Nat
  <2>2. <<>> \in Seq(Bytes)
    OBVIOUS
  <2> QED BY <2>1, <2>2, Zenon DEF c, d
<1>6. (k < Len(s)) \/ (k = Len(s) /\ k > 0) \/ (k = Len(s) /\ k = 0)
  BY Len(s) \in Nat
<1> QED BY <1>3, <1>4, <1>5, <1>6, Zenon

-----------------------------------------------------------------------------
\* The two ends of a line that a LF becomes.
LEMMA CRLF == <<"CR">> \o <<"LF">> = <<"CR", "LF">> /\ <<>> \o <<"LF">> = <<"LF">>
<1> DEFINE a == <<"CR">>
           b == <<"LF">>
           c == <<"CR", "LF">>
<1>1. a \in Seq(Bytes) /\ b \in Seq(Bytes) /\ c \in Seq(Bytes) /\ Len(a) = 1 /\ Len(b) = 1 /\ Len(c) = 2
  BY DEF Bytes
<1>2. a[1] = "CR" /\ b[1] = "LF" /\ c[1] = "CR" /\ c[2] = "LF"
  OBVIOUS
<1> HIDE DEF a, b, c
<1>3. /\ a \o b \in Seq(Bytes) /\ Len(a \o b) = 2
      /\ \A i \in 1..2 : (a \o b)[i] = IF i <= 1 THEN a[i] ELSE b[i - 1]
  BY <1>1, ConcatProperties
<1>4. \A i \in 1..2 : (a \o b)[i] = c[i]
  BY <1>2, <1>3
<1>5. a \o b = c
  BY <1>1, <1>3, <1>4, SeqEqual
<1>6. <<>> \o b = b
  BY <1>1, ConcatEmptySeq
<1> QED BY <1>5, <1>6 DEF a, b, c

\* Joining, under a name the provers leave alone.
Cat(a, b) == a \o b

LEMMA Assoc ==
  \A a, b, c \in Seq(Bytes) : Cat(Cat(a, b), c) = Cat(a, Cat(b, c))
  BY ConcatAssociative DEF Cat

\* What is unsent behind e bytes.
LEMMA UnsentIs ==
  ASSUME NEW s, NEW e \in Nat
  PROVE  Unsent(s, e + 1) = SubSeq(s, StartPos(s, e + 1), e)
<1> DEFINE d == e + 1
<1>1. d - 1 = e
  OBVIOUS
<1> HIDE DEF d
<1>2. Unsent(s, d) = SubSeq(s, StartPos(s, d), e)
  BY <1>1, Zenon DEF Unsent
<1> QED BY <1>2, Zenon DEF d

\* One more byte of a part.
LEMMA LastJoined ==
  ASSUME NEW s \in Seq(Bytes), NEW e \in Nat, e + 1 \in 1..Len(s), NEW a \in 1..e + 1
  PROVE  SubSeq(s, a, e + 1) = SubSeq(s, a, e) \o <<s[e + 1]>>
<1> DEFINE d == e + 1
<1>1. a \in 1..Len(s) /\ d \in a..Len(s) /\ d - 1 = e
  OBVIOUS
<1> HIDE DEF d
<1>2. SubSeq(s, a, d) = SubSeq(s, a, d - 1) \o <<s[d]>>
  BY <1>1, SubSeqRecursiveSecond
<1>3. SubSeq(s, a, d) = SubSeq(s, a, e) \o <<s[d]>>
  BY <1>1, <1>2, Zenon
<1> QED BY <1>3 DEF d

\* What SendBuffer makes of a buffer is what is promised of those bytes of the file: up to
\* each byte, the parts sent and what is still unsent are the bytes converted.
LEMMA BufferSent ==
  ASSUME file \in Seq(Bytes), read \in 0..Len(file),
         lastBufEndedWithCR <=> (read > 0 /\ file[read] = "CR"),
         NEW to \in read + 1..Len(file)
  PROVE  /\ WithCRLF(Slice(file, 0, read)) \o SendBuffer(Slice(file, read, to))
                = WithCRLF(Slice(file, 0, to))
         /\ SendBuffer(Slice(file, read, to)) \in Seq(Bytes)
<1> DEFINE buffer == Slice(file, read, to)
           n == to - read
           conv == [i \in 1..Len(file) |-> Converted(file, i)]
           part == [e \in 1..Len(buffer) |-> SentAt(buffer, e)]
           whole == Flat(conv, read)
<1>1. /\ n \in Nat /\ read \in Nat /\ read \in 0..Len(file) /\ to \in read..Len(file) /\ to \in 0..Len(file)
      /\ read + n = to
  OBVIOUS
<1>2. buffer \in Seq(Bytes) /\ Len(buffer) = n /\ \A i \in 1..n : buffer[i] = file[read + i]
  BY <1>1, SliceIs, Zenon
<1>3. WithCRLF(Slice(file, 0, read)) = whole /\ WithCRLF(Slice(file, 0, to)) = Flat(conv, to)
  BY <1>1, ConvertedPrefix, Zenon
<1>4. whole \in Seq(Bytes)
  BY <1>1, PrefixesGrow
<1> HIDE DEF buffer, n, conv, whole
<1>5. ASSUME NEW e \in 0..n PROVE Unsent(buffer, e + 1) \in Seq(Bytes)
  <2> DEFINE a == StartPos(buffer, e + 1)
  <2>1. a \in 1..e + 1 /\ e \in Int
    BY <1>1, StartBounds
  <2> HIDE DEF a
  <2>2. a \in Int /\ \A i \in a..e : buffer[i] \in Bytes
    BY <1>1, <1>2, <2>1
  <2>3. SubSeq(buffer, a, e) \in Seq(Bytes)
    BY <2>1, <2>2, SubSeqProperties
  <2>4. e + 1 - 1 = e
    BY <2>1
  <2> QED BY <2>3, <2>4 DEF Unsent, a
<1>6. ASSUME NEW e \in 0..n - 1
      PROVE  /\ e + 1 \in 1..n /\ e \in 0..n /\ e \in Nat /\ e + 1 \in Nat \ {0} /\ e + 1 + 1 - 1 = e + 1
             /\ e + 1 - 1 = e /\ read + e \in 0..Len(file) /\ read + e < Len(file) /\ read + e + 1 = read + (e + 1)
             /\ read + (e + 1) \in 1..Len(file)
  BY <1>1 DEF n
<1>7. \A e \in 1..n : SentAt(buffer, e) \in Seq(Bytes)
  <2> SUFFICES ASSUME NEW e \in 1..n PROVE SentAt(buffer, e) \in Seq(Bytes)
    OBVIOUS
  <2>1. e - 1 \in 0..n /\ e - 1 + 1 = e
    BY <1>1
  <2>2. Unsent(buffer, e) \in Seq(Bytes)
    BY <1>5, <2>1
  <2>3. <<>> \in Seq(Bytes) /\ <<"CR">> \in Seq(Bytes)
    BY DEF Bytes
  <2>4. \A c \in Seq(Bytes) : Unsent(buffer, e) \o c \in Seq(Bytes)
    BY <2>2, ConcatProperties, Zenon
  <2> QED BY <2>3, <2>4, Zenon DEF SentAt
<1>8. \A e \in 1..n : part[e] = SentAt(buffer, e)
  BY <1>2
<1>9. SendBuffer(buffer) = Flat(part, n) \o Unsent(buffer, n + 1)
  <2>1. [e \in 1..n |-> part[e]] = [e \in 1..Len(buffer) |-> SentAt(buffer, e)]
    BY <1>2
  <2> HIDE DEF part
  <2> QED BY <1>2, <2>1 DEF SendBuffer, Flat
<1> HIDE DEF part
<1>10. ASSUME NEW e \in 0..n - 1
       PROVE  /\ Flat(part, 0) = <<>> /\ Flat(part, e) \in Seq(Bytes)
              /\ Flat(part, e + 1) = Flat(part, e) \o SentAt(buffer, e + 1)
  <2>1. \A i \in 1..e + 1 : i \in 1..n
    BY <1>1
  <2>2. \A i \in 1..e + 1 : part[i] \in Seq(Bytes)
    BY <1>7, <1>8, <2>1, Zenon
  <2>3. /\ Flat(part, 0) = <<>> /\ Flat(part, e) \in Seq(Bytes)
        /\ Flat(part, e + 1) = Flat(part, e) \o part[e + 1]
    BY <1>6, <2>2, FlatGrows, Zenon
  <2> QED BY <1>6, <1>8, <2>3, Zenon
<1> DEFINE Done(e) == Flat(conv, read + e) = (whole \o Flat(part, e)) \o Unsent(buffer, e + 1)
           S == {e \in 0..n : Done(e)}
<1>11. 0 \in S
  <2>1. read + 0 = read /\ 0 + 1 = 1 /\ 1 - 1 = 0 /\ 0 \in 0..n
    BY <1>1
  <2>2. Flat(part, 0) = <<>>
    BY FlatStep, 0 \in Nat
  <2>3. SubSeq(buffer, 1, 0) = <<>>
    BY SubSeqEmpty
  <2>4. Unsent(buffer, 0 + 1) = <<>>
    BY <2>1, <2>3, StartMoves, Zenon DEF Unsent
  <2>5. (whole \o <<>>) \o <<>> = whole
    BY <1>4, ConcatEmptySeq
  <2>6. Flat(conv, read + 0) = whole
    BY <2>1, Zenon DEF whole
  <2>7. Done(0)
    BY <2>2, <2>4, <2>5, <2>6, Zenon
  <2> QED BY <2>1, <2>7
<1>12. ASSUME NEW e \in 0..n - 1, e \in S PROVE e + 1 \in S
  <2> DEFINE p == Flat(part, e)
             u == Unsent(buffer, e + 1)
             b == buffer[e + 1]
             c == IF NeedsCR(buffer, e + 1) THEN <<"CR">> ELSE <<>>
  <2>1. Flat(conv, read + e) = (whole \o p) \o u
    BY <1>12
  <2>2. p \in Seq(Bytes) /\ u \in Seq(Bytes) /\ Flat(part, e + 1) = p \o SentAt(buffer, e + 1)
    BY <1>5, <1>6, <1>10, Zenon
  <2>3. Flat(conv, read + (e + 1)) = Flat(conv, read + e) \o Converted(file, read + (e + 1))
    <3>1. Flat(conv, read + e + 1) = Flat(conv, read + e) \o Converted(file, read + e + 1)
      BY <1>6, PrefixesGrow, Zenon DEF conv
    <3> QED BY <1>6, <3>1, Zenon
  <2>4. b = file[read + (e + 1)] /\ b \in Bytes
    BY <1>2, <1>6, BytesTyped
  <2>5. <<b>> \in Seq(Bytes) /\ c \in Seq(Bytes) /\ <<>> \in Seq(Bytes)
    <3>1. <<"CR">> \in Seq(Bytes) /\ <<>> \in Seq(Bytes)
      BY DEF Bytes
    <3>2. <<b>> \in Seq(Bytes)
      BY <2>4
    <3> QED BY <3>1, <3>2, Zenon
  <2>6. StartPos(buffer, e + 1 + 1) = IF b = "LF" THEN e + 1 ELSE StartPos(buffer, e + 1)
    BY <1>6, StartMoves, Zenon
  <2>7. StartPos(buffer, e + 1) \in 1..e + 1
    BY <1>6, StartBounds
  <2>8. \A a \in 1..e + 1 : SubSeq(buffer, a, e + 1) = SubSeq(buffer, a, e) \o <<b>>
    <3>1. e \in Nat /\ e + 1 \in 1..Len(buffer)
      BY <1>2, <1>6, Zenon
    <3> QED BY <1>2, <3>1, LastJoined, Zenon
  <2>9. u = SubSeq(buffer, StartPos(buffer, e + 1), e)
    BY <1>6, UnsentIs, Zenon
  <2>10. Unsent(buffer, e + 1 + 1) = SubSeq(buffer, StartPos(buffer, e + 1 + 1), e + 1)
    BY <1>6, UnsentIs
  <2>11. CASE b # "LF"
    <3>1. Converted(file, read + (e + 1)) = <<b>>
      BY <2>4, <2>11, Zenon DEF Converted
    <3>2. SentAt(buffer, e + 1) = <<>>
      BY <2>11, Zenon DEF SentAt
    <3>3. Flat(part, e + 1) = p
      BY <2>2, <3>2, ConcatEmptySeq, Zenon
    <3>4. Unsent(buffer, e + 1 + 1) = u \o <<b>>
      BY <2>6, <2>7, <2>8, <2>9, <2>10, <2>11, Zenon
    <3>5. ((whole \o p) \o u) \o <<b>> = (whole \o p) \o (u \o <<b>>)
      <4> DEFINE g == whole \o p
                 w == <<b>>
      <4>1. g \in Seq(Bytes)
        BY <1>4, <2>2, ConcatProperties, Zenon
      <4>2. u \in Seq(Bytes) /\ w \in Seq(Bytes)
        BY <2>2, <2>5, Zenon
      <4> HIDE DEF p, u, c, w, g
      <4>3. Cat(Cat(g, u), w) = Cat(g, Cat(u, w))
        BY <4>1, <4>2, Assoc, Zenon
      <4> QED BY <4>3 DEF w, g, Cat
    <3>6. Done(e + 1)
      BY <2>1, <2>3, <3>1, <3>3, <3>4, <3>5, Zenon
    <3>7. e + 1 \in 0..n
      BY <1>1
    <3> QED BY <3>6, <3>7
  <2>12. CASE b = "LF"
    <3>1. Converted(file, read + (e + 1)) = c \o <<b>>
      <4>1. NeedsCR(buffer, e + 1) <=> (read + (e + 1) = 1 \/ file[read + (e + 1) - 1] # "CR")
        <5>1. CASE e = 0
          <6>1. NeedsCR(buffer, e + 1) <=> ~lastBufEndedWithCR
            BY <5>1 DEF NeedsCR
          <6>2. read + (e + 1) - 1 = read /\ (read + (e + 1) = 1 <=> ~(read > 0))
            BY <1>1, <5>1
          <6> QED BY <6>1, <6>2
        <5>2. CASE e # 0
          <6>1. NeedsCR(buffer, e + 1) <=> buffer[e] # "CR"
            BY <1>6, <5>2 DEF NeedsCR
          <6>2. e \in 1..n /\ read + (e + 1) - 1 = read + e /\ read + (e + 1) # 1
            BY <1>1, <5>2
          <6>3. buffer[e] = file[read + e]
            BY <1>2, <6>2
          <6> QED BY <6>1, <6>2, <6>3
        <5> QED BY <5>1, <5>2
      <4>2. Converted(file, read + (e + 1)) = IF NeedsCR(buffer, e + 1) THEN <<"CR", "LF">> ELSE <<"LF">>
        BY <2>4, <2>12, <4>1 DEF Converted
      <4>3. <<"CR">> \o <<"LF">> = <<"CR", "LF">> /\ <<>> \o <<"LF">> = <<"LF">>
        BY CRLF
      <4>4. CASE NeedsCR(buffer, e + 1)
        BY <2>12, <4>2, <4>3, <4>4, Zenon
      <4>5. CASE ~NeedsCR(buffer, e + 1)
        BY <2>12, <4>2, <4>3, <4>5, Zenon
      <4> QED BY <4>4, <4>5
    <3>2. SentAt(buffer, e + 1) = u \o c
      BY <2>12, Zenon DEF SentAt
    <3>3. Unsent(buffer, e + 1 + 1) = <<b>>
      <4>1. SubSeq(buffer, e + 1, e) = <<>>
        BY <1>6, SubSeqEmpty
      <4>2. e + 1 \in 1..e + 1
        BY <1>6
      <4>3. Unsent(buffer, e + 1 + 1) = <<>> \o <<b>>
        BY <2>6, <2>8, <2>10, <2>12, <4>1, <4>2, Zenon
      <4> QED BY <2>5, <4>3, ConcatEmptySeq, Zenon
    <3>4. ((whole \o p) \o u) \o (c \o <<b>>) = (whole \o (p \o (u \o c))) \o <<b>>
      <4> DEFINE g == whole \o p
                 w == <<b>>
                 gu == g \o u
                 uc == u \o c
      <4>1. p \in Seq(Bytes) /\ u \in Seq(Bytes) /\ c \in Seq(Bytes) /\ w \in Seq(Bytes)
        BY <2>2, <2>5, Zenon
      <4> HIDE DEF p, u, c, w
      <4>2. g \in Seq(Bytes) /\ uc \in Seq(Bytes)
        BY <1>4, <4>1, ConcatProperties, Zenon
      <4> HIDE DEF g, uc
      <4>3. gu \in Seq(Bytes)
        BY <4>1, <4>2, ConcatProperties, Zenon
      <4> HIDE DEF gu
      <4>4. Cat(Cat(gu, c), w) = Cat(gu, Cat(c, w))
        BY <4>1, <4>3, Assoc, Zenon
      <4>5. Cat(Cat(g, u), c) = Cat(g, Cat(u, c))
        <5>1. g \in Seq(Bytes) /\ u \in Seq(Bytes) /\ c \in Seq(Bytes)
          BY <4>1, <4>2, Zenon
        <5> QED BY <5>1, Assoc, Zenon
      <4>6. Cat(Cat(whole, p), uc) = Cat(whole, Cat(p, uc))
        BY <1>4, <4>1, <4>2, Assoc, Zenon
      <4>7. gu = Cat(g, u) /\ g = Cat(whole, p) /\ uc = Cat(u, c)
        BY DEF Cat, gu, g, uc
      <4>8. Cat(gu, Cat(c, w)) = Cat(Cat(whole, Cat(p, uc)), w)
        BY <4>4, <4>5, <4>6, <4>7, Zenon
      <4> QED BY <4>8 DEF w, g, gu, uc, Cat
    <3>5. Done(e + 1)
      BY <2>1, <2>2, <2>3, <3>1, <3>2, <3>3, <3>4, Zenon
    <3>6. e + 1 \in 0..n
      BY <1>1
    <3> QED BY <3>5, <3>6
  <2> QED BY <2>11, <2>12
<1>13. Done(n)
  <2> HIDE DEF S
  <2>1. n \in S
    BY <1>1, <1>11, <1>12, Climbs
  <2> QED BY <2>1, Zenon DEF S
<1>14. n \in 0..n /\ n - 1 \in 0..n - 1 /\ n - 1 + 1 = n
  BY <1>1 DEF n
<1>15. Flat(part, n) \in Seq(Bytes)
  <2>1. Flat(part, n - 1) \in Seq(Bytes) /\ Flat(part, n) = Flat(part, n - 1) \o SentAt(buffer, n)
    BY <1>10, <1>14
  <2>2. SentAt(buffer, n) \in Seq(Bytes)
    BY <1>6, <1>7, <1>14
  <2> QED BY <2>1, <2>2, ConcatProperties, Zenon
<1>16. Unsent(buffer, n + 1) \in Seq(Bytes)
  BY <1>5, <1>14
<1>17. Flat(part, n) \o Unsent(buffer, n + 1) \in Seq(Bytes)
  BY <1>15, <1>16, ConcatProperties, Zenon
<1>18. (whole \o Flat(part, n)) \o Unsent(buffer, n + 1) = whole \o (Flat(part, n) \o Unsent(buffer, n + 1))
  BY <1>4, <1>15, <1>16, ConcatAssociative
<1>19. Flat(conv, to) = whole \o SendBuffer(buffer)
  BY <1>1, <1>9, <1>13, <1>18, Zenon
<1> QED BY <1>3, <1>9, <1>17, <1>19, Zenon DEF buffer

\* The same for WriteBuffer: up to each byte, what has been written and what is still held
\* back are the bytes without their CRs.
LEMMA BufferWritten ==
  ASSUME NEW s \in Seq(Bytes), NEW from \in 0..Len(s), NEW to \in from + 1..Len(s)
  PROVE  /\ WithoutCR(Slice(s, 0, from)) \o WriteBuffer(Slice(s, from, to))
                = WithoutCR(Slice(s, 0, to))
         /\ WriteBuffer(Slice(s, from, to)) \in Seq(Bytes)
<1> DEFINE buffer == Slice(s, from, to)
           n == to - from
           kept == [i \in 1..Len(s) |-> Kept(s, i)]
           part == [e \in 1..Len(buffer) |-> WrittenAt(buffer, e)]
           whole == Flat(kept, from)
           held(e) == SubSeq(buffer, AfterCR(buffer, e + 1), e)
<1>1. /\ n \in Nat /\ from \in Nat /\ to \in from..Len(s) /\ to \in 0..Len(s)
      /\ from + n = to
  OBVIOUS
<1>2. buffer \in Seq(Bytes) /\ Len(buffer) = n /\ \A i \in 1..n : buffer[i] = s[from + i]
  BY <1>1, SliceIs, Zenon
<1>3. WithoutCR(Slice(s, 0, from)) = whole /\ WithoutCR(Slice(s, 0, to)) = Flat(kept, to)
  BY <1>1, KeptPrefix, Zenon
<1>4. whole \in Seq(Bytes)
  BY <1>1, PrefixesGrow
<1> HIDE DEF buffer, n, kept, whole
<1>5. ASSUME NEW e \in 0..n PROVE held(e) \in Seq(Bytes)
  <2> DEFINE a == AfterCR(buffer, e + 1)
  <2>1. a \in 1..e + 1 /\ e \in Int
    BY <1>1, StartBounds
  <2> HIDE DEF a
  <2>2. a \in Int /\ \A i \in a..e : buffer[i] \in Bytes
    BY <1>1, <1>2, <2>1
  <2>3. SubSeq(buffer, a, e) \in Seq(Bytes)
    BY <2>1, <2>2, SubSeqProperties
  <2> QED BY <2>3 DEF a
<1>6. ASSUME NEW e \in 0..n - 1
      PROVE  /\ e + 1 \in 1..n /\ e \in 0..n /\ e \in Nat /\ e + 1 \in Nat \ {0} /\ e + 1 \in 0..n
             /\ e + 1 - 1 = e /\ from + e \in 0..Len(s) /\ from + e < Len(s) /\ from + e + 1 = from + (e + 1)
             /\ from + (e + 1) \in 1..Len(s)
  BY <1>1 DEF n
<1>7. \A e \in 1..n : WrittenAt(buffer, e) \in Seq(Bytes)
  <2> SUFFICES ASSUME NEW e \in 1..n PROVE WrittenAt(buffer, e) \in Seq(Bytes)
    OBVIOUS
  <2>1. e - 1 \in 0..n /\ e - 1 + 1 = e
    BY <1>1
  <2>2. SubSeq(buffer, AfterCR(buffer, e), e - 1) \in Seq(Bytes)
    BY <1>5, <2>1
  <2>3. <<>> \in Seq(Bytes)
    OBVIOUS
  <2> QED BY <2>2, <2>3, Zenon DEF WrittenAt
<1>8. \A e \in 1..n : part[e] = WrittenAt(buffer, e)
  BY <1>2
<1>9. WriteBuffer(buffer) = Flat(part, n) \o held(n)
  <2>1. [e \in 1..n |-> part[e]] = [e \in 1..Len(buffer) |-> WrittenAt(buffer, e)]
    BY <1>2
  <2> HIDE DEF part
  <2> QED BY <1>2, <2>1 DEF WriteBuffer, Rest, Flat
<1> HIDE DEF part
<1>10. ASSUME NEW e \in 0..n - 1
       PROVE  /\ Flat(part, e) \in Seq(Bytes)
              /\ Flat(part, e + 1) = Flat(part, e) \o WrittenAt(buffer, e + 1)
  <2>1. \A i \in 1..e + 1 : i \in 1..n
    BY <1>1
  <2>2. \A i \in 1..e + 1 : part[i] \in Seq(Bytes)
    BY <1>7, <1>8, <2>1, Zenon
  <2>3. Flat(part, e) \in Seq(Bytes) /\ Flat(part, e + 1) = Flat(part, e) \o part[e + 1]
    BY <1>6, <2>2, FlatGrows, Zenon
  <2> QED BY <1>6, <1>8, <2>3, Zenon
<1> DEFINE Done(e) == Flat(kept, from + e) = (whole \o Flat(part, e)) \o held(e)
           S == {e \in 0..n : Done(e)}
<1>11. 0 \in S
  <2>1. from + 0 = from /\ 0 + 1 = 1 /\ 0 \in 0..n
    BY <1>1
  <2>2. Flat(part, 0) = <<>>
    BY FlatStep, 0 \in Nat
  <2>3. SubSeq(buffer, 1, 0) = <<>>
    BY SubSeqEmpty
  <2>4. held(0) = <<>>
    BY <2>1, <2>3, AfterMoves, Zenon
  <2>5. (whole \o <<>>) \o <<>> = whole
    BY <1>4, ConcatEmptySeq
  <2>6. Flat(kept, from + 0) = whole
    BY <2>1, Zenon DEF whole
  <2> HIDE DEF held
  <2>7. Done(0)
    BY <2>2, <2>4, <2>5, <2>6, Zenon
  <2> QED BY <2>1, <2>7
<1>12. ASSUME NEW e \in 0..n - 1, e \in S PROVE e + 1 \in S
  <2> DEFINE p == Flat(part, e)
             u == held(e)
             b == buffer[e + 1]
  <2>1. Flat(kept, from + e) = (whole \o p) \o u
    BY <1>12
  <2>2. p \in Seq(Bytes) /\ u \in Seq(Bytes) /\ Flat(part, e + 1) = p \o WrittenAt(buffer, e + 1)
    BY <1>5, <1>6, <1>10, Zenon
  <2>3. Flat(kept, from + (e + 1)) = Flat(kept, from + e) \o Kept(s, from + (e + 1))
    <3>1. Flat(kept, from + e + 1) = Flat(kept, from + e) \o Kept(s, from + e + 1)
      BY <1>6, PrefixesGrow, Zenon DEF kept
    <3> QED BY <1>6, <3>1, Zenon
  <2>4. b = s[from + (e + 1)] /\ b \in Bytes
    BY <1>2, <1>6, BytesTyped
  <2>5. <<b>> \in Seq(Bytes)
    BY <2>4
  <2>6. AfterCR(buffer, e + 1 + 1) = IF b = "CR" THEN e + 1 + 1 ELSE AfterCR(buffer, e + 1)
    BY <1>6, AfterMoves, Zenon
  <2>7. AfterCR(buffer, e + 1) \in 1..e + 1
    BY <1>6, StartBounds
  <2>8. CASE b # "CR"
    <3>1. Kept(s, from + (e + 1)) = <<b>>
      BY <2>4, <2>8, Zenon DEF Kept
    <3>2. Flat(part, e + 1) = p
      <4>1. WrittenAt(buffer, e + 1) = <<>>
        BY <2>8, Zenon DEF WrittenAt
      <4> QED BY <2>2, <4>1, ConcatEmptySeq, Zenon
    <3>3. held(e + 1) = u \o <<b>>
      <4> DEFINE a == AfterCR(buffer, e + 1)
      <4>1. a \in 1..e + 1
        BY <2>7
      <4> HIDE DEF a
      <4>2. SubSeq(buffer, a, e + 1) = SubSeq(buffer, a, e) \o <<b>>
        <5>1. e \in Nat /\ e + 1 \in 1..Len(buffer)
          BY <1>2, <1>6, Zenon
        <5> QED BY <1>2, <4>1, <5>1, LastJoined, Zenon
      <4> QED BY <2>6, <2>8, <4>2, Zenon DEF a
    <3>4. ((whole \o p) \o u) \o <<b>> = (whole \o p) \o (u \o <<b>>)
      <4> DEFINE g == whole \o p
                 w == <<b>>
      <4>1. g \in Seq(Bytes)
        BY <1>4, <2>2, ConcatProperties, Zenon
      <4>2. u \in Seq(Bytes) /\ w \in Seq(Bytes)
        BY <2>2, <2>5, Zenon
      <4> HIDE DEF p, u, w, g
      <4>3. Cat(Cat(g, u), w) = Cat(g, Cat(u, w))
        BY <4>1, <4>2, Assoc, Zenon
      <4> QED BY <4>3 DEF w, g, Cat
    <3> HIDE DEF held
    <3>5. Done(e + 1)
      BY <2>1, <2>3, <3>1, <3>2, <3>3, <3>4, Zenon
    <3> QED BY <1>6, <3>5
  <2>9. CASE b = "CR"
    <3>1. Kept(s, from + (e + 1)) = <<>>
      BY <2>4, <2>9, Zenon DEF Kept
    <3>2. WrittenAt(buffer, e + 1) = u
      <4> DEFINE d == e + 1
      <4>1. d - 1 = e
        BY <1>6
      <4> HIDE DEF d
      <4>2. buffer[d] = "CR" => WrittenAt(buffer, d) = SubSeq(buffer, AfterCR(buffer, d), e)
        BY <4>1, Zenon DEF WrittenAt
      <4> QED BY <2>9, <4>2, Zenon DEF d
    <3>3. held(e + 1) = <<>>
      <4>1. SubSeq(buffer, e + 1 + 1, e + 1) = <<>>
        BY <1>6, SubSeqEmpty
      <4> QED BY <2>6, <2>9, <4>1, Zenon
    <3>4. ((whole \o p) \o u) \o <<>> = (whole \o (p \o u)) \o <<>>
      <4> HIDE DEF p, u
      <4>1. Cat(Cat(whole, p), u) = Cat(whole, Cat(p, u))
        BY <1>4, <2>2, Assoc, Zenon
      <4>2. (whole \o p) \o u = whole \o (p \o u)
        BY <4>1 DEF Cat
      <4> QED BY <4>2, Zenon
    <3> HIDE DEF held
    <3>5. Done(e + 1)
      BY <2>1, <2>2, <2>3, <3>1, <3>2, <3>3, <3>4, Zenon
    <3> QED BY <1>6, <3>5
  <2> QED BY <2>8, <2>9
<1>13. Done(n)
  <2> HIDE DEF S
  <2>1. n \in S
    BY <1>1, <1>11, <1>12, Climbs
  <2> QED BY <2>1, Zenon DEF S
<1>14. n \in 0..n /\ n - 1 \in 0..n - 1 /\ n - 1 + 1 = n
  BY <1>1 DEF n
<1>15. Flat(part, n) \in Seq(Bytes)
  <2>1. Flat(part, n - 1) \in Seq(Bytes) /\ Flat(part, n) = Flat(part, n - 1) \o WrittenAt(buffer, n)
    BY <1>10, <1>14
  <2>2. WrittenAt(buffer, n) \in Seq(Bytes)
    BY <1>6, <1>7, <1>14
  <2> QED BY <2>1, <2>2, ConcatProperties, Zenon
<1>16. held(n) \in Seq(Bytes)
  BY <1>5, <1>14
<1> HIDE DEF held
<1>17. Flat(part, n) \o held(n) \in Seq(Bytes)
  BY <1>15, <1>16, ConcatProperties, Zenon
<1>18. (whole \o Flat(part, n)) \o held(n) = whole \o (Flat(part, n) \o held(n))
  <2>1. Cat(Cat(whole, Flat(part, n)), held(n)) = Cat(whole, Cat(Flat(part, n), held(n)))
    BY <1>4, <1>15, <1>16, Assoc, Zenon
  <2> QED BY <2>1 DEF Cat
<1>19. Flat(kept, to) = whole \o WriteBuffer(buffer)
  BY <1>1, <1>9, <1>13, <1>18, Zenon
<1> QED BY <1>3, <1>9, <1>17, <1>19, Zenon DEF buffer

-----------------------------------------------------------------------------
\* All of a sequence, and nothing of it.
LEMMA WholeSlice ==
  ASSUME NEW s \in Seq(Bytes)
  PROVE  Slice(s, 0, Len(s)) = s /\ Slice(s, 0, 0) = <<>>
<1> DEFINE m == Len(s)
<1>1. m \in Nat /\ 0 \in 0..m /\ m \in 0..m /\ 0 \in 0..0 /\ m - 0 = m
  OBVIOUS
<1>2. /\ Slice(s, 0, m) \in Seq(Bytes) /\ Len(Slice(s, 0, m)) = m - 0
      /\ \A i \in 1..m - 0 : Slice(s, 0, m)[i] = s[0 + i]
  BY <1>1, SliceIs, Zenon
<1>3. \A i \in 1..m : Slice(s, 0, m)[i] = s[i]
  BY <1>1, <1>2
<1>4. Slice(s, 0, m) = s
  BY <1>1, <1>2, <1>3, SeqEqual
<1>5. SubSeq(s, 0 + 1, 0) = <<>>
  BY SubSeqEmpty
<1> QED BY <1>4, <1>5 DEF Slice

\* Nothing becomes nothing.
LEMMA EmptyConverted == WithCRLF(<<>>) = <<>> /\ WithoutCR(<<>>) = <<>>
<1> DEFINE s == <<>>
           c == [i \in 1..Len(s) |-> Converted(s, i)]
           d == [i \in 1..Len(s) |-> Kept(s, i)]
<1>1. s \in Seq(Bytes) /\ 0 \in 0..Len(s)
  OBVIOUS
<1> HIDE DEF s
<1>2. WithCRLF(Slice(s, 0, 0)) = Flat(c, 0) /\ WithoutCR(Slice(s, 0, 0)) = Flat(d, 0)
  BY <1>1, ConvertedPrefix, KeptPrefix, Zenon
<1>3. Slice(s, 0, 0) = <<>>
  BY <1>1, WholeSlice, Zenon
<1>4. Flat(c, 0) = <<>> /\ Flat(d, 0) = <<>>
  BY FlatStep, 0 \in Nat
<1> QED BY <1>2, <1>3, <1>4, Zenon

\* Without its CRs it is a sequence of bytes still.
LEMMA WithoutTyped ==
  ASSUME NEW s \in Seq(Bytes)
  PROVE  WithoutCR(s) \in Seq(Bytes)
<1> DEFINE d == [i \in 1..Len(s) |-> Kept(s, i)]
<1>1. Len(s) \in 0..Len(s)
  OBVIOUS
<1>2. Flat(d, Len(s)) \in Seq(Bytes)
  BY <1>1, PrefixesGrow, Zenon
<1>3. WithoutCR(s) = Flat(d, Len(s))
  BY <1>1, WholeSlice, KeptPrefix, Zenon
<1> QED BY <1>2, <1>3, Zenon

\* A byte more is kept unless it is a CR.
LEMMA OneMoreKept ==
  ASSUME NEW x \in Seq(Bytes), NEW b \in Bytes
  PROVE  /\ x \o <<b>> \in Seq(Bytes)
         /\ WithoutCR(x \o <<b>>) = WithoutCR(x) \o (IF b = "CR" THEN <<>> ELSE <<b>>)
<1> DEFINE w == <<b>>
           y == x \o w
           m == Len(x)
           d == [i \in 1..Len(y) |-> Kept(y, i)]
<1>1. w \in Seq(Bytes) /\ Len(w) = 1 /\ w[1] = b /\ m \in Nat
  OBVIOUS
<1> HIDE DEF w
<1>2. /\ y \in Seq(Bytes) /\ Len(y) = m + 1
      /\ \A i \in 1..m + 1 : y[i] = IF i <= m THEN x[i] ELSE w[i - m]
  BY <1>1, ConcatProperties
<1>3. \A i \in 1..m : y[i] = x[i]
  BY <1>1, <1>2
<1>4. y[m + 1] = b
  <2>1. m + 1 \in 1..m + 1 /\ ~(m + 1 <= m) /\ m + 1 - m = 1
    BY <1>1
  <2>2. y[m + 1] = IF m + 1 <= m THEN x[m + 1] ELSE w[m + 1 - m]
    BY <1>2, <2>1
  <2> HIDE DEF y
  <2> QED BY <1>1, <2>1, <2>2, Zenon
<1> HIDE DEF y, m
<1>5. m \in 0..Len(y) /\ m + 1 \in 0..Len(y) /\ m < Len(y) /\ m - 0 = m /\ 0 \in 0..Len(y) /\ m \in 0..Len(y)
  BY <1>1, <1>2
<1>6. Slice(y, 0, m) = x
  <2>1. /\ Slice(y, 0, m) \in Seq(Bytes) /\ Len(Slice(y, 0, m)) = m - 0
        /\ \A i \in 1..m - 0 : Slice(y, 0, m)[i] = y[0 + i]
    BY <1>2, <1>5, SliceIs, Zenon
  <2>2. \A i \in 1..m : Slice(y, 0, m)[i] = x[i]
    BY <1>1, <1>3, <2>1
  <2> QED BY <1>5, <2>1, <2>2, SeqEqual DEF m
<1>7. Slice(y, 0, m + 1) = y
  BY <1>2, WholeSlice
<1>8. WithoutCR(x) = Flat(d, m) /\ WithoutCR(y) = Flat(d, m + 1)
  BY <1>2, <1>5, <1>6, <1>7, KeptPrefix, Zenon
<1>9. Flat(d, m + 1) = Flat(d, m) \o Kept(y, m + 1)
  BY <1>2, <1>5, PrefixesGrow, Zenon
<1>10. Kept(y, m + 1) = IF b = "CR" THEN <<>> ELSE <<b>>
  BY <1>4, Zenon DEF Kept
<1> QED BY <1>2, <1>8, <1>9, <1>10, Zenon DEF y, w

\* The CRs that the download adds, the upload drops.
LEMMA RoundTrip ==
  ASSUME NEW s \in Seq(Bytes)
  PROVE  WithCRLF(s) \in Seq(Bytes) /\ WithoutCR(WithCRLF(s)) = WithoutCR(s)
<1> DEFINE c == [i \in 1..Len(s) |-> Converted(s, i)]
           d == [i \in 1..Len(s) |-> Kept(s, i)]
           S == {k \in 0..Len(s) : WithoutCR(Flat(c, k)) = Flat(d, k)}
<1>1. ASSUME NEW k \in 0..Len(s)
      PROVE  /\ Flat(c, k) \in Seq(Bytes) /\ Flat(c, 0) = <<>> /\ Flat(d, 0) = <<>>
             /\ k < Len(s) => /\ Flat(c, k + 1) = Flat(c, k) \o Converted(s, k + 1)
                              /\ Flat(d, k + 1) = Flat(d, k) \o Kept(s, k + 1)
  BY PrefixesGrow, Zenon
<1> HIDE DEF c, d
<1>2. Len(s) \in Nat /\ 0 \in 0..Len(s) /\ Len(s) \in 0..Len(s)
  OBVIOUS
<1>3. 0 \in S
  BY <1>1, <1>2, EmptyConverted, Zenon
<1>4. ASSUME NEW k \in 0..Len(s) - 1, k \in S PROVE k + 1 \in S
  <2> DEFINE x == Flat(c, k)
             b == s[k + 1]
  <2>1. k \in 0..Len(s) /\ k < Len(s) /\ k + 1 \in 0..Len(s) /\ k + 1 \in 1..Len(s)
    BY <1>2
  <2>2. x \in Seq(Bytes) /\ Flat(c, k + 1) = x \o Converted(s, k + 1) /\ Flat(d, k + 1) = Flat(d, k) \o Kept(s, k + 1)
    BY <1>1, <2>1, Zenon
  <2>3. WithoutCR(x) = Flat(d, k)
    BY <1>4
  <2>4. b \in Bytes
    BY <2>1, BytesTyped
  <2> HIDE DEF x
  <2>5. WithoutCR(Flat(c, k + 1)) = Flat(d, k + 1)
    <3>1. Kept(s, k + 1) = IF b = "CR" THEN <<>> ELSE <<b>>
      BY Zenon DEF Kept
    <3>2. CASE Converted(s, k + 1) = <<b>>
      <4>1. WithoutCR(x \o <<b>>) = WithoutCR(x) \o (IF b = "CR" THEN <<>> ELSE <<b>>)
        BY <2>2, <2>4, OneMoreKept, Zenon
      <4> QED BY <2>2, <2>3, <3>1, <3>2, <4>1, Zenon
    <3>3. CASE b = "LF" /\ Converted(s, k + 1) = <<"CR", "LF">>
      <4> DEFINE cr == <<"CR">>
                 lf == <<"LF">>
                 xcr == x \o cr
      <4>1. "CR" \in Bytes /\ "LF" \in Bytes /\ "LF" # "CR" /\ cr \in Seq(Bytes) /\ lf \in Seq(Bytes)
        BY DEF Bytes
      <4>2. xcr \in Seq(Bytes) /\ WithoutCR(xcr) = WithoutCR(x) \o <<>>
        BY <2>2, <4>1, OneMoreKept, Zenon
      <4>3. WithoutCR(xcr \o lf) = WithoutCR(xcr) \o lf
        <5> HIDE DEF xcr
        <5> QED BY <4>1, <4>2, OneMoreKept, Zenon
      <4>4. Cat(Cat(x, cr), lf) = Cat(x, Cat(cr, lf))
        BY <2>2, <4>1, Assoc, Zenon
      <4>5. xcr \o lf = x \o Converted(s, k + 1)
        BY <3>3, <4>4, CRLF DEF Cat
      <4>6. WithoutCR(x) \o <<>> = WithoutCR(x)
        <5>1. WithoutCR(x) \in Seq(Bytes)
          BY <2>2, WithoutTyped, Zenon
        <5> QED BY <5>1, ConcatEmptySeq
      <4>7. Kept(s, k + 1) = lf
        BY <3>1, <3>3, <4>1, Zenon
      <4> HIDE DEF xcr
      <4> QED BY <2>2, <2>3, <4>2, <4>3, <4>5, <4>6, <4>7, Zenon
    <3>4. Converted(s, k + 1) = <<b>> \/ (b = "LF" /\ Converted(s, k + 1) = <<"CR", "LF">>)
      BY Zenon DEF Converted
    <3> QED BY <3>2, <3>3, <3>4
  <2> QED BY <2>1, <2>5
<1>5. Len(s) \in S
  <2> HIDE DEF S
  <2> QED BY <1>2, <1>3, <1>4, Climbs
<1>6. WithCRLF(s) = Flat(c, Len(s)) /\ WithoutCR(s) = Flat(d, Len(s))
  BY <1>2, WholeSlice, ConvertedPrefix, KeptPrefix, Zenon DEF c, d
<1>7. WithoutCR(Flat(c, Len(s))) = Flat(d, Len(s))
  BY <1>5
<1> QED BY <1>1, <1>2, <1>6, <1>7, Zenon

-----------------------------------------------------------------------------
\* What has been sent is what was read, converted; what is stored is what arrived of that,
\* without its CRs; lastBufEndedWithCR remembers the last byte read; and nothing is received
\* before all has been sent.
AsciiInv ==
  /\ file \in Seq(Bytes)
  /\ read \in 0..Len(file)
  /\ lastBufEndedWithCR <=> (read > 0 /\ file[read] = "CR")
  /\ sent \in Seq(Bytes) /\ sent = WithCRLF(Slice(file, 0, read))
  /\ received \in 0..Len(sent)
  /\ received > 0 => read = Len(file)
  /\ stored = WithoutCR(Slice(sent, 0, received))

\* What a buffer can be.
LEMMA BufferIs ==
  ASSUME NEW s \in Seq(Bytes), NEW from \in 0..Len(s), NEW buffer \in Buffers(s, from)
  PROVE  \E to \in from + 1..Len(s) : buffer = Slice(s, from, to) /\ from + Len(buffer) = to
<1> DEFINE most == Min({Len(s), from + MaxBuffer})
<1>1. Len(s) \in Nat /\ from + MaxBuffer \in Nat /\ from \in Nat
  BY AsciiBounds
<1>2. most \in Nat /\ most <= Len(s)
  <2>1. \E x \in {Len(s), from + MaxBuffer} : \A y \in {Len(s), from + MaxBuffer} : x =< y
    BY <1>1
  <2>2. most \in {Len(s), from + MaxBuffer} /\ \A y \in {Len(s), from + MaxBuffer} : most =< y
    BY <2>1, Zenon DEF Min
  <2> HIDE DEF most
  <2> QED BY <1>1, <2>2
<1>3. PICK to \in from + 1..most : buffer = Slice(s, from, to)
  BY Zenon DEF Buffers
<1> HIDE DEF most
<1>4. to \in from + 1..Len(s) /\ to \in from..Len(s) /\ to - from \in Nat /\ from + (to - from) = to
  BY <1>1, <1>2
<1>5. Len(Slice(s, from, to)) = to - from
  BY <1>4, SliceIs, Zenon
<1> QED BY <1>3, <1>4, <1>5, Zenon

\* Nothing has been read.
LEMMA AsciiStarts == AsciiInit => AsciiInv
<1> SUFFICES ASSUME AsciiInit PROVE AsciiInv
  OBVIOUS
<1>1. file \in Seq(Bytes)
  BY DEF AsciiInit, BoundedSeq, SeqOf
<1>2. read = 0 /\ lastBufEndedWithCR = FALSE /\ sent = <<>> /\ received = 0 /\ stored = <<>>
  BY DEF AsciiInit
<1>3. sent \in Seq(Bytes) /\ Len(sent) = 0 /\ 0 \in 0..Len(file) /\ 0 \in 0..0 /\ ~(0 > 0)
  BY <1>1, <1>2
<1>4. Slice(file, 0, 0) = <<>> /\ Slice(sent, 0, 0) = <<>>
  BY <1>1, <1>3, WholeSlice, Zenon
<1>5. sent = WithCRLF(Slice(file, 0, read)) /\ stored = WithoutCR(Slice(sent, 0, received))
  BY <1>2, <1>4, EmptyConverted, Zenon
<1> QED BY <1>1, <1>2, <1>3, <1>5, Zenon DEF AsciiInv

\* A buffer of the file is sent.
LEMMA SendKeeps == AsciiInv /\ Send => AsciiInv'
<1> SUFFICES ASSUME AsciiInv, Send PROVE AsciiInv'
  OBVIOUS
<1> USE DEF AsciiInv
<1>1. PICK buffer \in Buffers(file, read) :
        /\ sent' = sent \o SendBuffer(buffer)
        /\ read' = read + Len(buffer)
        /\ lastBufEndedWithCR' = (Last(buffer) = "CR")
        /\ UNCHANGED <<file, received, stored>>
  BY DEF Send
<1>2. PICK to \in read + 1..Len(file) : buffer = Slice(file, read, to) /\ read + Len(buffer) = to
  BY BufferIs, Zenon
<1>3. file' = file /\ received' = received /\ stored' = stored /\ read' = to
  BY <1>1, <1>2
<1>4. /\ WithCRLF(Slice(file, 0, read)) \o SendBuffer(Slice(file, read, to)) = WithCRLF(Slice(file, 0, to))
      /\ SendBuffer(Slice(file, read, to)) \in Seq(Bytes)
  BY BufferSent, Zenon
<1>5. sent' \in Seq(Bytes) /\ sent' = WithCRLF(Slice(file', 0, read'))
  <2>1. sent \o SendBuffer(buffer) \in Seq(Bytes)
    BY <1>2, <1>4, ConcatProperties, Zenon
  <2> QED BY <1>1, <1>2, <1>3, <1>4, <2>1, Zenon
<1>6. lastBufEndedWithCR' <=> (read' > 0 /\ file'[read'] = "CR")
  <2>1. /\ read \in 0..Len(file) /\ to \in read..Len(file) /\ to - read \in 1..to - read
        /\ read + (to - read) = to /\ to > 0
    OBVIOUS
  <2>2. Len(buffer) = to - read /\ \A i \in 1..to - read : buffer[i] = file[read + i]
    BY <1>2, <2>1, SliceIs, Zenon
  <2>3. Last(buffer) = file[to]
    BY <2>1, <2>2, Zenon DEF Last
  <2> QED BY <1>1, <1>3, <2>1, <2>3
<1>7. received = 0
  BY <1>2
<1>8. received' \in 0..Len(sent') /\ ~(received' > 0)
  <2>1. Len(sent') \in Nat
    BY <1>5
  <2> QED BY <1>3, <1>7, <2>1
<1>9. stored' = WithoutCR(Slice(sent', 0, received'))
  <2>1. Slice(sent, 0, 0) = <<>> /\ Slice(sent', 0, 0) = <<>>
    BY <1>5, WholeSlice, Zenon
  <2> QED BY <1>3, <1>7, <2>1, Zenon
<1>10. read' \in 0..Len(file') /\ file' \in Seq(Bytes)
  BY <1>3
<1> QED BY <1>5, <1>6, <1>8, <1>9, <1>10, Zenon

\* A buffer of what was sent is stored.
LEMMA StoreKeeps == AsciiInv /\ Store => AsciiInv'
<1> SUFFICES ASSUME AsciiInv, Store PROVE AsciiInv'
  OBVIOUS
<1> USE DEF AsciiInv
<1>1. PICK buffer \in Buffers(sent, received) :
        /\ stored' = stored \o WriteBuffer(buffer)
        /\ received' = received + Len(buffer)
  BY DEF Store
<1>2. read = Len(file) /\ UNCHANGED <<file, read, lastBufEndedWithCR, sent>>
  BY DEF Store
<1>3. PICK to \in received + 1..Len(sent) : buffer = Slice(sent, received, to) /\ received + Len(buffer) = to
  BY BufferIs, Zenon
<1>4. WithoutCR(Slice(sent, 0, received)) \o WriteBuffer(Slice(sent, received, to)) = WithoutCR(Slice(sent, 0, to))
  BY BufferWritten, Zenon
<1>5. received' = to /\ sent' = sent /\ file' = file /\ read' = read /\ lastBufEndedWithCR' = lastBufEndedWithCR
  BY <1>1, <1>2, <1>3
<1>6. stored' = WithoutCR(Slice(sent', 0, received'))
  BY <1>1, <1>3, <1>4, <1>5, Zenon
<1>7. received' \in 0..Len(sent')
  BY <1>3, <1>5
<1> QED BY <1>2, <1>5, <1>6, <1>7

\* So it is after every step.
LEMMA AsciiKeeps == AsciiInv /\ [AsciiNext]_asciiVars => AsciiInv'
<1> SUFFICES ASSUME AsciiInv, [AsciiNext]_asciiVars PROVE AsciiInv'
  OBVIOUS
<1>1. CASE Send
  BY <1>1, SendKeeps
<1>2. CASE Store
  BY <1>2, StoreKeeps
<1>3. CASE UNCHANGED asciiVars
  BY <1>3 DEF asciiVars, AsciiInv
<1> QED BY <1>1, <1>2, <1>3 DEF AsciiNext

\* AsciiInv is inductive.
LEMMA AsciiAlways == AsciiSpec => []AsciiInv
  BY AsciiStarts, AsciiKeeps, PTL DEF AsciiSpec

\* CmdRETR: whatever the file and wherever it is cut into buffers, every lone LF of what was
\* read is sent as CR LF, and no other byte is touched.
THEOREM LineEndsConverted == AsciiSpec => []DownloadConverts
<1>1. AsciiInv => DownloadConverts
  BY DEF AsciiInv, DownloadConverts
<1> QED BY <1>1, AsciiAlways, PTL

\* CmdAbstractStore: wherever the data is cut, all of it but its CRs is stored; a file that
\* is downloaded and uploaded again has lost at most the CRs that it had.
THEOREM FileSurvives == AsciiSpec => []RoundTripKeepsFile
<1>1. AsciiInv => RoundTripKeepsFile
  <2> SUFFICES ASSUME AsciiInv PROVE RoundTripKeepsFile
    OBVIOUS
  <2>1. ASSUME read = Len(file), received = Len(sent) PROVE stored = WithoutCR(file)
    <3>1. Slice(file, 0, Len(file)) = file /\ Slice(sent, 0, Len(sent)) = sent
      BY WholeSlice, Zenon DEF AsciiInv
    <3>2. stored = WithoutCR(sent) /\ sent = WithCRLF(file)
      BY <2>1, <3>1, Zenon DEF AsciiInv
    <3> QED BY <3>2, RoundTrip, Zenon DEF AsciiInv
  <2> QED BY <2>1 DEF AsciiInv, RoundTripKeepsFile
<1> QED BY <1>1, AsciiAlways, PTL
=============================================================================
