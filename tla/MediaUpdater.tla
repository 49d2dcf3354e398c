---------------------------- MODULE MediaUpdater ----------------------------
(***************************************************************************)
(* MediaUpdater.notifyFileDeleted before Android 4.4: each deletion puts   *)
(* off, by a fresh java.util.Timer, one broadcast that makes the system    *)
(* scan its media anew. The static field sTimer is shared, without         *)
(* synchronization, by all session threads, which call it from DELE, RMD   *)
(* and STOR; loading the field and calling the timer are separate steps.   *)
(*                                                                         *)
(* Timer (external) runs its tasks when they are due or later, drops them  *)
(* when it is cancelled, and throws when it is given a task after that: in *)
(* a session thread no one catches that, and the process ends (crashed).   *)
(***************************************************************************)
EXTENDS Naturals

CONSTANTS
  Callers,      \* session threads
  Delay,        \* the five seconds
  MaxRequests,  \* bound: deletions
  MaxTime       \* bound: clock

ASSUME MediaBounds ==
  Delay \in Nat \ {0} /\ MaxRequests \in Nat /\ MaxTime \in Nat

VARIABLES
  sTimer,       \* MediaUpdater.sTimer: timers are numbered as they are made
  made,         \* timers made
  cancelled,    \* timers cancelled
  tasks,        \* tasks waiting: [timer, due, request]
  at,           \* control point of each caller
  using,        \* the timer each caller has loaded
  requests,     \* deletions notified
  lastRequest,  \* when a deletion last cancelled a timer
  overlapped,   \* two calls have been under way at once
  dirty,        \* a deletion has been scheduled and not yet announced
  now,
  crashed

timerVars == <<sTimer, made, cancelled, tasks>>
vars == <<sTimer, made, cancelled, tasks, at, using, requests, lastRequest, overlapped, dirty,
          now, crashed>>

Timers == 1..(MaxRequests + 1)
Goto(c, from, to) == at[c] = from /\ at' = [at EXCEPT ![c] = to]
Load(c) == using' = [using EXCEPT ![c] = sTimer]
Calling == \E c \in Callers : at[c] # "idle"

\* The file is gone; sTimer is loaded in order to cancel it.
notifyFileDeleted(c) ==
  /\ requests < MaxRequests /\ now + Delay <= MaxTime
  /\ requests' = requests + 1
  /\ Goto(c, "idle", "cancel") /\ Load(c)
  /\ overlapped' = (overlapped \/ Calling)
  /\ UNCHANGED <<timerVars, lastRequest, dirty, now, crashed>>

Cancelled_Forgotten(c) == UNCHANGED <<cancelled, tasks>>
Cancelled(c) ==
  /\ cancelled' = cancelled \union {using[c]}
  /\ tasks' = {task \in tasks : task.timer # using[c]}

Cancel(c) ==
  /\ Goto(c, "cancel", "create")
  /\ Cancelled(c)
  /\ lastRequest' = now
  /\ UNCHANGED <<sTimer, made, using, requests, overlapped, dirty, now, crashed>>

Create_Unassigned(c) ==
  /\ Goto(c, "create", "load")
  /\ made' = made + 1
  /\ UNCHANGED <<sTimer, cancelled, tasks, using, requests, lastRequest, overlapped, dirty,
                 now, crashed>>
Create(c) ==
  /\ Goto(c, "create", "load")
  /\ made' = made + 1 /\ sTimer' = made + 1
  /\ UNCHANGED <<cancelled, tasks, using, requests, lastRequest, overlapped, dirty, now, crashed>>

LoadCreated(c) ==
  /\ Goto(c, "load", "schedule") /\ Load(c)
  /\ UNCHANGED <<timerVars, requests, lastRequest, overlapped, dirty, now, crashed>>

NewTasks_Lost(c) == {}
NewTasks(c) == {[timer |-> using[c], due |-> now + Delay, request |-> requests]}

Schedule(c) ==
  /\ Goto(c, "schedule", "idle")
  /\ IF using[c] \in cancelled
     THEN crashed' = TRUE /\ UNCHANGED <<tasks, dirty>>
     ELSE /\ tasks' = tasks \union NewTasks(c)
          /\ dirty' = TRUE
          /\ UNCHANGED crashed
  /\ UNCHANGED <<sTimer, made, cancelled, using, requests, lastRequest, overlapped, now>>

Fire(task) ==
  /\ task \in tasks /\ task.due <= now
  /\ tasks' = tasks \ {task}
  /\ dirty' = FALSE
  /\ UNCHANGED <<sTimer, made, cancelled, at, using, requests, lastRequest, overlapped, now, crashed>>

Broadcast == \E task \in tasks : Fire(task)

\* The bounded clock does not run out during a call.
Tick ==
  /\ now < MaxTime
  /\ Calling => now + Delay < MaxTime
  /\ now' = now + 1
  /\ UNCHANGED <<timerVars, at, using, requests, lastRequest, overlapped, dirty, crashed>>

Init ==
  /\ sTimer = 1 /\ made = 1 /\ cancelled = {} /\ tasks = {}
  /\ at = [c \in Callers |-> "idle"] /\ using = [c \in Callers |-> 1]
  /\ requests = 0 /\ lastRequest = 0 /\ dirty = FALSE /\ now = 0
  /\ overlapped = FALSE /\ crashed = FALSE

Continue(c) == Cancel(c) \/ Create(c) \/ LoadCreated(c) \/ Schedule(c)

Next ==
  /\ ~crashed
  /\ Broadcast \/ Tick \/ \E c \in Callers : notifyFileDeleted(c) \/ Continue(c)

Spec == Init /\ [][Next]_vars
-----------------------------------------------------------------------------
\* The broadcast is sent only "if for 5 seconds there was no same request": as long as
\* no two calls have overlapped, each deletion, of whatever session, cancels the
\* broadcast that an earlier one has asked for. (Two calls that overlap may lose a timer:
\* then the broadcast comes early.)
BroadcastAfterQuiet ==
  [][((\E task \in tasks : Fire(task)) /\ ~overlapped) => now >= lastRequest + Delay]_vars

\* Every deletion that got its timer is followed by a broadcast, or by the end of the
\* process: no interleaving of callers cancels the last one.
DeletionAnnounced == dirty ~> (~dirty \/ crashed)

\* The timer that "is of no value any more" is never used again: each task goes to a
\* timer that has not been cancelled, and schedule throws only after two calls have
\* overlapped. (Then it may: the process ends with a session thread's exception.)
CancelledTimerUnused == crashed => overlapped
=============================================================================
