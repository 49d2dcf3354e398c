---------------------------- MODULE MCServices ----------------------------
(***************************************************************************)
(* Three small components that share nothing: MediaUpdater, NsdService and *)
(* AsciiTransfer. Each behaviour is one of a single component, while the   *)
(* others stay as they were, so that the states of the three add up.       *)
(***************************************************************************)
EXTENDS MediaUpdater, NsdService, AsciiTransfer

VARIABLE component  \* the one that takes steps

TwoCallers == {1, 2}
Components == {"MediaUpdater", "NsdService", "AsciiTransfer"}

\* A step of MediaUpdater's, whose clock and timers stop with the process.
OfMediaUpdater(A) == component = "MediaUpdater" /\ ~crashed /\ A

ServicesInit ==
  /\ component \in Components
  /\ Init /\ NsdInit
  /\ AsciiInit /\ (component # "AsciiTransfer" => file = <<>>)

ServicesNext ==
  \/ component = "MediaUpdater" /\ Next /\ UNCHANGED <<component, nsdVars, asciiVars>>
  \/ component = "NsdService" /\ NsdNext /\ UNCHANGED <<component, vars, asciiVars>>
  \/ component = "AsciiTransfer" /\ AsciiNext /\ UNCHANGED <<component, vars, nsdVars>>

\* Session threads and timer threads are scheduled, and time passes; nothing of the kind
\* is assumed for the other two.
ServicesSpec ==
  /\ ServicesInit /\ [][ServicesNext]_<<component, vars, nsdVars, asciiVars>>
  /\ WF_vars(OfMediaUpdater(Broadcast)) /\ WF_vars(OfMediaUpdater(Tick))
  /\ \A c \in Callers : WF_vars(OfMediaUpdater(Continue(c)))
=============================================================================
