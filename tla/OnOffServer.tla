---------------------------- MODULE OnOffServer ----------------------------
(***************************************************************************)
(* What FsService promises to whoever listens to its broadcasts: a single  *)
(* server that is off, starting or up, and that tells of every change.     *)
(***************************************************************************)
VARIABLES
  phase,   \* "off", "starting" or "up"
  told     \* the last broadcast sent

Init == phase = "off" /\ told = "nothing"

Begin == phase = "off" /\ phase' = "starting" /\ UNCHANGED told

Succeed == phase = "starting" /\ phase' = "up" /\ told' = "STARTED"

Fail == phase = "starting" /\ phase' = "off" /\ told' = "FAILEDTOSTART"

Stop == phase = "up" /\ phase' = "off" /\ told' = "STOPPED"

\* A kill of the process tells nobody.
Die == phase # "off" /\ phase' = "off" /\ UNCHANGED told

Next == Begin \/ Succeed \/ Fail \/ Stop \/ Die

Spec == Init /\ [][Next]_<<phase, told>>
=============================================================================
