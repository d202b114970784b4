-------------------------------- MODULE Launch --------------------------------
(***************************************************************************)
(* What the installer promises the agent about the target's own threads: a  *)
(* started process is released once the agent thread no longer changes its  *)
(* code; a process that was running is never held.                          *)
(***************************************************************************)
VARIABLES
  patching,   \* the agent thread may yet change the target's code
  released    \* the target's own threads run

launchVars == <<patching, released>>

LaunchInit == patching = TRUE /\ released \in BOOLEAN

Finish == patching /\ patching' = FALSE /\ UNCHANGED released

Release == ~patching /\ ~released /\ released' = TRUE /\ UNCHANGED patching

LaunchSpec == LaunchInit /\ [][Finish \/ Release]_launchVars
=============================================================================
