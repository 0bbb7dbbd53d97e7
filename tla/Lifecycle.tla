------------------------------ MODULE Lifecycle ------------------------------
(***************************************************************************)
(* What the pulse driver promises whoever reads its state attribute: the   *)
(* five states, the moves between them, and that the laser may only emit   *)
(* while the driver says it is running.  The documentation of the commands *)
(* is in cnc_private.h; the driver itself is module Cnc, which implements  *)
(* this specification (Cnc!LifecycleSpec).                                 *)
(***************************************************************************)

VARIABLES
  st,         \* the reported state
  latched,    \* a stepper fault has been recorded and not been cleared
  emitting    \* the FIRE line is driven and was high after a byte or in it

lvars == <<st, latched, emitting>>

Stopped == {"idle", "disabled", "fault", "underrun"}

\* Probe leaves the driver disabled, or in fault when a line is asserted.
LInit ==
  /\ emitting = FALSE
  /\ \/ st = "disabled" /\ latched = FALSE
     \/ st = "fault"    /\ latched = TRUE

\* A run, a backtrack or a resume starts, dark, and never over a fault.
Begin ==
  /\ st \in {"idle", "disabled"}
  /\ ~latched
  /\ st' = "running"
  /\ emitting' = FALSE
  /\ UNCHANGED latched

\* The beam follows the pulse data only while running.
Emit ==
  /\ st = "running"
  /\ emitting' \in BOOLEAN
  /\ UNCHANGED <<st, latched>>

\* A run ends: completion, underrun, halt, end of a ramp, or disable.
End ==
  /\ st = "running"
  /\ st' \in {"idle", "underrun", "disabled"}
  /\ emitting' = FALSE
  /\ UNCHANGED latched

\* Disable; an enable that found no fault; an acknowledged underrun.
Settle ==
  /\ \/ st \in {"idle", "underrun"} /\ st' = "disabled"
     \/ st = "disabled" /\ st' = "idle"
     \/ st = "underrun" /\ st' = "idle"
  /\ UNCHANGED <<latched, emitting>>

\* A stepper fault stops everything, from any state.
Fault ==
  /\ st' = "fault"
  /\ latched' = TRUE
  /\ emitting' = FALSE

\* The deliberate two-part recovery: clear the record, then leave the state.
ClearFault ==
  /\ st = "fault"
  /\ latched' = FALSE
  /\ UNCHANGED <<st, emitting>>

Recover ==
  /\ st = "fault"
  /\ ~latched
  /\ st' = "idle"
  /\ UNCHANGED <<latched, emitting>>

LNext == Begin \/ Emit \/ End \/ Settle \/ Fault \/ ClearFault \/ Recover

LSpec == LInit /\ [][LNext]_lvars
=============================================================================
