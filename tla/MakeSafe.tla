------------------------------ MODULE MakeSafe --------------------------------
(***************************************************************************)
(* Who calls a driver's make-safe function: the dead man's notifier chain  *)
(* (src/notifiers.h) and the driver core, in the driver's remove function. *)
(* The modules of the drivers behind the switch share these names.         *)
(***************************************************************************)
CONSTANT Callers
=============================================================================
