----------------------------- MODULE MCInterlock -----------------------------
(* The latch with a few switch devices. *)
EXTENDS Interlock
=============================================================================
