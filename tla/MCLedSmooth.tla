----------------------------- MODULE MCLedSmooth -----------------------------
(* The smooth trigger, small sets of numbers written to its attributes. *)
EXTENDS LedSmooth
=============================================================================
