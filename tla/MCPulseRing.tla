---------------------------- MODULE MCPulseRing ----------------------------
(* Instances of PulseRing: small rings whose indices wrap. *)
EXTENDS PulseRing, TLC

CONSTANTS p1, p2

Symmetry == Permutations(Procs)
=============================================================================
