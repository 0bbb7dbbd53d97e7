------------------------------- MODULE MCRamp -------------------------------
(* The ramp over attribute values at and around their bounds. *)
EXTENDS Ramp

SomeFreqs == {999, 1000, 1001, 10000, 43999, 200000, 200001}
SomeRates == {9999, 10000, 12345, 125000, 500000, 500001}
=============================================================================
