---------------------------- MODULE MCSdmaScript ----------------------------
EXTENDS SdmaScript

\* A lit step forward and a dark one back: enough for a retrace to drift.
TwoSteps == {[step |-> 1, fire |-> TRUE], [step |-> -1, fire |-> FALSE]}
=============================================================================
