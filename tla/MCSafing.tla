------------------------------- MODULE MCSafing ------------------------------
(* The three drivers behind the switch, two stores, one trip.              *)
EXTENDS Safing
=============================================================================
