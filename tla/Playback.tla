------------------------------- MODULE Playback -------------------------------
(***************************************************************************)
(* What the pulse script promises the host: the script's context moves a   *)
(* byte at a time, whatever the host does to it between two bytes.  Cnc    *)
(* takes a byte for one step of the engine; SdmaScript takes it apart into *)
(* the script's port writes.  Both implement this specification            *)
(* (PlaybackSpec in each), so that Cnc may take a byte for one step.       *)
(***************************************************************************)
EXTENDS Integers

VARIABLES
  fed,       \* bytes enqueued
  head, tail, dir, waypoint, inhibit,   \* scratch4, 5, 6, 7 and the inhibit
  lit        \* FIRE in the port's data register

aimVars  == <<tail, dir>>
playVars == <<fed, head, aimVars, waypoint, inhibit, lit>>

\* load_sdma_script()
PInit ==
  /\ fed = 0 /\ head = 0 /\ tail = 0 /\ dir = 1 /\ waypoint = 0
  /\ inhibit = FALSE /\ lit = FALSE

-----------------------------------------------------------------------------
(* The script.                                                             *)

\* Where a byte may light FIRE: a dark walk leaves it as it is or puts it out.
Shown == IF dir = -1 \/ inhibit THEN {lit, FALSE} ELSE BOOLEAN

\* A byte: the head moves one on, towards the tail, and the waypoint byte is the last
\* that is inhibited.
Play ==
  /\ dir # 0 /\ head # tail
  /\ head' = head + dir
  /\ lit' \in Shown
  /\ waypoint' = IF waypoint > 0 THEN waypoint - 1 ELSE 0
  /\ inhibit' = (inhibit /\ waypoint # 1)
  /\ UNCHANGED <<fed, aimVars>>

\* Out of data: dark, and parked until the next request.
RunOut ==
  /\ dir # 0 /\ head = tail
  /\ dir' = 0 /\ waypoint' = 0 /\ lit' = FALSE
  /\ UNCHANGED <<fed, head, tail, inhibit>>

\* FIRE is put out, by a parked script or by the host, and by nobody lit.
Dim ==
  /\ lit' = FALSE
  /\ UNCHANGED <<fed, head, aimVars, waypoint, inhibit>>

-----------------------------------------------------------------------------
(* The host.                                                               *)

\* A write appends and publishes the new tail.
Feed ==
  /\ fed' = fed + 1 /\ tail' = fed + 1
  /\ UNCHANGED <<head, dir, waypoint, inhibit, lit>>

Clear ==
  /\ fed' = 0 /\ head' = 0 /\ tail' = 0
  /\ UNCHANGED <<dir, waypoint, inhibit, lit>>

\* A run request aims the script at one end of the data.
Aim ==
  /\ \/ dir' = 1 /\ tail' = fed
     \/ dir' = -1 /\ tail' = 0
  /\ waypoint' \in Nat /\ inhibit' \in BOOLEAN /\ lit' \in {lit, FALSE}
  /\ UNCHANGED <<fed, head>>

\* The inhibit of a request, in a transfer of its own.
Mask ==
  /\ inhibit' \in BOOLEAN
  /\ UNCHANGED <<fed, head, aimVars, waypoint, lit>>

PNext == Play \/ RunOut \/ Dim \/ Feed \/ Clear \/ Aim \/ Mask

PSpec == PInit /\ [][PNext]_playVars
=============================================================================
