------------------------------ MODULE Interlock ------------------------------
(***************************************************************************)
(* The remote-interlock latch of src/cnc_interlock.c: its policy, and the  *)
(* input handler that feeds it.  The input core is outside src/ and is     *)
(* modelled as the handler uses it: connects and disconnects come one at a *)
(* time, an event reaches a handle from its open to its close, and an EV_SW*)
(* event is only sent when the switch changes.                             *)
(*                                                                         *)
(* event_lock and il->lock make a delivery, and the snapshot with its      *)
(* attach, one step each.  Events of other types and codes return at once. *)
(***************************************************************************)
EXTENDS Integers, FiniteSets

CONSTANT Devices   \* input devices that expose the interlock switch

None == "none"

ASSUME DevicesAssumption == IsFiniteSet(Devices) /\ None \notin Devices

VARIABLES
  handler,    \* "off", "on" or "leaving" (unregistering)
  phase,      \* per device: where its connect or disconnect is
  sw,         \* per device: the input core's switch state, TRUE = loop open
  attached, loop_open, level,    \* struct cnc_interlock
  last        \* history: the device whose reading loop_open is

ilVars == <<attached, loop_open, level>>
interlockVars == <<handler, phase, sw, ilVars, last>>

\* Connecting up to the open, counted, and disconnecting after the close.
Phases == {"absent", "opened", "attached", "closed"}
Counted == {d \in Devices : phase[d] \in {"attached", "closed"}}
Listening(d) == phase[d] \in {"opened", "attached"}
InTransit == \E d \in Devices : phase[d] \in {"opened", "closed"}

InterlockTypeOK ==
  /\ handler \in {"off", "on", "leaving"}
  /\ phase \in [Devices -> Phases]
  /\ sw \in [Devices -> BOOLEAN]
  /\ attached \in Nat /\ loop_open \in BOOLEAN /\ level \in {0, 1}
  /\ last \in Devices \cup {None}

\* cnc_interlock_level(), for the values the fields are about to have.
Mut_AttachedIgnored(n, open) == IF open THEN 1 ELSE 0
Level(n, open) == IF n > 0 /\ ~open THEN 0 ELSE 1

Apply(n, open) ==
  /\ attached' = n /\ loop_open' = open
  /\ level' = Level(n, open)

\* cnc_interlock_init() drives the line once, before the handler exists.
InterlockInit ==
  /\ handler = "off"
  /\ phase = [d \in Devices |-> "absent"]
  /\ sw \in [Devices -> BOOLEAN]
  /\ attached = 0 /\ loop_open = TRUE /\ level = Level(0, TRUE)
  /\ last = None

Register ==
  /\ handler = "off"
  /\ handler' = "on"
  /\ UNCHANGED <<phase, sw, ilVars, last>>

\* input_register_handle() and input_open_device(); when one fails the device
\* stays unconnected.
Open(d) ==
  /\ handler = "on" /\ phase[d] = "absent" /\ ~InTransit
  /\ phase' = [phase EXCEPT ![d] = "opened"]
  /\ UNCHANGED <<handler, sw, ilVars, last>>

\* The snapshot and the attach.
Mut_NoSnapshot(d) == loop_open
Snapshot(d) == sw[d]

Attach(d) ==
  /\ phase[d] = "opened"
  /\ phase' = [phase EXCEPT ![d] = "attached"]
  /\ Apply(attached + 1, Snapshot(d))
  /\ last' = d
  /\ UNCHANGED <<handler, sw>>

\* The loop changes; the core tells the handles that are open.
Edge(d) ==
  /\ sw' = [sw EXCEPT ![d] = ~sw[d]]
  /\ IF Listening(d)
     THEN /\ Apply(attached, ~sw[d])
          /\ last' = d
     ELSE UNCHANGED <<ilVars, last>>
  /\ UNCHANGED <<handler, phase>>

\* The device goes away, or the handler is being unregistered.
Close(d) ==
  /\ phase[d] = "attached" /\ ~InTransit
  /\ phase' = [phase EXCEPT ![d] = "closed"]
  /\ UNCHANGED <<handler, sw, ilVars, last>>

OneLess == IF attached > 0 THEN attached - 1 ELSE attached

Detach(d) ==
  /\ phase[d] = "closed"
  /\ phase' = [phase EXCEPT ![d] = "absent"]
  /\ Apply(OneLess, loop_open)
  /\ UNCHANGED <<handler, sw, last>>

\* cnc_interlock_unregister(): every handle is disconnected, then it is over.
Unregister ==
  /\ handler = "on" /\ ~InTransit
  /\ handler' = "leaving"
  /\ UNCHANGED <<phase, sw, ilVars, last>>

Unregistered ==
  /\ handler = "leaving" /\ \A d \in Devices : phase[d] = "absent"
  /\ handler' = "off"
  /\ UNCHANGED <<phase, sw, ilVars, last>>

InterlockNext ==
  \/ Register \/ Unregister \/ Unregistered
  \/ \E d \in Devices : Open(d) \/ Attach(d) \/ Edge(d) \/ Close(d) \/ Detach(d)

\* A disconnect that has begun runs to its end, one handle after the other.
Disconnect ==
  \/ Unregistered
  \/ \E d \in Devices : Attach(d) \/ Detach(d) \/ (handler = "leaving" /\ Close(d))

InterlockSpec == InterlockInit /\ [][InterlockNext]_interlockVars /\ WF_interlockVars(Disconnect)

-----------------------------------------------------------------------------
\* The policy's count is the number of handles between their attach and their
\* detach, through connects, edges and disconnects of several devices.
CountsHandles == attached = Cardinality(Counted)

\* cnc_interlock.h: the line is held "whenever no switch device reports the
\* loop at all"; in particular it "is left in the blocked state" by an
\* unregister.
BlockedWhenAlone == Counted = {} => level = 1

\* No edge is lost: while the device that spoke last is attached, the line is
\* what its switch says now, also when the switch moved during its connect.
LatestReadingRules ==
  last # None /\ phase[last] = "attached" => level = (IF sw[last] THEN 1 ELSE 0)

\* An unregister ends with the line blocked, whatever the loop does meanwhile.
UnregisterBlocks == handler = "leaving" ~> handler = "off" /\ level = 1
==============================================================================
