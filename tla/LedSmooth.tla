------------------------------ MODULE LedSmooth ------------------------------
(***************************************************************************)
(* The "smooth" LED trigger of src/ledtrig_smooth.c on one LED: the pulse  *)
(* counter, the spring simulation in 20.12 fixed point, the four           *)
(* attributes, the 20 ms timer, and activation and deactivation.           *)
(*                                                                         *)
(* data->lock makes one store's locked section, and one timer callback, a  *)
(* step.  A store enters (sysfs holds the attribute for it) before it gets *)
(* the lock, and the timer is dequeued before its callback does; both can  *)
(* be caught there by a deactivation.  External: sysfs, the timer core and *)
(* the LED core, as the trigger uses them.                                 *)
(***************************************************************************)
EXTENDS Integers

CONSTANTS
  Writers,      \* tasks that write the attributes
  Targets,      \* set-points written to "target"
  Speeds,       \* numbers written to "speed"
  Periods,      \* pulse periods written, in timer ticks
  Levels,       \* brightness of the LED when the trigger is set
  MaxTunes,     \* bound: stores to target and speed
  MaxStores     \* bound: stores of all kinds

\* What the PIC's LED registers and the attributes may hold.
RawLevels == 0..1023
Brightness == 0..255

ASSUME LedAssumption ==
  /\ Targets \subseteq Nat /\ Speeds \subseteq Nat /\ Periods \subseteq Nat
  /\ Levels \subseteq RawLevels

VARIABLES
  life,         \* "off", "on", or how far smooth_deactivate() has come
  inflight,     \* writers inside a store, before the lock
  pending,      \* the timer is queued
  firing,       \* the timer was dequeued, its callback waits for the lock
  sim,          \* struct ledtrig_smooth_data: parameters and state
  led,          \* brightness last given to the LED core
  wanted,       \* history: the set-point last asked for, by a store or a pulse
  tunes, stores \* history: stores so far

dataVars == <<sim, led, wanted>>
vars == <<life, inflight, pending, firing, dataVars, tunes, stores>>

-----------------------------------------------------------------------------
(* Fixed point: 20.12, on integers that hold the raw 32-bit value. *)

One == 4096
Fixed(i) == i * One
IPart(x) == x \div One

\* fixmul() goes through 64 bits; the partial products are summed here after
\* the shift, which gives the same floor and stays within 32 bits.
FixMul(x, y) ==
  LET xi == x \div One  xf == x % One  yi == y \div One  yf == y % One
  IN  xi * y + xf * yi + (xf * yf) \div One

Half(x) == x \div 2
dt == 81           \* 0.020 s
epsilon == 256     \* 0.0625
SpeedMax == 160
Within(x, y) == LET d == x - y IN d <= epsilon /\ -d <= epsilon

\* Gamma 2.2, from 8-bit values to the LED's 10 bits.
correction_table == <<
  0, 0, 0, 0, 0, 0, 0, 0, 0, 0, 0, 1, 1, 1, 1, 2, 2, 2, 2, 3, 3, 4, 4, 5, 5,
  6, 6, 7, 7, 8, 9, 9, 10, 11, 12, 12, 13, 14, 15, 16, 17, 18, 19, 20, 21,
  22, 23, 24, 25, 27, 28, 29, 30, 32, 33, 35, 36, 37, 39, 40, 42, 43, 45, 47,
  48, 50, 52, 54, 55, 57, 59, 61, 63, 65, 67, 69, 71, 73, 75, 77, 79, 82, 84,
  86, 88, 91, 93, 96, 98, 100, 103, 106, 108, 111, 113, 116, 119, 122, 124,
  127, 130, 133, 136, 139, 142, 145, 148, 151, 154, 157, 160, 164, 167, 170,
  174, 177, 180, 184, 187, 191, 194, 198, 202, 205, 209, 213, 216, 220, 224,
  228, 232, 236, 240, 244, 248, 252, 256, 260, 264, 269, 273, 277, 282, 286,
  290, 295, 299, 304, 309, 313, 318, 323, 327, 332, 337, 342, 347, 351, 356,
  361, 366, 371, 377, 382, 387, 392, 397, 403, 408, 413, 419, 424, 430, 435,
  441, 446, 452, 458, 463, 469, 475, 481, 487, 493, 498, 504, 510, 517, 523,
  529, 535, 541, 547, 554, 560, 566, 573, 579, 586, 592, 599, 606, 612, 619,
  626, 632, 639, 646, 653, 660, 667, 674, 681, 688, 695, 702, 710, 717, 724,
  731, 739, 746, 754, 761, 769, 776, 784, 792, 799, 807, 815, 823, 830, 838,
  846, 854, 862, 870, 878, 887, 895, 903, 911, 920, 928, 936, 945, 953, 962,
  970, 979, 988, 996, 1005, 1014, 1023 >>

Corrected(v) == correction_table[(IF v < 0 THEN 0 ELSE IF v > 255 THEN 255 ELSE v) + 1]

\* value_from_raw_brightness(): the binary search of the table.
ValueFromRaw(raw) ==
  LET probe[s \in 0..256, e \in 0..256, last \in 0..256] ==
        LET mid == s + (e - s) \div 2
            d == raw - correction_table[mid + 1]
        IN  IF s >= e THEN last
            ELSE IF d < 0 THEN probe[s, mid, mid]
            ELSE IF d > 0 THEN probe[mid + 1, e, mid]
            ELSE mid
  IN  probe[0, 256, 0]

\* The search stays within the table: a fact of the 1024 brightness values.
ASSUME TableAssumption == \A raw \in RawLevels : ValueFromRaw(raw) \in Brightness

-----------------------------------------------------------------------------
(* The simulation. *)

Pulsing(s) == s.on # 0 /\ s.off # 0

\* update_pulser()
Mut_UpdatePulser(s) ==
  IF ~Pulsing(s) THEN s
  ELSE IF s.counter = 0 THEN [s EXCEPT !.target = Fixed(255)]
  ELSE IF s.counter = s.on THEN [s EXCEPT !.target = 0, !.counter = 1 - s.off]
  ELSE [s EXCEPT !.counter = @ + 1]
UpdatePulser(s) ==
  IF ~Pulsing(s) THEN s
  ELSE IF s.counter = 0 THEN [s EXCEPT !.target = Fixed(255), !.counter = 1]
  ELSE IF s.counter = s.on THEN [s EXCEPT !.target = 0, !.counter = 1 - s.off]
  ELSE [s EXCEPT !.counter = @ + 1]

\* set_pulse_periods()
Mut_NoClamp(s, on, off) ==
  [s EXCEPT !.on = on, !.off = off,
            !.counter = IF on = 0 \/ off = 0 THEN 0 ELSE @]
SetPulsePeriods(s, on, off) ==
  LET held == IF on # 0 /\ s.counter > on THEN on
              ELSE IF off # 0 /\ s.counter < -off THEN 1 - off
              ELSE s.counter
  IN  [s EXCEPT !.on = on, !.off = off,
                !.counter = IF on = 0 \/ off = 0 THEN 0 ELSE held]

Spring(s) == FixMul(s.c, s.c) \div 4

\* One velocity Verlet step of the critically damped spring.
Integrate(s) ==
  LET accel == FixMul(s.target - s.value, Spring(s)) - FixMul(s.c, s.velocity)
      half  == s.velocity + FixMul(Half(s.accel), dt)
  IN  [s EXCEPT !.value = @ + FixMul(half, dt),
                !.velocity = half + FixMul(Half(accel), dt),
                !.accel = accel]

Arrived(s) == Within(s.target, s.value) /\ ~Pulsing(s)

\* An arrival takes the value reached for the target and stops the spring.
Rest(s) == [s EXCEPT !.target = s.value, !.velocity = 0, !.accel = 0]

\* timestep_locked(): the step, the LED, and the timer unless it has arrived.
\* An arrival leaves a timer that is already queued alone.
StepFrom(s, asked) ==
  \E pulsed \in {UpdatePulser(s)} : \E moved \in {Integrate(pulsed)} :
    /\ sim' = IF Arrived(moved) THEN Rest(moved) ELSE moved
    /\ led' = Corrected(IPart(moved.value))
    /\ pending' = (pending \/ ~Arrived(moved))
    /\ wanted' = IF pulsed.target # s.target THEN IPart(pulsed.target) ELSE asked

-----------------------------------------------------------------------------
(* Activation, the stores, the timer. *)

\* smooth_activate(), at the brightness the LED was given while it had no
\* trigger; the attributes come last.
NewData(raw) ==
  LET v == Fixed(ValueFromRaw(raw))
  IN  [target |-> v, c |-> Fixed(16), on |-> 0, off |-> 0,
       value |-> v, velocity |-> 0, accel |-> 0, counter |-> 0]

Init ==
  /\ life = "off" /\ inflight = {}
  /\ pending = FALSE /\ firing = FALSE
  /\ led = 0 /\ sim = NewData(led) /\ wanted = IPart(sim.target)
  /\ tunes = 0 /\ stores = 0

Activate ==
  /\ life = "off"
  /\ life' = "on"
  /\ led' \in Levels
  /\ sim' = NewData(led') /\ wanted' = IPart(sim'.target)
  /\ UNCHANGED <<inflight, pending, firing, tunes, stores>>

\* sysfs lets a store in while the attributes exist, and counts it.
Enter(w) ==
  /\ life = "on" /\ w \notin inflight
  /\ stores < MaxStores
  /\ inflight' = inflight \cup {w}
  /\ stores' = stores + 1
  /\ UNCHANGED <<life, pending, firing, dataVars, tunes>>

Leave(w) ==
  /\ w \in inflight
  /\ inflight' = inflight \ {w}
  /\ UNCHANGED <<life, firing, stores>>

\* Every store wakes up the simulation with a step of its own.
TargetStore(w) ==
  /\ Leave(w)
  /\ tunes < MaxTunes /\ tunes' = tunes + 1
  /\ \E t \in Targets :
       /\ t <= 255
       /\ StepFrom([sim EXCEPT !.target = Fixed(t)], t)

\* A speed n is a damping constant of n/4.
SpeedStore(w) ==
  /\ Leave(w)
  /\ tunes < MaxTunes /\ tunes' = tunes + 1
  /\ \E n \in Speeds :
       /\ n # 0 /\ n <= SpeedMax
       /\ StepFrom([sim EXCEPT !.c = n * 1024], wanted)

\* pulse_on_store() and pulse_off_store(): no step when the pulsing is off.
Mut_SetPeriods(s) ==
  /\ sim' = s
  /\ UNCHANGED <<led, wanted, pending>>
SetPeriods(s) ==
  IF Pulsing(s) THEN StepFrom(s, wanted)
  ELSE sim' = s /\ UNCHANGED <<led, wanted, pending>>

PulseStore(w) ==
  /\ Leave(w)
  /\ \E p \in Periods : \/ SetPeriods(SetPulsePeriods(sim, p, sim.off))
                        \/ SetPeriods(SetPulsePeriods(sim, sim.on, p))
  /\ UNCHANGED tunes

\* A store that fails to parse its number, or finds it out of range.
RefusedStore(w) ==
  /\ Leave(w)
  /\ UNCHANGED <<dataVars, pending, tunes>>

\* The timer core takes the timer off its queue, then calls smooth_timer_cb().
Expire ==
  /\ pending /\ ~firing
  /\ pending' = FALSE /\ firing' = TRUE
  /\ UNCHANGED <<life, inflight, dataVars, tunes, stores>>

Fire ==
  /\ firing
  /\ firing' = FALSE
  /\ StepFrom(sim, wanted)
  /\ UNCHANGED <<life, inflight, tunes, stores>>

\* smooth_deactivate(): the attributes go first, and with them every store ...
StartDeactivate ==
  /\ life = "on"
  /\ life' = "no attributes"
  /\ UNCHANGED <<inflight, pending, firing, dataVars, tunes, stores>>

DrainStores ==
  /\ life = "no attributes" /\ inflight = {}
  /\ life' = "drained"
  /\ UNCHANGED <<inflight, pending, firing, dataVars, tunes, stores>>

\* ... then the timer, with a callback that runs, ...
Mut_DeleteTimer ==
  /\ life = "drained"
  /\ life' = "no timer" /\ pending' = FALSE
  /\ UNCHANGED <<inflight, firing, dataVars, tunes, stores>>
DeleteTimer ==
  /\ life = "drained" /\ ~firing
  /\ life' = "no timer" /\ pending' = FALSE
  /\ UNCHANGED <<inflight, firing, dataVars, tunes, stores>>

\* ... and the data last; the LED core then switches the LED off.
Free ==
  /\ life = "no timer"
  /\ life' = "off" /\ led' = 0
  /\ UNCHANGED <<inflight, pending, firing, sim, wanted, tunes, stores>>

Timer == Expire \/ Fire

Next ==
  \/ Activate \/ Timer
  \/ \E w \in Writers : \/ Enter(w) \/ TargetStore(w) \/ SpeedStore(w)
                        \/ PulseStore(w) \/ RefusedStore(w)
  \/ StartDeactivate \/ DrainStores \/ DeleteTimer \/ Free

\* The timer of an armed trigger expires and its callback runs.
Spec == Init /\ [][Next]_vars /\ WF_vars(Timer)

-----------------------------------------------------------------------------
(* Properties. *)

Idle == life = "on" /\ ~pending /\ ~firing

\* No store that is inside its handler, no queued timer and no callback is left
\* when the data are freed: each would touch them (smooth_deactivate()).
NothingOnFreedData == life = "off" => inflight = {} /\ ~pending /\ ~firing

\* No lost wake-up: with no timer on its way the LED is at rest and nothing pulses,
\* so no fade and no pulse stops half way; and it rests within the tolerance of the
\* set-point last asked for, however often the simulation has taken its own value
\* for the set-point.
RestsNearWanted ==
  Idle => /\ sim.target = sim.value /\ sim.velocity = 0 /\ sim.accel = 0
          /\ ~Pulsing(sim)
          /\ Within(Fixed(wanted), sim.value)

\* The counter never gets past an end it is compared with for equality: what
\* is left of a phase is never more than the phase's period.
CounterInRange == -sim.off <= sim.counter /\ sim.counter <= sim.on

\* The speeds whose spring still moves an LED that stands just outside the
\* tolerance: from 6 on.  Below, what is left of its force there is rounded away.
PullingSpeeds ==
  {n \in 1..SpeedMax :
     FixMul(Half(FixMul(epsilon + 1, Spring([c |-> n * 1024]))), dt) > 0}
Pulls == \E n \in PullingSpeeds : sim.c = n * 1024


\* A pulsing LED goes dark again and again: the counter always meets the ends it
\* is compared with.
PulsesOn == (life = "on" /\ Pulsing(sim)) ~> (life # "on" \/ ~Pulsing(sim) \/ sim.target = 0)

\* The LED fades to the target value (header of ledtrig_smooth.c): at rest it
\* shows the brightness of the set-point last asked for.
ReachesTarget == Idle => led = Corrected(wanted)

\* The LED fades to the target at whatever speed it was given (header of
\* ledtrig_smooth.c): left alone the trigger comes to rest.
EveryFadeEnds == (life = "on") ~> (life # "on" \/ Idle \/ Pulsing(sim))
=============================================================================
