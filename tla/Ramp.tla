-------------------------------- MODULE Ramp --------------------------------
(***************************************************************************)
(* The speed of a run, in Hz: the step frequency and ramp rate attributes, *)
(* and the controlled acceleration and deceleration of src/cnc.c.  The     *)
(* distance a deceleration covers is measured against the tail that        *)
(* cnc_backtrack.h holds back for it.                                      *)
(*                                                                         *)
(* One step is one ramp update interval (10 ms), during which the script   *)
(* plays hz/100 bytes; tail is therefore in hundredths of a byte.  A       *)
(* deceleration that begins within an interval restarts the timer, so it   *)
(* begins an interval.  The divider's rounding in the EPIT is left out.    *)
(***************************************************************************)
EXTENDS Integers, Backtrack

CONSTANTS
  Freqs,   \* values written to step_freq
  Rates    \* values written to ramp_rate

ASSUME RampAssumption == Freqs \subseteq Nat /\ Rates \subseteq Nat

MinHz == 900                 \* RAMP_MIN_STEP_FREQUENCY
MinFreq == 1000              \* STEP_FREQUENCY_MIN, _MAX
MaxFreq == 200000
MinRate == 10000             \* RAMP_RATE_MIN_HZ_PER_S, _MAX_
MaxRate == 500000
UpdatesPerSec == 100         \* RAMP_UPDATES_PER_SEC
DefaultFreq == 10000
DefaultRate == 125000

VARIABLES
  step_freq, delta,    \* the attributes; delta is ramp_step_freq_delta
  ramp_step_freq,
  hz,                  \* EPIT rate; 0: no run
  accelerating, decelerating,
  tail                 \* history: what the deceleration has played

attrVars == <<step_freq, delta>>
flagVars == <<accelerating, decelerating>>
vars == <<attrVars, ramp_step_freq, hz, flagVars, tail>>

\* cnc_get_ramp_rate_hz_per_s()
Rate == delta * UpdatesPerSec

TypeOK ==
  /\ step_freq \in MinFreq..MaxFreq
  /\ delta \in Nat /\ Rate \in MinRate..MaxRate
  /\ ramp_step_freq \in MinHz..MaxFreq
  /\ hz \in 0..MaxFreq
  /\ accelerating \in BOOLEAN /\ decelerating \in BOOLEAN
  /\ tail \in Nat

Init ==
  /\ step_freq = DefaultFreq /\ delta = DefaultRate \div UpdatesPerSec
  /\ ramp_step_freq = DefaultFreq
  /\ hz = 0 /\ tail = 0
  /\ accelerating = FALSE /\ decelerating = FALSE

\* Mutants of the definitions below stand before them, named Mut_*.
FreqAccepted(f) == f \in MinFreq..MaxFreq /\ hz = 0
RateAccepted(r) == r \in MinRate..MaxRate /\ hz = 0

SetStepFrequency(f) ==
  /\ FreqAccepted(f)
  /\ step_freq' = f /\ ramp_step_freq' = f /\ tail' = 0
  /\ UNCHANGED <<delta, hz, flagVars>>

SetRampRate(r) ==
  /\ RateAccepted(r)
  /\ delta' = r \div UpdatesPerSec /\ tail' = 0
  /\ UNCHANGED <<step_freq, ramp_step_freq, hz, flagVars>>

\* A run commits, at full speed or with an acceleration.
RunStart(accelerate) ==
  /\ hz = 0
  /\ hz' = IF accelerate THEN MinHz ELSE step_freq
  /\ ramp_step_freq' = IF accelerate THEN MinHz ELSE ramp_step_freq
  /\ accelerating' = accelerate
  /\ tail' = 0
  /\ UNCHANGED <<attrVars, decelerating>>

\* _cnc_decel_start(), by the stop command or a backtrack's waypoint.
Mut_DecelFromFullSpeed == step_freq
DecelFrom == IF accelerating THEN ramp_step_freq ELSE step_freq

Mut_DecelAgain == hz # 0
DecelMayStart == hz # 0 /\ ~decelerating

DecelStart ==
  /\ DecelMayStart
  /\ ramp_step_freq' = DecelFrom
  /\ accelerating' = FALSE /\ decelerating' = TRUE
  /\ UNCHANGED <<attrVars, hz, tail>>

\* _driver_stop(), on any path.
DriverStop ==
  /\ hz' = 0
  /\ accelerating' = FALSE /\ decelerating' = FALSE

Stop ==
  /\ hz # 0
  /\ DriverStop
  /\ UNCHANGED <<attrVars, ramp_step_freq, tail>>

\* ramp_update_tasklet_fn() at the end of an interval.
RampDown == IF ramp_step_freq > MinHz + delta THEN ramp_step_freq - delta
                                              ELSE MinHz

Mut_Overshoot == ramp_step_freq + delta
RampUp == IF ramp_step_freq + delta >= step_freq THEN step_freq
                                                 ELSE ramp_step_freq + delta

DecelUpdate ==
  /\ decelerating
  /\ tail' = tail + hz
  /\ IF ramp_step_freq <= MinHz
     THEN DriverStop /\ UNCHANGED ramp_step_freq
     ELSE /\ ramp_step_freq' = RampDown /\ hz' = RampDown
          /\ UNCHANGED flagVars
  /\ UNCHANGED attrVars

AccelUpdate ==
  /\ accelerating /\ ~decelerating
  /\ ramp_step_freq' = RampUp /\ hz' = RampUp
  /\ accelerating' = (ramp_step_freq + delta < step_freq)
  /\ UNCHANGED <<attrVars, decelerating, tail>>

Next ==
  \/ \E f \in Freqs : SetStepFrequency(f)
  \/ \E r \in Rates : SetRampRate(r)
  \/ \E accelerate \in BOOLEAN : RunStart(accelerate)
  \/ DecelStart \/ Stop \/ DecelUpdate \/ AccelUpdate

Spec == Init /\ [][Next]_vars

-----------------------------------------------------------------------------
\* While a run lasts its speed stays between the ramp minimum and the step
\* frequency: no underflow of the decrement, no overshoot of the increment.
SpeedBounded == hz # 0 => hz \in MinHz..step_freq

\* The limits of the speed and of what it is computed from.
Inv == TypeOK /\ SpeedBounded

\* cnc.c, at both ramp starts: "Don't suddenly jump the step frequency".  A run
\* under way changes speed by at most one ramp increment per update, whatever
\* order its acceleration, its waypoint and a stop command come in.
SpeedNeverJumps ==
  [][hz # 0 /\ hz' # 0 => hz' - hz \in (0 - delta)..delta]_vars

Budget == 100 * DecelTail(step_freq, Rate)

\* A deceleration plays at most its budget, plus one interval at the full speed
\* (the ramp holds each speed for a whole interval, v^2/2a is the continuous
\* sum), one at the minimum, and the byte that the integer division drops.
TailNearBudget == tail <= Budget + step_freq + MinHz + 100

\* tests/backtrack_test.c: the tail is held back, "so a run that is allowed
\* always ramps down instead of hitting the dead stop"; that needs the budget
\* to cover what the deceleration plays.
TailWithinBudget == tail <= Budget
=============================================================================
