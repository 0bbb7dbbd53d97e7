------------------------------ MODULE Thermal --------------------------------
(***************************************************************************)
(* The heat sources of src/thermal.c: the water heater's software PWM with *)
(* its timer, the TEC, the stores to both, and the two steps of            *)
(* thermal_make_safe(), which the dead man's chain and thermal_remove()    *)
(* take, possibly at the same time.  The timer callback runs in hard       *)
(* interrupt context: it is one step and comes between any two others.     *)
(***************************************************************************)
EXTENDS Naturals, MakeSafe

CONSTANTS
  Duties,         \* duty cycles written to heater_pwm
  HeaterDutyMax

ASSUME DutyAssumption == HeaterDutyMax \in Nat \ {0} /\ Duties \subseteq Nat

VARIABLES
  duty,           \* heater_duty_fraction
  heater, tec,    \* levels of the two pins
  thermal_at,     \* per caller: "idle", "pins" (duty zeroed, pins to go), "done"
  thermal_excused \* history, per caller: sources a store has turned on since it began

thermalVars == <<duty, heater, tec, thermal_at, thermal_excused>>

Sources == {"heater", "tec"}

ThermalTypeOK ==
  /\ duty \in 0..HeaterDutyMax
  /\ heater \in 0..1 /\ tec \in 0..1
  /\ thermal_at \in [Callers -> {"idle", "pins", "done"}]
  /\ thermal_excused \in [Callers -> SUBSET Sources]

ThermalInit ==
  /\ duty = 0 /\ heater = 0 /\ tec = 0
  /\ thermal_at = [c \in Callers |-> "idle"]
  /\ thermal_excused = [c \in Callers |-> {}]

Excuse(source) ==
  thermal_excused' = [c \in Callers |-> thermal_excused[c] \cup {source}]

\* heater_pwm_store(): the timer sees the duty cycle at its next callback.
HeaterPwmStore ==
  /\ duty' \in {d \in Duties : d <= HeaterDutyMax} /\ Excuse("heater")
  /\ UNCHANGED <<heater, tec, thermal_at>>

TecStore ==
  /\ tec' \in 0..1 /\ Excuse("tec")
  /\ UNCHANGED <<duty, heater, thermal_at>>

\* heater_pwm_timer_cb(): steady at the ends of the range, else the level it reads
\* back inverted.
NewLevel == CASE duty = 0 -> 0 [] duty = HeaterDutyMax -> 1 [] OTHER -> 1 - heater

HeaterTimer ==
  /\ heater' = NewLevel
  /\ UNCHANGED <<duty, tec, thermal_at, thermal_excused>>

\* thermal_make_safe(): the duty cycle first, so that the timer holds the pin ...
Mut_SafeDuty(c) ==
  /\ thermal_at[c] # "pins"
  /\ thermal_at' = [thermal_at EXCEPT ![c] = "pins"]
  /\ thermal_excused' = [thermal_excused EXCEPT ![c] = {}]
  /\ UNCHANGED <<duty, heater, tec>>
SafeDuty(c) ==
  /\ thermal_at[c] # "pins"
  /\ duty' = 0
  /\ thermal_at' = [thermal_at EXCEPT ![c] = "pins"]
  /\ thermal_excused' = [thermal_excused EXCEPT ![c] = {}]
  /\ UNCHANGED <<heater, tec>>

\* ... then thermal_safe_pin_changes.
SafePins(c) ==
  /\ thermal_at[c] = "pins"
  /\ heater' = 0 /\ tec' = 0
  /\ thermal_at' = [thermal_at EXCEPT ![c] = "done"]
  /\ UNCHANGED <<duty, thermal_excused>>

\* thermal_probe(): the data starts zeroed, and claiming the pins drives both low.
FreshDuty == duty' = 0 /\ UNCHANGED <<heater, tec, thermal_at, thermal_excused>>
ClaimPins == heater' = 0 /\ tec' = 0 /\ UNCHANGED <<duty, thermal_at, thermal_excused>>

ThermalNext ==
  \/ HeaterPwmStore \/ TecStore \/ HeaterTimer \/ FreshDuty \/ ClaimPins
  \/ \E c \in Callers : SafeDuty(c) \/ SafePins(c)

ThermalSpec == ThermalInit /\ [][ThermalNext]_thermalVars /\ WF_thermalVars(HeaterTimer)

-----------------------------------------------------------------------------
(* Properties.                                                             *)

\* Once the heat sources have been made safe they stay off, whatever phase of its
\* PWM the timer was in, until a store turns one on (thermal_make_safe()).
HeatStaysOff ==
  \A c \in Callers : thermal_at[c] = "done" =>
    /\ heater = 1 \/ duty # 0 => "heater" \in thermal_excused[c]
    /\ tec = 1 => "tec" \in thermal_excused[c]
=============================================================================
