------------------------------ MODULE CncProofs ------------------------------
(***************************************************************************)
(* The safety of module Cnc for every number of callers, fault lines,      *)
(* bytes and speeds: one inductive invariant, the properties it gives, the *)
(* refinement of modules Lifecycle and Playback, and what must happen if   *)
(* the softirqs run.  At the end, by itself, the latch of the remote       *)
(* interlock (module Interlock), which the driver registers.               *)
(***************************************************************************)
EXTENDS Cnc, Interlock, FiniteSetTheorems, TLAPS

USE DEF history, port, Flashes, DriveLow, LinesLow

\* What keeps the beam off: FIRE is driven only with the latch released and
\* no controlled stop under way, and its bit is set only while running.
FireLink ==
  /\ fire_driven => ~latch_locked /\ ~decelerating
  /\ Emitting => state = "running"

\* FaultLatched, TickOnlyRunning and EmissionGate are not inductive alone: a
\* tick raises FIRE, so the ticking must be tied to the state (and the flags
\* of a ramp to the run), or a step could leave any one of them.
Control == FaultLatched /\ TickOnlyRunning /\ FlagsRunScoped /\ TimersArmed

IInv == TypeOK /\ Control /\ FireLink

-----------------------------------------------------------------------------
(* The type invariant.                                                     *)

\* The ramp stays between its minimum and the step frequency: the saturating
\* decrement and the capped increment never leave the range.
LEMMA RampBounds ==
  ASSUME TypeOK
  PROVE  RampDown \in 1..StepFreq /\ RampUp \in 1..StepFreq
BY BoundsAssumption DEF TypeOK, EngineTypes, RampDown, RampUp, RampMin

\* Every option record a request can carry, and the one no request carries.
LEMMA OptionTypes ==
  /\ ZeroOptions \in RunOptions
  /\ \A o \in RunOptions :
       /\ o.num_steps \in 0..MaxWaypoint
       /\ o.backward \in BOOLEAN /\ o.accelerate \in BOOLEAN
       /\ o.decelerate \in BOOLEAN
<1>1. ZeroOptions \in RunOptions
  BY DEF RunOptions, ZeroOptions
<1>2. ASSUME NEW o \in RunOptions PROVE o.num_steps \in 0..MaxWaypoint
  <2>1. MaxWaypoint \in Nat
    BY BoundsAssumption
  <2> QED
    BY <1>2, <2>1 DEF RunOptions
<1>3. ASSUME NEW o \in RunOptions
      PROVE  /\ o.backward \in BOOLEAN /\ o.accelerate \in BOOLEAN
             /\ o.decelerate \in BOOLEAN
  <2> PICK b \in BOOLEAN, a \in BOOLEAN,
           n \in {0} \cup (0..MaxWaypoint) \cup (1..MaxWaypoint) :
          o = [backward |-> b, accelerate |-> a, decelerate |-> b,
               num_steps |-> n]
    BY Zenon DEF RunOptions
  <2> QED
    OBVIOUS
<1> QED
  BY <1>1, <1>2, <1>3

\* A stop is counted for every caller, so both histories stay functions.
LEMMA StopTypes ==
  ASSUME CountStop
  PROVE  /\ moved' \in [Procs -> BOOLEAN]
<1>1. \A p \in Procs : (pc[p] \in RunPlaces) \in BOOLEAN
  OBVIOUS
<1> QED
  BY <1>1, Zenon DEF CountStop

\* A ramp update leaves the two speeds alone, stops, or sets both by RampBounds.
LEMMA RampTypes ==
  ASSUME TypeOK, RampUpdate
  PROVE  epit_hz' \in 0..StepFreq /\ ramp_step_freq' \in 1..StepFreq
<1>1. RampDown \in 1..StepFreq /\ RampUp \in 1..StepFreq
  BY RampBounds
<1>2. StepFreq \in Nat
  BY BoundsAssumption
<1>3. ramp_step_freq' \in {ramp_step_freq, RampDown, RampUp}
  BY DEF RampUpdate
<1>4. epit_hz' \in {epit_hz, 0, RampDown, RampUp}
  BY DEF RampUpdate, DriverStop, StopTicks
<1> QED
  BY <1>1, <1>2, <1>3, <1>4 DEF TypeOK, EngineTypes

\* The bounds, in the form the provers use.
LEMMA Bounds ==
  /\ MaxBytes \in Nat /\ MaxWaypoint \in Nat /\ StepFreq \in Nat
  /\ StepFreq > 1 /\ Renotify \in Nat /\ Renotify > 0
  /\ SupplyMayFail \in BOOLEAN
BY BoundsAssumption

\* The state that cnc_probe() leaves has the declared types.
LEMMA TypeInit == Init => TypeOK
<1> SUFFICES ASSUME Init PROVE TypeOK
  OBVIOUS
<1>1. DriverTypes
  BY DEF Init, DriverTypes, States
<1>2. EngineTypes
  <2>1. /\ head \in -1..(MaxBytes + 1) /\ tail \in 0..MaxBytes
        /\ fifo_in \in 0..MaxBytes /\ dir \in {-1, 0, 1}
    BY Bounds DEF Init
  <2>2. waypoint \in 0..MaxWaypoint /\ idle_ticks \in 0..(Renotify - 1)
    BY Bounds DEF Init
  <2>3. epit_hz \in 0..StepFreq /\ ramp_step_freq \in 1..StepFreq
    BY Bounds DEF Init
  <2> QED
    BY <2>1, <2>2, <2>3 DEF Init, EngineTypes
<1>3. CallTypes
  BY OptionTypes DEF Init, CallTypes, Places
<1> QED
  BY <1>1, <1>2, <1>3 DEF TypeOK

\* The driver's own variables keep their types.
LEMMA DriverTypesStep ==
  ASSUME TypeOK, [Next]_vars PROVE DriverTypes'
<1> USE DEF TypeOK
<1>1. CASE \E p \in Procs : \E o \in RunOptions : RunCheck(p, o)
  BY <1>1 DEF DriverTypes, RunCheck, statusVars, faultVars, timerVars, pinVars
<1>2. CASE \E p \in Procs : RunSnapshot(p) \/ RunEmpty(p)
  BY <1>2
    DEF DriverTypes, RunSnapshot, RunEmpty, statusVars, faultVars, timerVars,
        pinVars
<1>3. CASE \E p \in Procs : RunRegs(p) \/ RunInhibit(p)
  BY <1>3
    DEF DriverTypes, RunRegs, RunInhibit, statusVars, faultVars, timerVars,
        pinVars
<1>4. CASE \E p \in Procs : RunPower(p) \/ EnablePower(p)
  <2>1. /\ supply_on' \in BOOLEAN /\ steppers_on' \in BOOLEAN
    BY <1>4 DEF DriverTypes, RunPower, EnablePower, PowerOn
  <2>2. UNCHANGED <<statusVars, streaming, faultVars, timerVars, latch_locked,
          fire_driven, port>>
    BY <1>4 DEF RunPower, EnablePower, PowerOn
  <2> QED
    BY <2>1, <2>2 DEF DriverTypes, statusVars, faultVars, timerVars
<1>5. CASE \E p \in Procs : Commit(p) /\ RunCommit(p)
  <2> PICK p \in Procs : Commit(p) /\ RunCommit(p)
    BY <1>5
  <2>1. /\ state' \in States /\ waypoint_armed' \in BOOLEAN
    BY DEF DriverTypes, Commit, States
  <2>2. /\ running_backward' \in BOOLEAN
        /\ lead' \in BOOLEAN /\ stepped' \in BOOLEAN
        /\ decel_on_interrupt' \in BOOLEAN
    BY OptionTypes DEF DriverTypes, Commit, CallTypes
  <2>3. /\ fire_driven' \in BOOLEAN /\ fire_bit' \in BOOLEAN /\ flash' \in Flashes
        /\ pump_timer' \in BOOLEAN
    BY DEF DriverTypes, Commit
  <2>4. /\ accelerating' \in BOOLEAN /\ decelerating' \in BOOLEAN
        /\ ramp_timer' \in BOOLEAN
    BY DEF DriverTypes, Commit
  <2>5. UNCHANGED <<triggered_faults, latch_locked, supply_on, steppers_on,
          streaming, faultVars>>
    BY DEF Commit, RunCommit
  <2> QED
    BY <2>1, <2>2, <2>3, <2>4, <2>5 DEF DriverTypes, faultVars
<1>6. CASE \E p \in Procs : Refuse(p) /\ RunCommit(p)
  BY <1>6
    DEF DriverTypes, Refuse, RunCommit, statusVars, faultVars, timerVars,
        pinVars
<1>7. CASE \E p \in Procs : PowerOff(p)
  <2>1. /\ supply_on' \in BOOLEAN /\ steppers_on' \in BOOLEAN
        /\ latch_locked' \in BOOLEAN /\ fire_driven' \in BOOLEAN
    BY <1>7 DEF DriverTypes, PowerOff
  <2>2. UNCHANGED <<statusVars, streaming, faultVars, timerVars, port>>
    BY <1>7 DEF PowerOff
  <2> QED
    BY <2>1, <2>2 DEF DriverTypes, statusVars, faultVars, timerVars
<1>8. CASE \E p \in Procs : SupplyOff(p)
  <2>1. supply_on' \in BOOLEAN
    BY <1>8 DEF DriverTypes, SupplyOff
  <2>2. UNCHANGED <<statusVars, streaming, faultVars, timerVars, latch_locked,
          fire_driven, port, steppers_on>>
    BY <1>8 DEF SupplyOff
  <2> QED
    BY <2>1, <2>2 DEF DriverTypes, statusVars, faultVars, timerVars
<1>9. CASE \E p \in Procs : ZStepCheck(p) \/ ZStepPulse(p)
  BY <1>9
    DEF DriverTypes, ZStepCheck, ZStepPulse, statusVars, faultVars, timerVars,
        pinVars
<1>10. CASE \E p \in Procs : Stop(p)
  <2> PICK p \in Procs : Stop(p)
    BY <1>10
  <2>1. state' \in States
    BY DEF DriverTypes, Stop, States, DecelFrame
  <2>2. /\ accelerating' \in BOOLEAN /\ decelerating' \in BOOLEAN
    BY DEF DriverTypes, Stop, DecelStart
  <2>3. /\ ramp_timer' \in BOOLEAN /\ fire_driven' \in BOOLEAN
    BY DEF DriverTypes, Stop, DecelStart, timerVars, pinVars
  <2>4. UNCHANGED <<triggered_faults, decel_on_interrupt, waypoint_armed,
          running_backward, history, streaming, faultVars, pump_timer,
          latch_locked, port, supply_on, steppers_on>>
    BY DEF Stop, DecelFrame, timerVars, pinVars
  <2> QED
    BY <2>1, <2>2, <2>3, <2>4 DEF DriverTypes, faultVars
<1>11. CASE \E p \in Procs : Halt(p) \/ Disable(p)
  BY <1>11
    DEF DriverTypes, Halt, Disable, DriverStop, DropRunFlags, ParkOutputs,
        States, faultVars
<1>12. CASE \E p \in Procs : EnableCheck(p) \/ EnableCommit(p)
  BY <1>12
    DEF DriverTypes, EnableCheck, EnableCommit, States, faultVars, timerVars,
        pinVars
<1>13. CASE \E p \in Procs : SetStreaming(p)
  <2>1. streaming' \in BOOLEAN
    BY <1>13 DEF DriverTypes, SetStreaming
  <2>2. UNCHANGED <<statusVars, faultVars, timerVars, pinVars>>
    BY <1>13 DEF SetStreaming
  <2> QED
    BY <2>1, <2>2 DEF DriverTypes, statusVars, faultVars, timerVars, pinVars
<1>14. CASE \E p \in Procs : \E locked \in BOOLEAN : SetLaserLatch(p, locked)
  <2>1. latch_locked' \in BOOLEAN
    BY <1>14 DEF DriverTypes, SetLaserLatch
  <2>2. /\ fire_driven' \in BOOLEAN /\ fire_bit' \in BOOLEAN /\ flash' \in Flashes
    BY <1>14 DEF DriverTypes, SetLaserLatch
  <2>3. UNCHANGED <<statusVars, streaming, faultVars, timerVars, supply_on,
          steppers_on>>
    BY <1>14 DEF SetLaserLatch
  <2> QED
    BY <2>1, <2>2, <2>3 DEF DriverTypes, statusVars, faultVars, timerVars
<1>15. CASE \E p \in Procs : \E mask \in SUBSET Faults : SetIgnoredFaults(p, mask)
  BY <1>15 DEF DriverTypes, SetIgnoredFaults, statusVars, timerVars, pinVars
<1>16. CASE \E p \in Procs : Write(p) \/ Clear(p)
  BY <1>16
    DEF DriverTypes, Write, Clear, statusVars, faultVars, timerVars, pinVars
<1>17. CASE SdmaInterrupt
  <2>1. state' \in States
    BY <1>17 DEF DriverTypes, SdmaInterrupt, DriverStop, DecelFrame, States
  <2>2. /\ accelerating' \in BOOLEAN /\ decelerating' \in BOOLEAN
    BY <1>17
      DEF DriverTypes, SdmaInterrupt, DriverStop, DropRunFlags, DecelStart
  <2>3. /\ ramp_timer' \in BOOLEAN /\ fire_driven' \in BOOLEAN
    BY <1>17
      DEF DriverTypes, SdmaInterrupt, DriverStop, ParkOutputs, DecelStart,
          timerVars, pinVars
  <2>4. /\ decel_on_interrupt' \in BOOLEAN /\ waypoint_armed' \in BOOLEAN
    BY <1>17 DEF DriverTypes, SdmaInterrupt, DriverStop, DropRunFlags
  <2>5. /\ running_backward' \in BOOLEAN
        /\ lead' \in BOOLEAN /\ stepped' \in BOOLEAN
    BY <1>17
      DEF DriverTypes, SdmaInterrupt, DriverStop, DropRunFlags, DecelFrame
  <2>6. /\ latch_locked' \in BOOLEAN /\ steppers_on' \in BOOLEAN
        /\ fire_bit' \in BOOLEAN /\ flash' \in Flashes /\ supply_on' \in BOOLEAN
    BY <1>17
      DEF DriverTypes, SdmaInterrupt, DriverStop, ParkOutputs, DecelFrame,
          pinVars
  <2>7. UNCHANGED <<triggered_faults, streaming, faultVars, pump_timer>>
    BY <1>17 DEF SdmaInterrupt, DecelFrame, timerVars
  <2> QED
    BY <2>1, <2>2, <2>3, <2>4, <2>5, <2>6, <2>7 DEF DriverTypes, faultVars
<1>18. CASE RampUpdate
  <2>1. state' \in States
    BY <1>18 DEF DriverTypes, RampUpdate, DriverStop, States, statusVars
  <2>2. /\ accelerating' \in BOOLEAN /\ decelerating' \in BOOLEAN
        /\ ramp_timer' \in BOOLEAN
    BY <1>18 DEF DriverTypes, RampUpdate, DriverStop, DropRunFlags, statusVars
  <2>3. /\ decel_on_interrupt' \in BOOLEAN /\ waypoint_armed' \in BOOLEAN
    BY <1>18 DEF DriverTypes, RampUpdate, DriverStop, DropRunFlags, statusVars
  <2>4. /\ running_backward' \in BOOLEAN
        /\ lead' \in BOOLEAN /\ stepped' \in BOOLEAN
    BY <1>18 DEF DriverTypes, RampUpdate, DriverStop, DropRunFlags, statusVars
  <2>5. /\ latch_locked' \in BOOLEAN /\ fire_driven' \in BOOLEAN
        /\ fire_bit' \in BOOLEAN /\ flash' \in Flashes
    BY <1>18 DEF DriverTypes, RampUpdate, DriverStop, ParkOutputs, pinVars
  <2>6. /\ supply_on' \in BOOLEAN /\ steppers_on' \in BOOLEAN
    BY <1>18 DEF DriverTypes, RampUpdate, DriverStop, ParkOutputs, pinVars
  <2>7. UNCHANGED <<triggered_faults, streaming, faultVars, pump_timer>>
    BY <1>18 DEF RampUpdate, statusVars
  <2> QED
    BY <2>1, <2>2, <2>3, <2>4, <2>5, <2>6, <2>7 DEF DriverTypes, faultVars
<1>19. CASE ChargePump
  <2>1. pump_timer' \in BOOLEAN
    BY <1>19 DEF DriverTypes, ChargePump, PumpRestarts
  <2>2. UNCHANGED <<statusVars, streaming, faultVars, ramp_timer, pinVars>>
    BY <1>19 DEF ChargePump
  <2> QED
    BY <2>1, <2>2 DEF DriverTypes, statusVars, faultVars, pinVars
<1>20. CASE FaultTasklet
  <2>1. state' \in States
    BY <1>20 DEF DriverTypes, FaultTasklet, DriverStop, States
  <2>2. /\ accelerating' \in BOOLEAN /\ decelerating' \in BOOLEAN
    BY <1>20 DEF DriverTypes, FaultTasklet, DriverStop, DropRunFlags
  <2>3. /\ decel_on_interrupt' \in BOOLEAN /\ waypoint_armed' \in BOOLEAN
    BY <1>20 DEF DriverTypes, FaultTasklet, DriverStop, DropRunFlags
  <2>4. /\ running_backward' \in BOOLEAN
        /\ lead' \in BOOLEAN /\ stepped' \in BOOLEAN
    BY <1>20 DEF DriverTypes, FaultTasklet, DriverStop, DropRunFlags
  <2>5. /\ latch_locked' \in BOOLEAN /\ fire_driven' \in BOOLEAN
        /\ fire_bit' \in BOOLEAN /\ flash' \in Flashes
    BY <1>20 DEF DriverTypes, FaultTasklet, DriverStop, ParkOutputs, pinVars
  <2>6. /\ supply_on' \in BOOLEAN /\ steppers_on' \in BOOLEAN
    BY <1>20 DEF DriverTypes, FaultTasklet, DriverStop, ParkOutputs, pinVars
  <2>7. triggered_faults' \subseteq Faults /\ pending_faults' \subseteq Faults
    BY <1>20 DEF DriverTypes, FaultTasklet
  <2>8. UNCHANGED <<streaming, lines, ignored_faults, ramp_timer, pump_timer>>
    BY <1>20 DEF FaultTasklet
  <2> QED
    BY <2>1, <2>2, <2>3, <2>4, <2>5, <2>6, <2>7, <2>8 DEF DriverTypes
<1>21. CASE \E f \in Faults : FaultEdge(f) \/ FaultRelease(f)
  BY <1>21
    DEF DriverTypes, FaultEdge, FaultRelease, statusVars, timerVars, pinVars
<1>22. CASE PlayByte
  <2>1. /\ fire_bit' \in BOOLEAN /\ flash' \in Flashes
        /\ lead' \in BOOLEAN /\ stepped' \in BOOLEAN
    BY <1>22 DEF DriverTypes, PlayByte, StepByte, PowerByte, LaserShown
  <2>2. UNCHANGED <<state, triggered_faults, accelerating, decelerating,
          decel_on_interrupt, waypoint_armed, running_backward, streaming,
          faultVars, ramp_timer, pump_timer, latch_locked, fire_driven,
          supply_on, steppers_on>>
    BY <1>22 DEF PlayByte, timerVars
  <2> QED
    BY <2>1, <2>2 DEF DriverTypes, faultVars
<1>23. CASE EndOfData \/ Parked
  <2>1. fire_bit' \in BOOLEAN /\ flash' \in Flashes
    BY <1>23 DEF DriverTypes, EndOfData, Parked
  <2>2. UNCHANGED <<statusVars, streaming, faultVars, timerVars, latch_locked,
          fire_driven, supply_on, steppers_on>>
    BY <1>23 DEF EndOfData, Parked
  <2> QED
    BY <2>1, <2>2 DEF DriverTypes, statusVars, faultVars, timerVars
<1>24. CASE UNCHANGED vars
  BY <1>24
    DEF DriverTypes, vars, statusVars, faultVars, timerVars, ringVars,
        signalVars, pinVars, callVars
<1> QED
  BY <1>1, <1>2, <1>3, <1>4, <1>5, <1>6, <1>7, <1>8, <1>9, <1>10, <1>11,
     <1>12, <1>13, <1>14, <1>15, <1>16, <1>17, <1>18, <1>19, <1>20, <1>21,
     <1>22, <1>23, <1>24 DEF Next, Command, Continue, Softirq, Tick, RunCommit

\* The engine's variables stay in range; the speed by RampBounds.
LEMMA EngineTypesStep ==
  ASSUME TypeOK, [Next]_vars PROVE EngineTypes'
<1> USE DEF TypeOK
<1>1. CASE \E p \in Procs : \E o \in RunOptions : RunCheck(p, o)
  BY <1>1 DEF EngineTypes, RunCheck, timerVars, ringVars, signalVars
<1>2. CASE \E p \in Procs : RunSnapshot(p) \/ RunEmpty(p)
  BY <1>2
    DEF EngineTypes, RunSnapshot, RunEmpty, timerVars, ringVars, signalVars
<1>3. CASE \E p \in Procs : RunRegs(p)
  <2> PICK p \in Procs : RunRegs(p)
    BY <1>3
  <2>1. /\ tail' \in 0..MaxBytes /\ dir' \in {-1, 0, 1}
    BY Bounds DEF EngineTypes, RunRegs, Direction
  <2>2. waypoint' \in 0..MaxWaypoint
    BY OptionTypes DEF EngineTypes, RunRegs, CallTypes
  <2>3. UNCHANGED <<timerVars, fifo_in, head, inhibit, reg_fire, signalVars>>
    BY DEF RunRegs
  <2> QED
    BY <2>1, <2>2, <2>3 DEF EngineTypes, timerVars, signalVars
<1>4. CASE \E p \in Procs : RunInhibit(p)
  <2> PICK p \in Procs : RunInhibit(p)
    BY <1>4
  <2>1. inhibit' \in BOOLEAN
    BY OptionTypes DEF EngineTypes, RunInhibit, LaserInhibit, CallTypes
  <2>2. UNCHANGED <<timerVars, fifo_in, head, tail, dir, waypoint, reg_fire,
          signalVars>>
    BY DEF RunInhibit
  <2> QED
    BY <2>1, <2>2 DEF EngineTypes, timerVars, signalVars
<1>5. CASE \E p \in Procs : RunPower(p)
  BY <1>5 DEF EngineTypes, RunPower, MailboxAtStart, timerVars, ringVars
<1>6. CASE \E p \in Procs : Commit(p) /\ RunCommit(p)
  <2>1. /\ epit_hz' \in 0..StepFreq /\ ramp_step_freq' \in 1..StepFreq
    BY <1>6, Bounds DEF EngineTypes, Commit, RampMin
  <2>2. UNCHANGED <<ringVars, signalVars>>
    BY <1>6 DEF RunCommit
  <2> QED
    BY <2>1, <2>2 DEF EngineTypes, ringVars, signalVars
<1>7. CASE \E p \in Procs : Refuse(p) /\ RunCommit(p)
  BY <1>7 DEF EngineTypes, Refuse, RunCommit, timerVars, ringVars, signalVars
<1>8. CASE \E p \in Procs : PowerOff(p) \/ SupplyOff(p) \/ EnablePower(p)
  BY <1>8
    DEF EngineTypes, PowerOff, SupplyOff, EnablePower, timerVars, ringVars,
        signalVars
<1>9. CASE \E p \in Procs : Stop(p)
  <2>1. ramp_step_freq' \in 1..StepFreq
    BY <1>9, Bounds DEF EngineTypes, Stop, DecelStart, timerVars
  <2>2. UNCHANGED <<epit_hz, ringVars, signalVars>>
    BY <1>9 DEF Stop, DecelFrame, timerVars
  <2> QED
    BY <2>1, <2>2 DEF EngineTypes, ringVars, signalVars
<1>10. CASE \E p \in Procs : Halt(p) \/ Disable(p)
  <2>1. epit_hz' \in 0..StepFreq
    BY <1>10, Bounds DEF EngineTypes, Halt, Disable, DriverStop, StopTicks
  <2>2. UNCHANGED <<ramp_step_freq, ringVars, signalVars>>
    BY <1>10 DEF Halt, Disable
  <2> QED
    BY <2>1, <2>2 DEF EngineTypes, ringVars, signalVars
<1>11. CASE \E p \in Procs : EnableCheck(p) \/ EnableCommit(p)
  BY <1>11
    DEF EngineTypes, EnableCheck, EnableCommit, timerVars, ringVars,
        signalVars
<1>12. CASE \E p \in Procs : ZStepCheck(p) \/ ZStepPulse(p) \/ SetStreaming(p)
  BY <1>12
    DEF EngineTypes, ZStepCheck, ZStepPulse, SetStreaming, timerVars,
        ringVars, signalVars
<1>13. CASE \E p \in Procs : \E locked \in BOOLEAN : SetLaserLatch(p, locked)
  BY <1>13 DEF EngineTypes, SetLaserLatch, timerVars, ringVars, signalVars
<1>14. CASE \E p \in Procs : \E mask \in SUBSET Faults : SetIgnoredFaults(p, mask)
  BY <1>14 DEF EngineTypes, SetIgnoredFaults, timerVars, ringVars, signalVars
<1>15. CASE \E p \in Procs : Write(p) \/ Clear(p)
  <2>1. /\ fifo_in' \in 0..MaxBytes /\ head' \in -1..(MaxBytes + 1)
        /\ tail' \in 0..MaxBytes
    BY <1>15, Bounds DEF EngineTypes, Write, Clear
  <2>2. UNCHANGED <<timerVars, dir, waypoint, inhibit, reg_fire, signalVars>>
    BY <1>15 DEF Write, Clear
  <2> QED
    BY <2>1, <2>2 DEF EngineTypes, timerVars, signalVars
<1>16. CASE SdmaInterrupt
  <2>1. epit_hz' \in 0..StepFreq
    BY <1>16, Bounds
      DEF EngineTypes, SdmaInterrupt, DriverStop, StopTicks, DecelFrame,
          timerVars
  <2>2. ramp_step_freq' \in 1..StepFreq
    BY <1>16, Bounds DEF EngineTypes, SdmaInterrupt, DecelStart, timerVars
  <2>3. notify' \in BOOLEAN
    BY <1>16 DEF EngineTypes, SdmaInterrupt
  <2>4. UNCHANGED <<ringVars, mailbox, idle_ticks>>
    BY <1>16 DEF SdmaInterrupt, DecelFrame
  <2> QED
    BY <2>1, <2>2, <2>3, <2>4 DEF EngineTypes, ringVars
<1>17. CASE RampUpdate
  <2>1. /\ epit_hz' \in 0..StepFreq /\ ramp_step_freq' \in 1..StepFreq
    BY <1>17, RampTypes DEF EngineTypes
  <2>2. UNCHANGED <<ringVars, signalVars>>
    BY <1>17 DEF RampUpdate
  <2> QED
    BY <2>1, <2>2 DEF EngineTypes, ringVars, signalVars
<1>18. CASE ChargePump
  BY <1>18 DEF EngineTypes, ChargePump, ringVars, signalVars
<1>19. CASE FaultTasklet
  <2>1. epit_hz' \in 0..StepFreq
    BY <1>19, Bounds DEF EngineTypes, FaultTasklet, DriverStop, StopTicks
  <2>2. UNCHANGED <<ramp_step_freq, ringVars, signalVars>>
    BY <1>19 DEF FaultTasklet
  <2> QED
    BY <2>1, <2>2 DEF EngineTypes, ringVars, signalVars
<1>20. CASE \E f \in Faults : FaultEdge(f) \/ FaultRelease(f)
  BY <1>20
    DEF EngineTypes, FaultEdge, FaultRelease, timerVars, ringVars, signalVars
<1>21. CASE PlayByte
  <2>1. /\ head' \in -1..(MaxBytes + 1) /\ waypoint' \in 0..MaxWaypoint
    BY <1>21, Bounds DEF EngineTypes, PlayByte
  <2>2. /\ inhibit' \in BOOLEAN /\ notify' \in BOOLEAN /\ reg_fire' \in BOOLEAN
    BY <1>21 DEF EngineTypes, PlayByte, StepByte, PowerByte, LaserShown
  <2>3. UNCHANGED <<timerVars, fifo_in, tail, dir, mailbox, idle_ticks>>
    BY <1>21 DEF PlayByte
  <2> QED
    BY <2>1, <2>2, <2>3 DEF EngineTypes, timerVars
<1>22. CASE EndOfData
  <2>1. /\ dir' \in {-1, 0, 1} /\ waypoint' \in 0..MaxWaypoint
    BY <1>22, Bounds DEF EngineTypes, EndOfData
  <2>2. /\ mailbox' \in BOOLEAN /\ notify' \in BOOLEAN
        /\ idle_ticks' \in 0..(Renotify - 1)
    BY <1>22, Bounds DEF EngineTypes, EndOfData, MailboxAtEnd
  <2>4. reg_fire' \in BOOLEAN
    BY <1>22 DEF EndOfData
  <2>3. UNCHANGED <<timerVars, fifo_in, head, tail, inhibit>>
    BY <1>22 DEF EndOfData
  <2> QED
    BY <2>1, <2>2, <2>3, <2>4 DEF EngineTypes, timerVars
<1>23. CASE Parked
  <2>1. idle_ticks' \in 0..(Renotify - 1)
    BY <1>23, Bounds DEF EngineTypes, Parked
  <2>2. notify' \in BOOLEAN /\ reg_fire' \in BOOLEAN
    BY <1>23 DEF EngineTypes, Parked
  <2>3. UNCHANGED <<timerVars, fifo_in, head, tail, dir, waypoint, inhibit,
          mailbox>>
    BY <1>23 DEF Parked
  <2> QED
    BY <2>1, <2>2, <2>3 DEF EngineTypes, timerVars
<1>24. CASE UNCHANGED vars
  BY <1>24
    DEF EngineTypes, vars, statusVars, faultVars, timerVars, ringVars,
        signalVars, pinVars, callVars
<1> QED
  BY <1>1, <1>2, <1>3, <1>4, <1>5, <1>6, <1>7, <1>8, <1>9, <1>10, <1>11,
     <1>12, <1>13, <1>14, <1>15, <1>16, <1>17, <1>18, <1>19, <1>20, <1>21,
     <1>22, <1>23, <1>24 DEF Next, Command, Continue, Softirq, Tick, RunCommit

\* The callers' variables keep their types.
LEMMA CallTypesStep ==
  ASSUME TypeOK, [Next]_vars PROVE CallTypes'
<1> USE DEF TypeOK
<1>1. CASE \E p \in Procs : \E o \in RunOptions : RunCheck(p, o)
  BY <1>1, OptionTypes DEF CallTypes, RunCheck, Goto, Places
<1>2. CASE \E p \in Procs : RunSnapshot(p)
  BY <1>2 DEF CallTypes, RunSnapshot, Goto, Places
<1>3. CASE \E p \in Procs : RunEmpty(p)
  <2>1. pc' \in [Procs -> Places]
    BY <1>3 DEF CallTypes, RunEmpty, LeaveRun, Goto, Places
  <2>2. opts' \in [Procs -> RunOptions]
    BY <1>3, OptionTypes DEF CallTypes, RunEmpty, LeaveRun
  <2>3. /\ was_powered' \in [Procs -> BOOLEAN]
        /\ moved' \in [Procs -> BOOLEAN]
    BY <1>3 DEF CallTypes, RunEmpty, LeaveRun
  <2>4. UNCHANGED <<lock>>
    BY <1>3 DEF RunEmpty
  <2> QED
    BY <2>1, <2>2, <2>3, <2>4 DEF CallTypes
<1>4. CASE \E p \in Procs : RunRegs(p)
  <2>1. /\ pc' \in [Procs -> Places] /\ lock' \in Procs \cup {Free}
    BY <1>4 DEF CallTypes, RunRegs, LeaveRun, Goto, Places
  <2>2. opts' \in [Procs -> RunOptions]
    BY <1>4, OptionTypes DEF CallTypes, RunRegs, LeaveRun
  <2>3. /\ was_powered' \in [Procs -> BOOLEAN]
        /\ moved' \in [Procs -> BOOLEAN]
    BY <1>4 DEF CallTypes, RunRegs, LeaveRun
  <2> QED
    BY <2>1, <2>2, <2>3 DEF CallTypes
<1>5. CASE \E p \in Procs : RunInhibit(p)
  <2>1. /\ pc' \in [Procs -> Places] /\ lock' \in Procs \cup {Free}
    BY <1>5 DEF CallTypes, RunInhibit, LeaveRun, Goto, Places
  <2>2. opts' \in [Procs -> RunOptions]
    BY <1>5, OptionTypes DEF CallTypes, RunInhibit, LeaveRun
  <2>3. /\ was_powered' \in [Procs -> BOOLEAN]
        /\ moved' \in [Procs -> BOOLEAN]
    BY <1>5 DEF CallTypes, RunInhibit, LeaveRun
  <2> QED
    BY <2>1, <2>2, <2>3 DEF CallTypes
<1>6. CASE \E p \in Procs : RunPower(p)
  <2>1. pc' \in [Procs -> Places]
    BY <1>6 DEF CallTypes, RunPower, Goto, Places
  <2>2. was_powered' \in [Procs -> BOOLEAN]
    BY <1>6 DEF CallTypes, RunPower, DriverTypes
  <2>3. UNCHANGED <<lock, opts, moved>>
    BY <1>6 DEF RunPower
  <2> QED
    BY <2>1, <2>2, <2>3 DEF CallTypes
<1>7. CASE \E p \in Procs : RunCommit(p)
  <2>1. /\ pc' \in [Procs -> Places] /\ lock' \in Procs \cup {Free}
    BY <1>7 DEF CallTypes, RunCommit, Commit, Refuse, LeaveRun, Goto, Places
  <2>2. opts' \in [Procs -> RunOptions]
    BY <1>7, OptionTypes DEF CallTypes, RunCommit, Commit, Refuse, LeaveRun
  <2>3. /\ was_powered' \in [Procs -> BOOLEAN]
        /\ moved' \in [Procs -> BOOLEAN]
    BY <1>7 DEF CallTypes, RunCommit, Commit, Refuse, LeaveRun
  <2> QED
    BY <2>1, <2>2, <2>3 DEF CallTypes
<1>8. CASE \E p \in Procs : PowerOff(p) \/ SupplyOff(p) \/ EnablePower(p)
  BY <1>8
    DEF CallTypes, PowerOff, SupplyOff, EnablePower, Goto, Places
<1>9. CASE \E p \in Procs : Stop(p)
  BY <1>9 DEF CallTypes, Stop, DecelFrame, callVars
<1>10. CASE \E p \in Procs : Halt(p) \/ Disable(p)
  <2>1. pc' \in [Procs -> Places]
    BY <1>10 DEF CallTypes, Halt, Disable, Goto, Places, callVars
  <2>2. /\ moved' \in [Procs -> BOOLEAN]
    BY <1>10, StopTypes DEF CallTypes, Halt, Disable, DriverStop
  <2>3. UNCHANGED <<lock, opts, was_powered>>
    BY <1>10 DEF Halt, Disable, callVars
  <2> QED
    BY <2>1, <2>2, <2>3 DEF CallTypes
<1>11. CASE \E p \in Procs : EnableCheck(p) \/ EnableCommit(p)
  BY <1>11 DEF CallTypes, EnableCheck, EnableCommit, Goto, Places
<1>12. CASE \E p \in Procs : ZStepCheck(p) \/ ZStepPulse(p)
  BY <1>12 DEF CallTypes, ZStepCheck, ZStepPulse, Goto, Places
<1>13. CASE \E p \in Procs : SetStreaming(p)
  BY <1>13 DEF CallTypes, SetStreaming, callVars
<1>14. CASE \E p \in Procs : \E locked \in BOOLEAN : SetLaserLatch(p, locked)
  BY <1>14 DEF CallTypes, SetLaserLatch, callVars
<1>15. CASE \E p \in Procs : \E mask \in SUBSET Faults : SetIgnoredFaults(p, mask)
  BY <1>15 DEF CallTypes, SetIgnoredFaults, callVars
<1>16. CASE \E p \in Procs : Write(p) \/ Clear(p)
  BY <1>16 DEF CallTypes, Write, Clear, callVars
<1>17. CASE SdmaInterrupt
  <2>1. /\ moved' \in [Procs -> BOOLEAN]
    BY <1>17, StopTypes
      DEF CallTypes, SdmaInterrupt, DriverStop, DecelFrame
  <2>2. UNCHANGED <<lock, callVars>>
    BY <1>17 DEF SdmaInterrupt
  <2> QED
    BY <2>1, <2>2 DEF CallTypes, callVars
<1>18. CASE RampUpdate
  <2>1. /\ moved' \in [Procs -> BOOLEAN]
    BY <1>18, StopTypes DEF CallTypes, RampUpdate, DriverStop
  <2>2. UNCHANGED <<lock, callVars>>
    BY <1>18 DEF RampUpdate
  <2> QED
    BY <2>1, <2>2 DEF CallTypes, callVars
<1>19. CASE FaultTasklet
  <2>1. /\ moved' \in [Procs -> BOOLEAN]
    BY <1>19, StopTypes DEF CallTypes, FaultTasklet, DriverStop
  <2>2. UNCHANGED <<lock, callVars>>
    BY <1>19 DEF FaultTasklet
  <2> QED
    BY <2>1, <2>2 DEF CallTypes, callVars
<1>20. CASE ChargePump
  BY <1>20 DEF CallTypes, ChargePump, callVars
<1>21. CASE \E f \in Faults : FaultEdge(f) \/ FaultRelease(f)
  BY <1>21 DEF CallTypes, FaultEdge, FaultRelease, callVars
<1>22. CASE PlayByte \/ EndOfData \/ Parked
  BY <1>22 DEF CallTypes, PlayByte, EndOfData, Parked, callVars
<1>23. CASE UNCHANGED vars
  BY <1>23
    DEF CallTypes, vars, statusVars, faultVars, timerVars, ringVars,
        signalVars, pinVars, callVars
<1> QED
  BY <1>1, <1>2, <1>3, <1>4, <1>5, <1>6, <1>7, <1>8, <1>9, <1>10, <1>11,
     <1>12, <1>13, <1>14, <1>15, <1>16, <1>17, <1>18, <1>19, <1>20, <1>21,
     <1>22, <1>23 DEF Next, Command, Continue, Softirq, Tick, RunCommit

\* Every command, softirq, fault edge and tick keeps the declared types.
LEMMA TypeStep == TypeOK /\ [Next]_vars => TypeOK'
BY DriverTypesStep, EngineTypesStep, CallTypesStep DEF TypeOK

\* Type correctness: ranges and domains hold in every reachable state, which
\* for the speed means that no ramp wraps or programs a zero rate.
THEOREM TypeCorrect == Spec => []TypeOK
BY TypeInit, TypeStep, PTL DEF Spec

-----------------------------------------------------------------------------
(* The control invariant.                                                  *)

controlVars == <<state, triggered_faults, accelerating, decelerating,
                 decel_on_interrupt, waypoint_armed, running_backward,
                 epit_hz, ramp_timer, pump_timer>>
fireVars == <<fire_driven, port, latch_locked>>

\* The steps that touch neither the control state nor the FIRE line: those of
\* a run request before its commit, the ring, the masks and the fault lines.
LEMMA Bystanders ==
  ASSUME [Next]_vars
  PROVE  \/ UNCHANGED <<controlVars, fireVars>>
         \/ \E p \in Procs :
              \/ Commit(p) \/ PowerOff(p) \/ Stop(p) \/ Halt(p) \/ Disable(p)
              \/ EnableCheck(p) \/ EnableCommit(p)
              \/ \E locked \in BOOLEAN : SetLaserLatch(p, locked)
         \/ Softirq \/ Tick
<1> USE DEF controlVars, fireVars
<1>1. CASE \E p \in Procs : \E o \in RunOptions : RunCheck(p, o)
  BY <1>1 DEF RunCheck, statusVars, timerVars, pinVars
<1>2. CASE \E p \in Procs : RunSnapshot(p) \/ RunEmpty(p) \/ RunRegs(p)
  BY <1>2 DEF RunSnapshot, RunEmpty, RunRegs, statusVars, timerVars, pinVars
<1>3. CASE \E p \in Procs : RunInhibit(p)
  BY <1>3 DEF RunInhibit, statusVars, timerVars, pinVars
<1>4. CASE \E p \in Procs : RunPower(p) \/ EnablePower(p)
  BY <1>4 DEF RunPower, EnablePower, PowerOn, statusVars, timerVars
<1>5. CASE \E p \in Procs : Refuse(p)
  BY <1>5 DEF Refuse, statusVars, timerVars, pinVars
<1>6. CASE \E p \in Procs : SupplyOff(p) \/ ZStepCheck(p) \/ ZStepPulse(p)
  BY <1>6 DEF SupplyOff, ZStepCheck, ZStepPulse, statusVars, timerVars, pinVars
<1>7. CASE \E p \in Procs : SetStreaming(p) \/ Write(p) \/ Clear(p)
  BY <1>7 DEF SetStreaming, Write, Clear, statusVars, timerVars, pinVars
<1>8. CASE \E p \in Procs : \E mask \in SUBSET Faults : SetIgnoredFaults(p, mask)
  BY <1>8 DEF SetIgnoredFaults, statusVars, timerVars, pinVars
<1>9. CASE \E f \in Faults : FaultEdge(f) \/ FaultRelease(f)
  BY <1>9 DEF FaultEdge, FaultRelease, statusVars, timerVars, pinVars
<1>10. CASE UNCHANGED vars
  BY <1>10 DEF vars, statusVars, timerVars, pinVars
<1> QED
  BY <1>1, <1>2, <1>3, <1>4, <1>5, <1>6, <1>7, <1>8, <1>9, <1>10
  DEF Next, Command, Continue, RunCommit

\* Every stop leaves the engine still, the flags down and FIRE parked.
LEMMA Stopped ==
  ASSUME NEW next \in {"idle", "disabled", "fault", "underrun"},
         DriverStop(next),
         triggered_faults' # {} => next = "fault"
  PROVE  Control' /\ FireLink'
<1>1. state' = next /\ epit_hz' = 0
  BY DEF DriverStop, StopTicks
<1>2. /\ ~accelerating' /\ ~decelerating' /\ ~waypoint_armed'
      /\ ~decel_on_interrupt' /\ ~running_backward'
  BY DEF DriverStop, DropRunFlags
<1>3. ~fire_driven'
  BY DEF DriverStop, ParkOutputs
<1>4. FaultLatched' /\ TickOnlyRunning'
  BY <1>1 DEF FaultLatched, TickOnlyRunning
<1>5. FlagsRunScoped' /\ TimersArmed'
  BY <1>1, <1>2 DEF FlagsRunScoped, TimersArmed
<1> QED
  BY <1>3, <1>4, <1>5 DEF Control, FireLink, Emitting

\* A controlled stop of a run parks FIRE and queues the ramp's timer.
LEMMA Slowing ==
  ASSUME IInv, DecelStart, DecelFrame, state = "running",
         decel_on_interrupt' => waypoint_armed'
  PROVE  Control' /\ FireLink'
<1>1. /\ UNCHANGED <<state, triggered_faults, running_backward, epit_hz,
                     pump_timer, latch_locked, port>>
  BY DEF DecelFrame
<1>2. ~accelerating' /\ decelerating'
  BY DEF DecelStart
<1>3. ramp_timer'
  BY DEF DecelStart, IInv, Control, TimersArmed
<1>4. ~fire_driven'
  BY DEF DecelStart, IInv, FireLink
<1>5. FaultLatched' /\ TickOnlyRunning'
  BY <1>1 DEF IInv, Control, FaultLatched, TickOnlyRunning
<1>6. FlagsRunScoped' /\ TimersArmed'
  BY <1>1, <1>2, <1>3 DEF IInv, Control, FlagsRunScoped, TimersArmed
<1> QED
  BY <1>4, <1>5, <1>6 DEF Control, FireLink, Emitting

\* A step that changes neither the control state nor the FIRE line.
LEMMA Frame ==
  ASSUME IInv, UNCHANGED <<controlVars, fireVars>>
  PROVE  Control' /\ FireLink'
<1>1. Control'
  BY DEF IInv, Control, controlVars, FaultLatched, TickOnlyRunning,
         FlagsRunScoped, TimersArmed
<1>2. FireLink'
  BY DEF IInv, FireLink, Emitting, controlVars, fireVars
<1> QED
  BY <1>1, <1>2

\* The commit of a run is the only step into the running state: it starts
\* from one with every flag down, and starts the engine and its timers.
LEMMA CommitStep ==
  ASSUME IInv, NEW p \in Procs, Commit(p)
  PROVE  Control' /\ FireLink'
<1>1. state # "running" /\ triggered_faults' = {} /\ state' = "running"
  BY DEF Commit, CommitRefused
<1>2. ~accelerating /\ ~decelerating
  BY <1>1 DEF IInv, Control, FlagsRunScoped
<1>3. FaultLatched'
  BY <1>1 DEF FaultLatched
<1>4. epit_hz' > 0
  BY Bounds DEF Commit, RampMin
<1>5. TickOnlyRunning'
  BY <1>1, <1>4 DEF TickOnlyRunning
<1>6. ~decelerating' /\ (accelerating' => ramp_timer') /\ pump_timer'
  BY <1>2 DEF Commit
<1>7. decel_on_interrupt' => waypoint_armed'
  BY DEF Commit
<1>8. FlagsRunScoped' /\ TimersArmed'
  BY <1>1, <1>6, <1>7 DEF FlagsRunScoped, TimersArmed
<1>9. fire_driven' => ~latch_locked'
  BY DEF Commit, IInv, FireLink
<1> QED
  BY <1>1, <1>3, <1>5, <1>6, <1>8, <1>9 DEF Control, FireLink, Emitting

\* One case per action that moves the control state or the FIRE line.
LEMMA ControlStep ==
  ASSUME IInv, [Next]_vars
  PROVE  Control' /\ FireLink'
<1>1. CASE UNCHANGED <<controlVars, fireVars>>
  BY <1>1, Frame
<1>2. CASE \E p \in Procs : Commit(p)
  BY <1>2, CommitStep
<1>3. ASSUME NEW p \in Procs, PowerOff(p) PROVE Control' /\ FireLink'
  <2>1. UNCHANGED controlVars /\ ~fire_driven'
    BY <1>3 DEF PowerOff, controlVars, statusVars, timerVars
  <2>2. Control'
    BY <2>1 DEF IInv, Control, controlVars, FaultLatched, TickOnlyRunning,
                FlagsRunScoped, TimersArmed
  <2> QED
    BY <2>1, <2>2 DEF FireLink, Emitting
<1>4. ASSUME NEW p \in Procs, Stop(p) PROVE Control' /\ FireLink'
  <2>1. CASE state = "underrun"
    <3>1. state' = "idle" /\ UNCHANGED <<triggered_faults, accelerating,
             decelerating, decel_on_interrupt, waypoint_armed,
             running_backward, epit_hz, ramp_timer, pump_timer, fire_driven,
             port, latch_locked>>
      BY <1>4, <2>1 DEF Stop, timerVars, pinVars
    <3>2. Control'
      BY <2>1, <3>1 DEF IInv, Control, FaultLatched, TickOnlyRunning,
                        FlagsRunScoped, TimersArmed
    <3>3. FireLink'
      BY <2>1, <3>1 DEF IInv, FireLink, Emitting
    <3> QED
      BY <3>2, <3>3
  <2>2. CASE state = "running"
    <3>1. DecelStart /\ DecelFrame /\ (decel_on_interrupt' => waypoint_armed')
      BY <1>4, <2>2 DEF Stop, IInv, Control, FlagsRunScoped
    <3> QED
      BY <2>2, <3>1, Slowing
  <2> QED
    BY <1>4, <2>1, <2>2 DEF Stop
<1>5. ASSUME NEW p \in Procs, Halt(p) \/ Disable(p) PROVE Control' /\ FireLink'
  <2>1. triggered_faults' = {}
    BY <1>5 DEF Halt, Disable, IInv, Control, FaultLatched
  <2> QED
    BY <1>5, <2>1, Stopped DEF Halt, Disable
<1>6. ASSUME NEW p \in Procs, EnableCheck(p) PROVE Control' /\ FireLink'
  <2>1. /\ UNCHANGED <<state, accelerating, decelerating, decel_on_interrupt,
                       waypoint_armed, running_backward, epit_hz, ramp_timer,
                       pump_timer, fire_driven, port, latch_locked>>
        /\ triggered_faults' \in {triggered_faults, {}}
    BY <1>6 DEF EnableCheck, timerVars, pinVars
  <2>2. Control'
    BY <2>1 DEF IInv, Control, FaultLatched, TickOnlyRunning, FlagsRunScoped,
                TimersArmed
  <2>3. FireLink'
    BY <2>1 DEF IInv, FireLink, Emitting
  <2> QED
    BY <2>2, <2>3
<1>7. ASSUME NEW p \in Procs, EnableCommit(p) PROVE Control' /\ FireLink'
  <2>1. /\ UNCHANGED <<triggered_faults, accelerating, decelerating,
                       decel_on_interrupt, waypoint_armed, running_backward,
                       epit_hz, ramp_timer, pump_timer, fire_driven, port,
                       latch_locked>>
        /\ \/ UNCHANGED state
           \/ /\ triggered_faults = {} /\ state \in {"disabled", "fault"}
              /\ state' = "idle"
    BY <1>7 DEF EnableCommit, FaultRacedIn, timerVars, pinVars
  <2>2. Control'
    BY <2>1 DEF IInv, Control, FaultLatched, TickOnlyRunning, FlagsRunScoped,
                TimersArmed
  <2>3. FireLink'
    BY <2>1 DEF IInv, FireLink, Emitting
  <2> QED
    BY <2>2, <2>3
<1>8. ASSUME NEW p \in Procs, NEW locked \in BOOLEAN, SetLaserLatch(p, locked)
      PROVE  Control' /\ FireLink'
  <2>1. UNCHANGED controlVars
    BY <1>8 DEF SetLaserLatch, controlVars, statusVars, timerVars
  <2>2. Control'
    BY <2>1 DEF IInv, Control, controlVars, FaultLatched, TickOnlyRunning,
                FlagsRunScoped, TimersArmed
  <2>3. FireLink'
    BY <1>8, <2>1 DEF SetLaserLatch, LatchMayDrive, controlVars, IInv,
                      FireLink, Emitting
  <2> QED
    BY <2>2, <2>3
<1>9. CASE SdmaInterrupt
  <2>1. CASE mailbox /\ state = "running"
    <3>1. triggered_faults' = {}
      BY <1>9, <2>1 DEF SdmaInterrupt, IInv, Control, FaultLatched
    <3> QED
      BY <1>9, <2>1, <3>1, Stopped DEF SdmaInterrupt
  <2>2. CASE ~mailbox /\ waypoint_armed /\ decel_on_interrupt
    <3>1. DecelStart /\ DecelFrame /\ ~decel_on_interrupt'
      BY <1>9, <2>2 DEF SdmaInterrupt
    <3>2. state = "running"
      BY <2>2 DEF IInv, Control, FlagsRunScoped
    <3> QED
      BY <3>1, <3>2, Slowing
  <2>3. CASE ~mailbox /\ waypoint_armed /\ ~decel_on_interrupt
    <3>1. /\ UNCHANGED <<state, triggered_faults, accelerating, decelerating,
                         running_backward, epit_hz, ramp_timer, pump_timer,
                         fire_driven, port, latch_locked>>
          /\ ~waypoint_armed' /\ ~decel_on_interrupt'
      BY <1>9, <2>3 DEF SdmaInterrupt, DecelFrame
    <3>2. Control'
      BY <3>1 DEF IInv, Control, FaultLatched, TickOnlyRunning,
                  FlagsRunScoped, TimersArmed
    <3>3. FireLink'
      BY <3>1 DEF IInv, FireLink, Emitting
    <3> QED
      BY <3>2, <3>3
  <2>4. CASE IF mailbox THEN state # "running" ELSE ~waypoint_armed
    <3>1. UNCHANGED <<controlVars, fireVars>>
      BY <1>9, <2>4 DEF SdmaInterrupt, controlVars, fireVars, timerVars, pinVars
    <3> QED
      BY <3>1, Frame
  <2> QED
    BY <1>9, <2>1, <2>2, <2>3, <2>4 DEF SdmaInterrupt
<1>10. CASE RampUpdate
  <2>1. CASE ~decelerating /\ ~accelerating
    <3>1. /\ UNCHANGED <<state, triggered_faults, accelerating, decelerating,
                         decel_on_interrupt, waypoint_armed, running_backward,
                         epit_hz, pump_timer, fire_driven, port,
                         latch_locked>>
      BY <1>10, <2>1 DEF RampUpdate, statusVars, pinVars
    <3>2. Control'
      BY <2>1, <3>1 DEF IInv, Control, FaultLatched, TickOnlyRunning,
                        FlagsRunScoped, TimersArmed
    <3>3. FireLink'
      BY <3>1 DEF IInv, FireLink, Emitting
    <3> QED
      BY <3>2, <3>3
  <2>2. CASE decelerating /\ DriverStop("idle")
    <3>1. triggered_faults' = {}
      BY <1>10, <2>2 DEF RampUpdate, statusVars, IInv, Control, FaultLatched,
                         FlagsRunScoped
    <3> QED
      BY <2>2, <3>1, Stopped
  <2>3. CASE /\ accelerating \/ decelerating
             /\ ~(decelerating /\ DriverStop("idle"))
    <3>1. state = "running" /\ ~(accelerating /\ decelerating)
      BY <2>3 DEF IInv, Control, FlagsRunScoped
    <3>2. RampDown > 0 /\ RampUp > 0
      BY RampBounds DEF IInv
    <3>3. epit_hz' > 0
      BY <1>10, <2>3, <3>2 DEF RampUpdate
    <3>4. UNCHANGED <<state, triggered_faults, decelerating,
                      decel_on_interrupt, waypoint_armed, running_backward,
                      pump_timer, fire_driven, port, latch_locked>>
      BY <1>10, <2>3 DEF RampUpdate, statusVars, pinVars
    <3>5. ASSUME decelerating PROVE Control'
      <4>1. UNCHANGED <<accelerating, ramp_timer>>
        BY <1>10, <2>3, <3>5 DEF RampUpdate, statusVars
      <4> QED
        BY <3>1, <3>3, <3>4, <4>1 DEF IInv, Control, FaultLatched,
           TickOnlyRunning, FlagsRunScoped, TimersArmed
    <3>6. ASSUME ~decelerating PROVE Control'
      <4>1. \/ UNCHANGED <<accelerating, ramp_timer>>
            \/ accelerating' = FALSE /\ ramp_timer' = FALSE
        BY <1>10, <2>3, <3>6 DEF RampUpdate
      <4> QED
        BY <3>1, <3>3, <3>4, <3>6, <4>1 DEF IInv, Control, FaultLatched,
           TickOnlyRunning, FlagsRunScoped, TimersArmed
    <3>7. FireLink'
      BY <3>4 DEF IInv, FireLink, Emitting
    <3> QED
      BY <3>5, <3>6, <3>7
  <2> QED
    BY <2>1, <2>2, <2>3
<1>11. CASE ChargePump
  <2>1. /\ UNCHANGED <<state, triggered_faults, accelerating, decelerating,
                       decel_on_interrupt, waypoint_armed, running_backward,
                       epit_hz, ramp_timer, fire_driven, port,
                       latch_locked>>
        /\ pump_timer' = (state = "running")
    BY <1>11 DEF ChargePump, PumpRestarts, statusVars, pinVars
  <2>2. Control'
    BY <2>1 DEF IInv, Control, FaultLatched, TickOnlyRunning, FlagsRunScoped,
                TimersArmed
  <2>3. FireLink'
    BY <2>1 DEF IInv, FireLink, Emitting
  <2> QED
    BY <2>2, <2>3
<1>12. CASE FaultTasklet
  <2>1. CASE state # "fault"
    BY <1>12, <2>1, Stopped DEF FaultTasklet, FaultMustStop
  <2>2. CASE state = "fault"
    <3>1. UNCHANGED <<state, accelerating, decelerating, decel_on_interrupt,
                      waypoint_armed, running_backward, epit_hz, ramp_timer,
                      pump_timer, fire_driven, port, latch_locked>>
      BY <1>12, <2>2 DEF FaultTasklet, FaultMustStop, pinVars
    <3>2. Control'
      BY <2>2, <3>1 DEF IInv, Control, FaultLatched, TickOnlyRunning,
                        FlagsRunScoped, TimersArmed
    <3>3. FireLink'
      BY <3>1 DEF IInv, FireLink, Emitting
    <3> QED
      BY <3>2, <3>3
  <2> QED
    BY <2>1, <2>2
<1>13. CASE Tick
  <2>1. UNCHANGED <<controlVars, fire_driven, latch_locked>> /\ epit_hz > 0
    BY <1>13 DEF Tick, PlayByte, EndOfData, Parked, controlVars, statusVars,
                 timerVars
  <2>2. Control'
    BY <2>1 DEF IInv, Control, controlVars, FaultLatched, TickOnlyRunning,
                FlagsRunScoped, TimersArmed
  <2>3. state' = "running"
    BY <2>1 DEF controlVars, IInv, Control, TickOnlyRunning
  <2>4. FireLink'
    BY <2>1, <2>3 DEF controlVars, IInv, FireLink, Emitting
  <2> QED
    BY <2>2, <2>4
<1> QED
  BY <1>1, <1>2, <1>3, <1>4, <1>5, <1>6, <1>7, <1>8, <1>9, <1>10, <1>11,
     <1>12, <1>13, Bystanders
  DEF Softirq

\* The control invariants hold when cnc_probe() returns.
LEMMA ControlInit == Init => Control /\ FireLink
<1> SUFFICES ASSUME Init PROVE Control /\ FireLink
  OBVIOUS
<1>1. FaultLatched
  BY DEF Init, FaultLatched
<1>2. TickOnlyRunning /\ FlagsRunScoped /\ TimersArmed
  BY DEF Init, TickOnlyRunning, FlagsRunScoped, TimersArmed
<1>3. FireLink
  BY DEF Init, FireLink, Emitting
<1> QED
  BY <1>1, <1>2, <1>3 DEF Control

\* The inductive invariant is kept by every step of the driver and the engine.
LEMMA IInvStep == IInv /\ [Next]_vars => IInv'
BY TypeStep, ControlStep DEF IInv

\* The inductive invariant holds in every reachable state, for any number of
\* callers and any bounds; the theorems below read their property off it.
THEOREM Invariance == Spec => []IInv
<1>1. Init => IInv
  BY TypeInit, ControlInit DEF IInv
<1> QED
  BY <1>1, IInvStep, PTL DEF Spec

\* Once a fault is on record the driver stays in the fault state, in every
\* interleaving of the tasklet with half-done enables, run requests and stops.
THEOREM FaultsLatch == Spec => []FaultLatched
<1>1. IInv => FaultLatched
  BY DEF IInv, Control
<1> QED
  BY <1>1, Invariance, PTL

\* The beam needs a run, no controlled stop, and the latch released.
THEOREM EmissionGated == Spec => []EmissionGate
<1>1. IInv => EmissionGate
  BY DEF IInv, FireLink, Emitting, EmissionGate
<1> QED
  BY <1>1, Invariance, PTL

\* The engine ticks exactly while the driver says it is running, no flag of a run
\* outlives it, and no run is left without its watchdog feed and no ramp without
\* its timer.
THEOREM RunScoped == Spec => []Inv
<1>1. IInv => Inv
  BY DEF IInv, Control, Inv
<1> QED
  BY <1>1, Invariance, PTL

-----------------------------------------------------------------------------
(* The driver implements the life cycle.                                   *)

LifeStep == [Abstract!LNext]_(Abstract!lvars)

\* A step that leaves the state and the fault record's emptiness alone is a
\* change of the beam during a run, or nothing.
LEMMA SameLife ==
  ASSUME IInv, IInv', state' = state,
         (triggered_faults' = {}) <=> (triggered_faults = {})
  PROVE  LifeStep
<1>1. CASE state = "running"
  <2>1. Abstract!Emit
    BY <1>1 DEF Abstract!Emit, Emitting
  <2> QED
    BY <2>1 DEF LifeStep, Abstract!LNext
<1>2. CASE state # "running"
  <2>1. ~Emitting /\ ~Emitting'
    BY <1>2 DEF IInv, FireLink
  <2>2. Emitting' = Emitting
    BY <2>1 DEF Emitting
  <2>3. (triggered_faults' # {}) = (triggered_faults # {})
    OBVIOUS
  <2> QED
    BY <2>2, <2>3 DEF LifeStep, Abstract!lvars
<1> QED
  BY <1>1, <1>2

\* A stop of a running driver that is not for a fault is an End.
LEMMA StopIsEnd ==
  ASSUME NEW next \in {"idle", "disabled", "underrun"}, DriverStop(next),
         state = "running", UNCHANGED triggered_faults
  PROVE  LifeStep
<1>1. Abstract!End
  BY DEF Abstract!End, DriverStop, ParkOutputs, Emitting
<1> QED
  BY <1>1 DEF LifeStep, Abstract!LNext

\* The state that cnc_probe() leaves is an initial state of the life cycle.
LEMMA LifeInit == Init => Abstract!LInit
BY DEF Init, Abstract!LInit, Emitting

\* Every step of the driver and the engine is a step of the life cycle or leaves
\* the reported state, the fault record and the beam as they are.
LEMMA LifeNext ==
  ASSUME IInv, IInv', [Next]_vars
  PROVE  LifeStep
<1> USE DEF Abstract!LNext
<1>1. CASE UNCHANGED <<controlVars, fireVars>>
  BY <1>1, SameLife DEF controlVars
<1>2. ASSUME NEW p \in Procs, Commit(p) PROVE LifeStep
  <2>1. ~Emitting'
    <3>1. ~Emitting
      BY <1>2 DEF Commit, CommitRefused, IInv, FireLink
    <3> QED
      BY <1>2, <3>1 DEF Commit, Emitting
  <2>2. Abstract!Begin
    BY <1>2, <2>1 DEF Commit, CommitRefused, Abstract!Begin
  <2> QED
    BY <2>2 DEF LifeStep
<1>3. ASSUME NEW p \in Procs,
             \/ PowerOff(p)
             \/ \E locked \in BOOLEAN : SetLaserLatch(p, locked)
      PROVE  LifeStep
  BY <1>3, SameLife DEF PowerOff, SetLaserLatch, statusVars
<1>4. ASSUME NEW p \in Procs, Stop(p) PROVE LifeStep
  <2>1. CASE state = "running"
    BY <1>4, <2>1, SameLife DEF Stop, DecelFrame
  <2>2. CASE state = "underrun"
    <3>1. Abstract!Settle
      BY <1>4, <2>2 DEF Stop, Abstract!Settle, pinVars, Emitting
    <3> QED
      BY <3>1 DEF LifeStep
  <2> QED
    BY <1>4, <2>1, <2>2 DEF Stop
<1>5. ASSUME NEW p \in Procs, Halt(p) PROVE LifeStep
  BY <1>5, StopIsEnd DEF Halt
<1>6. ASSUME NEW p \in Procs, Disable(p) PROVE LifeStep
  <2>1. CASE state = "running"
    BY <1>6, <2>1, StopIsEnd DEF Disable
  <2>2. CASE state # "running"
    <3>1. ~Emitting /\ ~Emitting'
      BY <1>6, <2>2 DEF Disable, DriverStop, ParkOutputs, IInv, FireLink,
                        Emitting
    <3>2. Emitting' = Emitting
      BY <3>1 DEF Emitting
    <3>3. /\ state \in {"idle", "underrun"} /\ state' = "disabled"
          /\ UNCHANGED triggered_faults
      BY <1>6, <2>2 DEF Disable, DriverStop
    <3>4. Abstract!Settle
      BY <3>2, <3>3 DEF Abstract!Settle
    <3> QED
      BY <3>4 DEF LifeStep
  <2> QED
    BY <2>1, <2>2
<1>7. ASSUME NEW p \in Procs, EnableCheck(p) PROVE LifeStep
  <2>1. CASE state = "fault"
    <3>1. Abstract!ClearFault
      BY <1>7, <2>1 DEF EnableCheck, Abstract!ClearFault, pinVars, Emitting
    <3> QED
      BY <3>1 DEF LifeStep
  <2>2. CASE state # "fault"
    BY <1>7, <2>2, SameLife DEF EnableCheck
  <2> QED
    BY <2>1, <2>2
<1>8. ASSUME NEW p \in Procs, EnableCommit(p) PROVE LifeStep
  <2>1. CASE UNCHANGED state
    BY <1>8, <2>1, SameLife DEF EnableCommit
  <2>2. CASE state' # state
    <3>1. /\ state \in {"disabled", "fault"} /\ state' = "idle"
          /\ triggered_faults = {}
      BY <1>8, <2>2 DEF EnableCommit, FaultRacedIn
    <3>2. UNCHANGED <<triggered_faults, fire_driven, port>>
      BY <1>8 DEF EnableCommit, pinVars
    <3>3. Abstract!Settle \/ Abstract!Recover
      BY <3>1, <3>2 DEF Abstract!Settle, Abstract!Recover, Emitting
    <3> QED
      BY <3>3 DEF LifeStep
  <2> QED
    BY <2>1, <2>2
<1>9. CASE SdmaInterrupt
  <2>1. CASE mailbox /\ state = "running"
    BY <1>9, <2>1, StopIsEnd DEF SdmaInterrupt
  <2>2. CASE ~(mailbox /\ state = "running")
    BY <1>9, <2>2, SameLife DEF SdmaInterrupt, DecelFrame
  <2> QED
    BY <2>1, <2>2
<1>10. CASE RampUpdate
  <2>1. CASE decelerating /\ DriverStop("idle")
    BY <1>10, <2>1, StopIsEnd DEF RampUpdate, statusVars, IInv, Control,
       FlagsRunScoped
  <2>2. CASE ~(decelerating /\ DriverStop("idle"))
    BY <1>10, <2>2, SameLife DEF RampUpdate, statusVars
  <2> QED
    BY <2>1, <2>2
<1>11. CASE ChargePump \/ Tick
  BY <1>11, SameLife DEF ChargePump, Tick, PlayByte, EndOfData, Parked,
     statusVars
<1>12. CASE FaultTasklet
  <2>1. state' = "fault" /\ triggered_faults' # {}
    BY <1>12 DEF FaultTasklet, FaultMustStop, DriverStop
  <2>2. ~Emitting'
    BY <2>1 DEF IInv, FireLink
  <2>3. Abstract!Fault
    BY <2>1, <2>2 DEF Abstract!Fault
  <2> QED
    BY <2>3 DEF LifeStep
<1> QED
  BY <1>1, <1>2, <1>3, <1>4, <1>5, <1>6, <1>7, <1>8, <1>9, <1>10, <1>11,
     <1>12, Bystanders
  DEF Softirq

\* Whatever the commands, the softirqs and the engine do, a reader of the
\* state attribute sees only the moves of the documented life cycle, and the
\* beam on only in its running state.
THEOREM ImplementsLifecycle == Spec => LifecycleSpec
<1>1. IInv /\ IInv' /\ [Next]_vars => [Abstract!LNext]_(Abstract!lvars)
  BY LifeNext DEF LifeStep
<1> QED
  BY <1>1, LifeInit, Invariance, PTL DEF Spec, LifecycleSpec, Abstract!LSpec

-----------------------------------------------------------------------------
(* The engine and the script's context.                                    *)

PlayStep == Player!PNext \/ UNCHANGED (Player!playVars)

\* The context begins as load_sdma_script() leaves it.
LEMMA PlayerInit == Init => Player!PInit
  BY DEF Init, Player!PInit

\* A step that leaves the ring and FIRE alone plays nothing.
LEMMA SamePlay ==
  ASSUME UNCHANGED <<fifo_in, head, tail, dir, waypoint, inhibit, fire_bit>>
  PROVE  PlayStep
  BY DEF PlayStep, Player!playVars, Player!aimVars

\* A step that puts FIRE out and leaves the ring alone dims.
LEMMA Dims ==
  ASSUME UNCHANGED <<fifo_in, head, tail, dir, waypoint, inhibit>>,
         fire_bit' = FALSE
  PROVE  PlayStep
  BY DEF PlayStep, Player!PNext, Player!Dim, Player!aimVars

\* A tick of the engine is a byte, the end of the data or a parked tick.
LEMMA TickPlays ==
  ASSUME TypeOK, Tick PROVE PlayStep
<1>1. CASE PlayByte
  <2>1. fire_bit' \in Player!Shown
    BY <1>1, Zenon DEF PlayByte, StepByte, PowerByte, LaserShown, Player!Shown,
                       TypeOK, DriverTypes
  <2>2. inhibit' = (inhibit /\ waypoint # 1)
    BY <1>1, Zenon DEF PlayByte, TypeOK, EngineTypes
  <2>3. Player!Play
    BY <1>1, <2>1, <2>2 DEF PlayByte, Player!Play, Player!aimVars
  <2> QED
    BY <2>3 DEF PlayStep, Player!PNext
<1>2. CASE EndOfData
  <2>1. Player!RunOut
    BY <1>2 DEF EndOfData, Player!RunOut
  <2> QED
    BY <2>1 DEF PlayStep, Player!PNext
<1>3. CASE Parked
  BY <1>3, Dims DEF Parked
<1> QED
  BY <1>1, <1>2, <1>3 DEF Tick

\* A run request aims the script and sets its mask, in two transfers; its commit puts
\* FIRE out.
LEMMA RequestAims ==
  ASSUME TypeOK, NEW p \in Procs, RunRegs(p) \/ RunInhibit(p) \/ RunCommit(p)
  PROVE  PlayStep
<1>1. CASE RunRegs(p)
  <2>1. opts[p] \in RunOptions
    BY DEF TypeOK, CallTypes
  <2>2. opts[p].num_steps \in Nat
    <3>1. \A o \in RunOptions : o.num_steps \in 0..MaxWaypoint
      BY OptionTypes
    <3> QED
      BY <2>1, <3>1, BoundsAssumption
  <2>3. UNCHANGED <<fifo_in, head, inhibit, port>>
    BY <1>1 DEF RunRegs, pinVars
  <2>4. CASE UNCHANGED <<tail, dir, waypoint>>
    BY <2>3, <2>4, SamePlay
  <2>5. CASE /\ tail' = IF opts[p].backward THEN 0 ELSE fifo_in
             /\ dir' = Direction(opts[p]) /\ waypoint' = opts[p].num_steps
    <3>1. \/ dir' = 1 /\ tail' = fifo_in
          \/ dir' = -1 /\ tail' = 0
      BY <2>5 DEF Direction
    <3>2. inhibit' \in BOOLEAN /\ waypoint' \in Nat
      BY <2>2, <2>3, <2>5 DEF TypeOK, EngineTypes
    <3>3. Player!Aim
      BY <2>3, <3>1, <3>2 DEF Player!Aim
    <3> QED
      BY <3>3 DEF PlayStep, Player!PNext
  <2> QED
    BY <1>1, <2>4, <2>5 DEF RunRegs
<1>2. CASE RunInhibit(p)
  <2>1. UNCHANGED <<fifo_in, head, tail, dir, waypoint, port>>
    BY <1>2 DEF RunInhibit, pinVars
  <2>2. CASE UNCHANGED inhibit
    BY <2>1, <2>2, SamePlay
  <2>3. CASE inhibit' = LaserInhibit(opts[p])
    <3>1. inhibit' \in BOOLEAN
      BY <2>3 DEF LaserInhibit
    <3>2. Player!Mask
      BY <2>1, <3>1 DEF Player!Mask, Player!aimVars
    <3> QED
      BY <3>2 DEF PlayStep, Player!PNext
  <2> QED
    BY <1>2, <2>2, <2>3 DEF RunInhibit
<1>3. CASE RunCommit(p)
  <2>1. UNCHANGED ringVars
    BY <1>3 DEF RunCommit
  <2>2. UNCHANGED fire_bit \/ fire_bit' = FALSE
    BY <1>3 DEF RunCommit, Commit, Refuse, pinVars
  <2> QED
    BY <2>1, <2>2, SamePlay, Dims DEF ringVars
<1> QED
  BY <1>1, <1>2, <1>3

\* Every other step of a caller leaves the context alone, but for the ring's two ends
\* and a latch that is set, which puts FIRE out.
LEMMA CallerPlays ==
  ASSUME TypeOK, NEW p \in Procs, Command(p) \/ Continue(p)
  PROVE  PlayStep
<1>1. CASE RunRegs(p) \/ RunInhibit(p) \/ RunCommit(p)
  BY <1>1, RequestAims
<1>2. CASE Write(p)
  <2>1. Player!Feed
    BY <1>2 DEF Write, Player!Feed, pinVars
  <2> QED
    BY <2>1 DEF PlayStep, Player!PNext
<1>3. CASE Clear(p)
  <2>1. Player!Clear
    BY <1>3 DEF Clear, Player!Clear, pinVars
  <2> QED
    BY <2>1 DEF PlayStep, Player!PNext
<1>4. ASSUME NEW locked \in BOOLEAN, SetLaserLatch(p, locked) PROVE PlayStep
  <2>1. UNCHANGED ringVars
    BY <1>4 DEF SetLaserLatch
  <2>2. UNCHANGED fire_bit \/ fire_bit' = FALSE
    BY <1>4 DEF SetLaserLatch
  <2> QED
    BY <2>1, <2>2, SamePlay, Dims DEF ringVars
<1>5. ASSUME \/ \E o \in RunOptions : RunCheck(p, o)
             \/ RunSnapshot(p) \/ RunEmpty(p) \/ EnableCheck(p) \/ EnableCommit(p)
             \/ ZStepCheck(p) \/ ZStepPulse(p) \/ SetStreaming(p)
             \/ \E mask \in SUBSET Faults : SetIgnoredFaults(p, mask)
      PROVE  UNCHANGED <<ringVars, pinVars>>
  BY <1>5 DEF RunCheck, RunSnapshot, RunEmpty, EnableCheck, EnableCommit, ZStepCheck,
              ZStepPulse, SetStreaming, SetIgnoredFaults
<1>6. ASSUME \/ Stop(p) \/ Halt(p) \/ Disable(p) \/ SupplyOff(p) \/ PowerOff(p)
             \/ RunPower(p) \/ EnablePower(p)
      PROVE  UNCHANGED <<ringVars, port>>
  BY <1>6 DEF Stop, Halt, Disable, SupplyOff, PowerOff, RunPower, EnablePower, PowerOn,
              DecelFrame, DriverStop, ParkOutputs, pinVars
<1> QED
  BY <1>1, <1>2, <1>3, <1>4, <1>5, <1>6, SamePlay
  DEF Command, Continue, pinVars, ringVars

\* Softirqs and fault lines leave the context alone.
LEMMA SoftirqPlays ==
  ASSUME Softirq \/ \E f \in Faults : FaultEdge(f) \/ FaultRelease(f)
  PROVE  UNCHANGED <<ringVars, port>>
<1>1. CASE SdmaInterrupt
  BY <1>1 DEF SdmaInterrupt, DriverStop, ParkOutputs, DecelFrame, pinVars
<1>2. CASE RampUpdate
  BY <1>2 DEF RampUpdate, DriverStop, ParkOutputs, pinVars
<1>3. CASE ChargePump
  BY <1>3 DEF ChargePump, pinVars
<1>4. CASE FaultTasklet
  BY <1>4 DEF FaultTasklet, DriverStop, ParkOutputs, pinVars
<1>5. ASSUME NEW f \in Faults, FaultEdge(f) \/ FaultRelease(f)
      PROVE  UNCHANGED <<ringVars, port>>
  BY <1>5 DEF FaultEdge, FaultRelease, pinVars
<1> QED
  BY <1>1, <1>2, <1>3, <1>4, <1>5 DEF Softirq

\* The engine of Cnc plays as the script promises: only a byte moves the head or lights
\* FIRE, whatever any number of requests do to the registers, also under a run.
THEOREM ImplementsPlayback == Spec => PlaybackSpec
<1>1. TypeOK /\ [Next]_vars => [Player!PNext]_(Player!playVars)
  <2> SUFFICES ASSUME TypeOK, [Next]_vars PROVE PlayStep
    BY DEF PlayStep
  <2>1. CASE UNCHANGED vars
    BY <2>1, SamePlay DEF vars, pinVars, ringVars
  <2> QED
    BY <2>1, CallerPlays, SoftirqPlays, SamePlay, TickPlays DEF Next, ringVars
<1> QED
  BY <1>1, PlayerInit, TypeInit, TypeStep, PTL DEF Spec, PlaybackSpec, Player!PSpec

-----------------------------------------------------------------------------
(* A driver that one task runs.                                            *)

\* At most one caller makes use of these commands.
AtMostOne(names) ==
  \A p, q \in Procs :
    Commands[p] \cap names # {} /\ Commands[q] \cap names # {} => p = q

\* One task starts the runs, whoever stops, halts, powers and feeds them; and one
\* task that also powers the machine, up and down.
OneRunner == AtMostOne({"run"})
OnePower == AtMostOne({"run", "disable", "enable"})

\* A request is under way only while nothing runs: what it does to the script's
\* registers between its two checks of the state meets no run.
Apart ==
  \A p \in Procs : pc[p] \in RunPlaces => Uses(p, "run") /\ state # "running"

\* What a request has set is still there when it commits.
SetUp ==
  \A p \in Procs :
    /\ pc[p] \in {"run_inhibit", "run_power", "run_commit"} =>
         dir = Direction(opts[p])
    /\ pc[p] \in {"run_power", "run_commit"} => inhibit = LaserInhibit(opts[p])
    /\ pc[p] = "run_commit" => ~mailbox

\* The run goes the way of the request, or is parked, its lead is masked, and once a
\* dark run has stepped the script's register has no laser bit left to show.
Walk ==
  /\ state = "running" =>
       /\ dir \in {-1, 0, 1}
       /\ running_backward => dir # 1
       /\ ~running_backward => dir # -1
  /\ lead => state = "running" /\ inhibit
  /\ (running_backward \/ lead) /\ stepped => ~reg_fire
  /\ RetraceDark

RunnerInv == Apart /\ SetUp /\ Walk /\ MailboxTruth

\* Two requests of a lone runner are never under way at once.
LEMMA Alone ==
  ASSUME OneRunner, Apart, NEW p \in Procs, Uses(p, "run"),
         NEW q \in Procs, pc[q] \in RunPlaces
  PROVE  q = p
BY DEF OneRunner, AtMostOne, Apart, Uses

\* A step that leaves the script's registers alone, whose caller is no further than
\* the second check, and that starts no run and no emission in one.
LEMMA WalkKept ==
  ASSUME IInv, RunnerInv, UNCHANGED <<dir, inhibit, mailbox, reg_fire>>,
         \A p \in Procs : pc'[p] \in RunPlaces =>
           \/ pc'[p] = pc[p] /\ opts'[p] = opts[p]
           \/ /\ pc'[p] \in {"run_snapshot", "run_empty", "run_regs"}
              /\ Uses(p, "run") /\ state # "running",
         \/ /\ UNCHANGED <<history, running_backward>>
            /\ state' = "running" <=> state = "running"
         \/ state' # "running" /\ ~lead' /\ ~running_backward',
         Emitting' => (Emitting /\ UNCHANGED port) \/ state # "running"
  PROVE  RunnerInv'
<1> USE DEF RunnerInv
<1>1. state' = "running" => state = "running"
  OBVIOUS
<1>2. Apart'
  BY <1>1 DEF Apart, Uses
<1>3. SetUp'
  BY DEF SetUp, RunPlaces, Direction, LaserInhibit
<1>4. Walk'
  <2>1. running_backward \/ lead => state = "running"
    BY DEF IInv, Control, FlagsRunScoped, Walk
  <2>2. running_backward' => running_backward
    OBVIOUS
  <2>3. lead' => lead /\ state' = "running"
    BY <2>1
  <2>4. RetraceDark'
    BY <2>1, <2>2, <2>3 DEF Walk, RetraceDark
  <2>5. state' = "running" => UNCHANGED running_backward
    OBVIOUS
  <2> QED
    BY <1>1, <2>3, <2>4, <2>5 DEF Walk
<1>5. MailboxTruth'
  BY <1>1 DEF MailboxTruth
<1> QED
  BY <1>2, <1>3, <1>4, <1>5

\* The steps of a request that set the script up.
LEMMA RunnerSetsUp ==
  ASSUME OneRunner, IInv, RunnerInv, NEW p \in Procs,
         RunRegs(p) \/ RunInhibit(p) \/ RunPower(p)
  PROVE  RunnerInv'
<1> USE DEF RunnerInv
<1>1. pc[p] \in RunPlaces /\ state # "running" /\ Uses(p, "run")
  BY DEF Apart, RunRegs, RunInhibit, RunPower, RunPlaces
<1>2. \A q \in Procs : q # p => pc[q] \notin RunPlaces
  BY <1>1, Alone
<1>3. /\ pc \in [Procs -> Places] /\ opts \in [Procs -> RunOptions]
  BY DEF IInv, TypeOK, CallTypes
<1>4. UNCHANGED <<state, history, running_backward, fire_driven, port>>
  BY DEF RunRegs, RunInhibit, RunPower, PowerOn, statusVars, pinVars
<1>5. \A q \in Procs : q # p => pc'[q] \notin RunPlaces
  BY <1>2, <1>3 DEF RunRegs, RunInhibit, RunPower, Goto, LeaveRun
<1>6. Apart'
  BY <1>1, <1>4, <1>5 DEF Apart, Uses
<1>7. ~lead /\ ~running_backward
  BY <1>1 DEF Walk, IInv, Control, FlagsRunScoped
<1>8. Walk' /\ MailboxTruth'
  BY <1>1, <1>4, <1>7 DEF Walk, MailboxTruth, RetraceDark
<1>9. /\ pc'[p] \in {"run_inhibit", "run_power", "run_commit"} =>
           dir' = Direction(opts'[p])
      /\ pc'[p] \in {"run_power", "run_commit"} => inhibit' = LaserInhibit(opts'[p])
      /\ pc'[p] = "run_commit" => ~mailbox'
  <2>1. CASE RunRegs(p)
    BY <1>3, <2>1 DEF RunRegs, Goto, LeaveRun, Direction
  <2>2. CASE RunInhibit(p)
    <3>1. dir = Direction(opts[p])
      BY <2>2 DEF SetUp, RunInhibit
    <3> QED
      BY <1>3, <2>2, <3>1 DEF RunInhibit, Goto, LeaveRun, Direction, LaserInhibit
  <2>3. CASE RunPower(p)
    <3>1. dir = Direction(opts[p]) /\ inhibit = LaserInhibit(opts[p])
      BY <2>3 DEF SetUp, RunPower
    <3>2. UNCHANGED <<dir, inhibit, opts>> /\ ~mailbox'
      BY <2>3 DEF RunPower, ringVars, MailboxAtStart
    <3> QED
      BY <3>1, <3>2 DEF Direction, LaserInhibit
  <2> QED
    BY <2>1, <2>2, <2>3
<1>10. SetUp'
  BY <1>5, <1>9 DEF SetUp, RunPlaces
<1> QED
  BY <1>6, <1>8, <1>10

\* The commit hands the script's registers over to the run.
LEMMA RunnerCommits ==
  ASSUME OneRunner, IInv, IInv', RunnerInv, NEW p \in Procs, RunCommit(p), Commit(p)
  PROVE  RunnerInv'
<1> USE DEF RunnerInv
<1>1. pc[p] = "run_commit" /\ pc[p] \in RunPlaces /\ Uses(p, "run")
  BY DEF Apart, RunCommit, RunPlaces
<1>2. \A q \in Procs : q # p => pc[q] \notin RunPlaces
  BY <1>1, Alone
<1>3. pc \in [Procs -> Places] /\ opts[p] \in RunOptions
  BY DEF IInv, TypeOK, CallTypes
<1>4. \A q \in Procs : pc'[q] \notin RunPlaces
  BY <1>2, <1>3 DEF Commit, LeaveRun, Goto, RunPlaces
<1>5. Apart' /\ SetUp'
  BY <1>4 DEF Apart, SetUp, RunPlaces
<1>6. /\ dir = Direction(opts[p]) /\ inhibit = LaserInhibit(opts[p]) /\ ~mailbox
  BY <1>1 DEF SetUp
<1>7. /\ state' = "running" /\ running_backward' = opts[p].backward
      /\ lead' = (opts[p].accelerate /\ ~opts[p].backward) /\ ~stepped'
      /\ UNCHANGED <<dir, inhibit, mailbox>>
  BY DEF Commit, RunCommit, ringVars, signalVars
<1>8. opts[p].backward \in BOOLEAN
  BY <1>3, OptionTypes
<1>9. ~Emitting'
  <2>1. ~Emitting
    BY DEF Commit, CommitRefused, IInv, FireLink
  <2> QED
    BY <2>1 DEF Commit, Emitting
<1>10. Walk'
  <2>1. dir' \in {-1, 1} /\ (dir' = -1 <=> running_backward')
    BY <1>6, <1>7, <1>8 DEF Direction
  <2>2. lead' => inhibit'
    BY <1>6, <1>7 DEF LaserInhibit
  <2> QED
    BY <1>7, <1>9, <2>1, <2>2 DEF Walk, RetraceDark
<1>11. MailboxTruth'
  BY <1>6, <1>7 DEF MailboxTruth
<1> QED
  BY <1>5, <1>10, <1>11

\* The engine plays a byte, runs out of data or is parked.
LEMMA RunnerPlays ==
  ASSUME IInv, RunnerInv, Tick
  PROVE  RunnerInv'
<1> USE DEF RunnerInv
<1>1. state = "running"
  BY DEF Tick, PlayByte, EndOfData, Parked, IInv, Control, TickOnlyRunning
<1>2. UNCHANGED <<state, running_backward, fire_driven, pc>>
  BY DEF Tick, PlayByte, EndOfData, Parked, statusVars, callVars
<1>3. \A p \in Procs : pc'[p] \notin RunPlaces
  BY <1>1, <1>2 DEF Apart
<1>4. Apart' /\ SetUp'
  BY <1>3 DEF Apart, SetUp, RunPlaces
<1>5. Walk' /\ MailboxTruth'
  <2>1. CASE PlayByte
    <3>1. UNCHANGED <<dir, mailbox>> /\ dir # 0
      BY <2>1 DEF PlayByte
    <3>2. (lead' => lead) /\ (lead' => inhibit')
      BY <2>1 DEF PlayByte, Walk
    <3>3. running_backward \/ lead => dir = -1 \/ inhibit
      BY <1>1, <3>1 DEF Walk
    <3>4. CASE StepByte
      <4>1. running_backward \/ lead =>
              ~fire_bit' /\ ~reg_fire' /\ flash' \in {"none", "first"}
        BY <3>3, <3>4 DEF StepByte, LaserShown, Walk
      <4> QED
        BY <1>1, <1>2, <3>1, <3>2, <4>1
        DEF Walk, MailboxTruth, RetraceDark, Emitting
    <3>5. CASE PowerByte
      <4>1. flash' = "none" /\ UNCHANGED <<fire_bit, reg_fire, stepped>>
        BY <3>5 DEF PowerByte
      <4> QED
        BY <1>1, <1>2, <3>1, <3>2, <4>1
        DEF Walk, MailboxTruth, RetraceDark, Emitting
    <3> QED
      BY <2>1, <3>4, <3>5 DEF PlayByte
  <2>2. CASE EndOfData \/ Parked
    <3>1. /\ dir' = 0 /\ ~fire_bit' /\ ~reg_fire' /\ flash' = "none"
          /\ UNCHANGED <<history, inhibit>>
      BY <2>2 DEF EndOfData, Parked, statusVars, ringVars
    <3> QED
      BY <1>1, <1>2, <3>1 DEF Walk, MailboxTruth, RetraceDark, Emitting
  <2> QED
    BY <2>1, <2>2 DEF Tick
<1> QED
  BY <1>4, <1>5

\* Every other step leaves alone what a request has set up: no other caller has one.
LEMMA RunnerAside ==
  ASSUME IInv, RunnerInv, NEW p \in Procs,
         \/ Uses(p, "run") /\ \E o \in RunOptions : RunCheck(p, o)
         \/ RunSnapshot(p) \/ RunEmpty(p) \/ (RunCommit(p) /\ Refuse(p))
         \/ PowerOff(p) \/ SupplyOff(p) \/ EnablePower(p) \/ EnableCommit(p)
         \/ ZStepPulse(p) \/ Stop(p) \/ Halt(p) \/ Disable(p) \/ EnableCheck(p)
         \/ ZStepCheck(p) \/ Write(p) \/ Clear(p) \/ SetStreaming(p)
         \/ \E locked \in BOOLEAN : SetLaserLatch(p, locked)
         \/ \E mask \in SUBSET Faults : SetIgnoredFaults(p, mask)
  PROVE  RunnerInv'
<1>0. pc \in [Procs -> Places] /\ opts \in [Procs -> RunOptions]
  BY DEF IInv, TypeOK, CallTypes
<1>1. CASE Uses(p, "run") /\ \E o \in RunOptions : RunCheck(p, o)
  <2>1. /\ UNCHANGED <<dir, inhibit, mailbox, reg_fire, state, history,
                       running_backward, fire_driven, port>>
        /\ pc' = [pc EXCEPT ![p] = "run_snapshot"]
        /\ state # "running"
        /\ \A q \in Procs : q # p => opts'[q] = opts[q]
    BY <1>0, <1>1
    DEF RunCheck, Goto, statusVars, ringVars, signalVars, pinVars
  <2> QED
    BY <1>0, <1>1, <2>1, WalkKept DEF Emitting
<1>2. CASE RunSnapshot(p) \/ RunEmpty(p)
  <2>1. UNCHANGED <<dir, inhibit, mailbox, reg_fire, state, history,
                    running_backward, fire_driven, port>>
    BY <1>2 DEF RunSnapshot, RunEmpty, statusVars, ringVars, signalVars, pinVars
  <2>2. Uses(p, "run") /\ state # "running"
    BY <1>2 DEF RunnerInv, Apart, RunSnapshot, RunEmpty, RunPlaces
  <2>3. \A q \in Procs : q # p => pc'[q] = pc[q] /\ opts'[q] = opts[q]
    BY <1>0, <1>2 DEF RunSnapshot, RunEmpty, Goto, LeaveRun
  <2>4. pc'[p] \in {"run_snapshot", "run_empty", "run_regs", "idle"}
    BY <1>0, <1>2 DEF RunSnapshot, RunEmpty, Goto, LeaveRun
  <2>5. "idle" \notin RunPlaces
    BY DEF RunPlaces
  <2> QED
    BY <2>1, <2>2, <2>3, <2>4, <2>5, WalkKept DEF Emitting
<1>3. CASE RunCommit(p) /\ Refuse(p)
  <2>1. UNCHANGED <<dir, inhibit, mailbox, reg_fire, state, history,
                    running_backward, fire_driven, port>>
    BY <1>3 DEF RunCommit, Refuse, statusVars, ringVars, signalVars, pinVars
  <2>2. /\ \A q \in Procs : q # p => pc'[q] = pc[q] /\ opts'[q] = opts[q]
        /\ pc'[p] \notin RunPlaces
    BY <1>0, <1>3 DEF Refuse, LeaveRun, Goto, RunPlaces
  <2> QED
    BY <2>1, <2>2, WalkKept DEF Emitting
<1>4. CASE \/ PowerOff(p) \/ SupplyOff(p) \/ EnablePower(p) \/ ZStepPulse(p)
           \/ EnableCheck(p) \/ ZStepCheck(p)
  <2>1. /\ UNCHANGED <<dir, inhibit, mailbox, reg_fire, state, history,
                       running_backward, port, opts>>
        /\ fire_driven' = fire_driven \/ fire_driven' = FALSE
    BY <1>4
    DEF PowerOff, SupplyOff, EnablePower, PowerOn, ZStepPulse, EnableCheck,
        ZStepCheck, statusVars, ringVars, signalVars, pinVars
  <2>2. /\ \A q \in Procs : q # p => pc'[q] = pc[q]
        /\ pc'[p] \notin RunPlaces
    BY <1>0, <1>4
    DEF PowerOff, SupplyOff, EnablePower, ZStepPulse, EnableCheck, ZStepCheck,
        Goto, RunPlaces
  <2>3. Emitting' => Emitting /\ UNCHANGED port
    BY <2>1 DEF Emitting
  <2> QED
    BY <2>1, <2>2, <2>3, WalkKept
<1>5. CASE EnableCommit(p)
  <2>1. UNCHANGED <<dir, inhibit, mailbox, reg_fire, history, running_backward,
                    fire_driven, port, opts>>
    BY <1>5 DEF EnableCommit, ringVars, signalVars, pinVars
  <2>3. state' = "running" <=> state = "running"
    BY <1>5 DEF EnableCommit
  <2>2. /\ \A q \in Procs : q # p => pc'[q] = pc[q]
        /\ pc'[p] \notin RunPlaces
    BY <1>0, <1>5 DEF EnableCommit, Goto, RunPlaces
  <2> QED
    BY <2>1, <2>2, <2>3, WalkKept DEF Emitting
<1>6. CASE Stop(p)
  <2>1. UNCHANGED <<dir, inhibit, mailbox, reg_fire, history, running_backward,
                    port, pc, opts>>
    BY <1>6 DEF Stop, DecelFrame, ringVars, signalVars, pinVars, callVars
  <2>2. Emitting' => Emitting /\ UNCHANGED port
    BY <1>6 DEF Stop, DecelStart, DecelFrame, pinVars, Emitting
  <2>3. state' = "running" <=> state = "running"
    BY <1>6 DEF Stop, DecelFrame
  <2> QED
    BY <2>1, <2>2, <2>3, WalkKept
<1>7. CASE Halt(p) \/ Disable(p)
  <2>1. /\ UNCHANGED <<dir, inhibit, mailbox, reg_fire, opts>>
        /\ state' # "running" /\ ~lead' /\ ~running_backward' /\ ~fire_driven'
    BY <1>7
    DEF Halt, Disable, DriverStop, DropRunFlags, ParkOutputs, ringVars,
        signalVars, callVars
  <2>2. \A q \in Procs : pc'[q] \in RunPlaces => pc'[q] = pc[q]
    BY <1>0, <1>7 DEF Halt, Disable, Goto, RunPlaces, callVars
  <2> QED
    BY <2>1, <2>2, WalkKept DEF Emitting
<1>8. CASE Write(p) \/ Clear(p) \/ SetStreaming(p)
  BY <1>8, WalkKept
  DEF Write, Clear, SetStreaming, Emitting, statusVars, ringVars, signalVars,
      pinVars, callVars
<1>9. CASE \E mask \in SUBSET Faults : SetIgnoredFaults(p, mask)
  BY <1>9, WalkKept
  DEF SetIgnoredFaults, Emitting, statusVars, ringVars, signalVars, pinVars,
      callVars
<1>10. CASE \E locked \in BOOLEAN : SetLaserLatch(p, locked)
  <2>1. /\ UNCHANGED <<dir, inhibit, mailbox, reg_fire, state, history,
                       running_backward, pc, opts>>
        /\ Emitting' => Emitting /\ UNCHANGED port
    BY <1>10
    DEF SetLaserLatch, Emitting, statusVars, ringVars, signalVars, callVars
  <2> QED
    BY <2>1, WalkKept
<1> QED
  BY <1>1, <1>2, <1>3, <1>4, <1>5, <1>6, <1>7, <1>8, <1>9, <1>10

\* Softirqs and fault edges never start a run; a stop on any of their paths ends one
\* for good.
LEMMA RunnerSoftirq ==
  ASSUME IInv, RunnerInv,
         Softirq \/ (\E f \in Faults : FaultEdge(f) \/ FaultRelease(f))
  PROVE  RunnerInv'
<1>1. UNCHANGED <<dir, inhibit, mailbox, reg_fire, pc, opts>>
  BY DEF Softirq, SdmaInterrupt, DecelFrame, RampUpdate, ChargePump, FaultTasklet,
         FaultEdge, FaultRelease, ringVars, signalVars, callVars
<1>2. \/ /\ UNCHANGED <<history, running_backward, state>>
         /\ Emitting' => Emitting /\ UNCHANGED port
      \/ state' # "running" /\ ~lead' /\ ~running_backward' /\ ~fire_driven'
  <2>1. CASE \E next \in {"idle", "underrun", "fault"} : DriverStop(next)
    BY <2>1 DEF DriverStop, DropRunFlags, ParkOutputs
  <2>2. CASE ~\E next \in {"idle", "underrun", "fault"} : DriverStop(next)
    <3>1. CASE SdmaInterrupt
      <4>1. UNCHANGED <<state, history, running_backward, port>>
        BY <2>2, <3>1 DEF SdmaInterrupt, DecelFrame, pinVars
      <4>2. fire_driven' \in {fire_driven, FALSE}
        BY <2>2, <3>1 DEF SdmaInterrupt, DecelStart, pinVars
      <4> QED
        BY <4>1, <4>2 DEF Emitting
    <3>2. CASE RampUpdate \/ FaultTasklet
      BY <2>2, <3>2 DEF RampUpdate, FaultTasklet, Emitting, statusVars, pinVars
    <3>3. CASE ChargePump \/ (\E f \in Faults : FaultEdge(f) \/ FaultRelease(f))
      BY <3>3
      DEF ChargePump, FaultEdge, FaultRelease, Emitting, statusVars, pinVars
    <3> QED
      BY <3>1, <3>2, <3>3 DEF Softirq
  <2> QED
    BY <2>1, <2>2
<1> QED
  BY <1>1, <1>2, WalkKept DEF Emitting

LEMMA RunnerStep ==
  ASSUME OneRunner
  PROVE  IInv /\ IInv' /\ RunnerInv /\ [Next]_vars => RunnerInv'
<1> SUFFICES ASSUME IInv, IInv', RunnerInv, [Next]_vars PROVE RunnerInv'
  OBVIOUS
<1>1. ASSUME NEW p \in Procs, Command(p) \/ Continue(p) PROVE RunnerInv'
  <2>1. CASE RunRegs(p) \/ RunInhibit(p) \/ RunPower(p)
    BY <2>1, RunnerSetsUp
  <2>2. CASE RunCommit(p) /\ Commit(p)
    BY <2>2, RunnerCommits
  <2>3. CASE ~ \/ RunRegs(p) \/ RunInhibit(p) \/ RunPower(p)
               \/ RunCommit(p) /\ Commit(p)
    <3>1. RunCommit(p) => Refuse(p)
      BY <2>3 DEF RunCommit
    <3> QED
      BY <1>1, <2>3, <3>1, RunnerAside DEF Command, Continue
  <2> QED
    BY <2>1, <2>2, <2>3
<1>2. CASE Softirq \/ (\E f \in Faults : FaultEdge(f) \/ FaultRelease(f))
  BY <1>2, RunnerSoftirq
<1>3. CASE Tick
  BY <1>3, RunnerPlays
<1>4. CASE UNCHANGED vars
  BY <1>4, WalkKept
  DEF vars, Emitting, statusVars, ringVars, signalVars, pinVars, callVars
<1> QED
  BY <1>1, <1>2, <1>3, <1>4 DEF Next

LEMMA RunnerInit == Init => RunnerInv
<1> SUFFICES ASSUME Init PROVE RunnerInv
  OBVIOUS
<1>1. \A p \in Procs : pc[p] = "idle"
  BY DEF Init
<1>2. Apart /\ SetUp
  BY <1>1 DEF Apart, SetUp, RunPlaces
<1>3. Walk /\ MailboxTruth
  BY DEF Init, Walk, RetraceDark, MailboxTruth
<1> QED
  BY <1>2, <1>3 DEF RunnerInv

LEMMA RunnerInvariance ==
  ASSUME OneRunner PROVE Spec => []RunnerInv
<1>1. IInv /\ IInv' /\ RunnerInv /\ [Next]_vars => RunnerInv'
  BY RunnerStep
<1> QED
  BY <1>1, RunnerInit, Invariance, PTL DEF Spec

\* Where one task starts the runs, the script walks the way the driver believes it does,
\* however many others stop, halt, power, feed and clear: write() may judge by
\* running_backward whether publishing a new tail is safe.
THEOREM DirectionsAgree == ASSUME OneRunner PROVE Spec => []DirectionAgrees
<1>1. RunnerInv => DirectionAgrees
  BY DEF RunnerInv, Walk, DirectionAgrees
<1> QED
  BY <1>1, RunnerInvariance, PTL

\* And a backward run is dark, as is the lead of a resume, but for the direction
\* write of its first step byte, whatever the bytes say and whoever works the laser
\* latch meanwhile.
THEOREM RetracesDark == ASSUME OneRunner PROVE Spec => []RetraceDark
<1>1. RunnerInv => RetraceDark
  BY DEF RunnerInv, Walk
<1> QED
  BY <1>1, RunnerInvariance, PTL

\* And the mailbox says "end of data" in a run only when the script has parked: no
\* callback, however late, ends a run that still has bytes to play.
THEOREM MailboxTrue == ASSUME OneRunner PROVE Spec => []MailboxTruth
<1>1. RunnerInv => MailboxTruth
  BY DEF RunnerInv
<1> QED
  BY <1>1, RunnerInvariance, PTL

-----------------------------------------------------------------------------
(* A driver that one task powers and runs.                                 *)

\* The places between a check of the state and the power that follows it.
PowerPlaces == {"power_off", "supply_off", "enable_power", "enable_commit"}

UsesPower(p) == Commands[p] \cap {"run", "disable", "enable"} # {}

\* Nothing runs while the task that would power down, or up, is about to; and
\* the power it is to run on is there when it commits.
Powered ==
  /\ \A p \in Procs : pc[p] \in PowerPlaces => UsesPower(p) /\ state # "running"
  /\ \A p \in Procs : pc[p] = "run_commit" => supply_on /\ steppers_on
  /\ RailUp

PowerInv == Apart /\ Powered

\* A step that leaves the power alone and whose caller leaves those places.
LEMMA PowerKept ==
  ASSUME Powered, UNCHANGED <<supply_on, steppers_on>>,
         \A p \in Procs :
           pc'[p] \in PowerPlaces \cup {"run_commit"} => pc'[p] = pc[p],
         state' = "running" => state = "running"
  PROVE  Powered'
BY DEF Powered, RailUp, UsesPower, PowerPlaces

\* One task has all these commands, so in the middle of one it is the only one.
LEMMA PowerAlone ==
  ASSUME OnePower, PowerInv, NEW p \in Procs, UsesPower(p), NEW q \in Procs,
         pc[q] \in PowerPlaces \cup RunPlaces
  PROVE  q = p
<1>1. UsesPower(q)
  BY DEF PowerInv, Apart, Powered, UsesPower, Uses
<1> QED
  BY <1>1 DEF OnePower, AtMostOne, UsesPower

LEMMA OneRunnerToo == OnePower => OneRunner
BY DEF OnePower, OneRunner, AtMostOne

\* The steps that power up or down.
LEMMA PowerSteps ==
  ASSUME OnePower, SupplyMayFail = FALSE, TypeOK, PowerInv, NEW p \in Procs,
         \/ RunPower(p) \/ EnablePower(p) \/ PowerOff(p) \/ SupplyOff(p)
         \/ Uses(p, "disable") /\ Disable(p)
  PROVE  Powered'
<1>0. pc \in [Procs -> Places]
  BY DEF TypeOK, CallTypes
<1>1. UsesPower(p)
  BY DEF PowerInv, Apart, Powered, RunPower, EnablePower, PowerOff, SupplyOff,
         RunPlaces, PowerPlaces, UsesPower, Uses
<1>2. \A q \in Procs : q # p => pc[q] \notin PowerPlaces \cup RunPlaces
  BY <1>1, PowerAlone
<1>3. \A q \in Procs : q # p => pc'[q] = pc[q]
  BY <1>0 DEF RunPower, EnablePower, PowerOff, SupplyOff, Disable, Goto
<1>4. state' # "running"
  <2>1. CASE Disable(p)
    BY <2>1 DEF Disable, DriverStop
  <2>2. CASE RunPower(p) \/ EnablePower(p) \/ PowerOff(p) \/ SupplyOff(p)
    BY <2>2
    DEF PowerInv, Apart, Powered, RunPower, EnablePower, PowerOff, SupplyOff,
        RunPlaces, PowerPlaces, statusVars
  <2> QED
    BY <2>1, <2>2
<1>5. pc'[p] = "run_commit" => supply_on' /\ steppers_on'
  <2>1. CASE RunPower(p)
    BY <2>1 DEF RunPower, PowerOn
  <2>2. CASE EnablePower(p) \/ PowerOff(p) \/ SupplyOff(p) \/ Disable(p)
    BY <1>0, <2>2 DEF EnablePower, PowerOff, SupplyOff, Disable, Goto
  <2> QED
    BY <2>1, <2>2
<1>6. "run_commit" \in RunPlaces
  BY DEF RunPlaces
<1> QED
  BY <1>1, <1>2, <1>3, <1>4, <1>5, <1>6 DEF Powered, RailUp, UsesPower

\* A request commits on the power it has switched on, or is refused; an enable ends.
LEMMA PowerCommits ==
  ASSUME OnePower, TypeOK, PowerInv, NEW p \in Procs,
         \/ RunCommit(p) \/ EnableCommit(p)
         \/ Uses(p, "enable") /\ EnableCheck(p)
  PROVE  Powered'
<1>0. pc \in [Procs -> Places]
  BY DEF TypeOK, CallTypes
<1>1. UsesPower(p)
  BY DEF PowerInv, Apart, Powered, RunCommit, EnableCommit, RunPlaces,
         PowerPlaces, UsesPower, Uses
<1>2. \A q \in Procs : q # p => pc[q] \notin PowerPlaces \cup RunPlaces
  BY <1>1, PowerAlone
<1>3. \A q \in Procs : q # p => pc'[q] = pc[q]
  BY <1>0 DEF RunCommit, Commit, Refuse, LeaveRun, EnableCommit, EnableCheck, Goto
<1>4. pc'[p] # "run_commit"
  BY <1>0 DEF RunCommit, Commit, Refuse, LeaveRun, EnableCommit, EnableCheck, Goto
<1>5. UNCHANGED <<supply_on, steppers_on>>
  BY DEF RunCommit, Commit, Refuse, EnableCommit, EnableCheck, pinVars
<1>6. "run_commit" \in RunPlaces
  BY DEF RunPlaces
<1>7. pc'[p] \in PowerPlaces => state' # "running"
  <2>1. CASE RunCommit(p) /\ Commit(p)
    BY <1>0, <2>1 DEF Commit, LeaveRun, Goto, PowerPlaces
  <2>2. CASE RunCommit(p) /\ Refuse(p)
    BY <2>2 DEF RunCommit, Refuse, statusVars, PowerInv, Apart, RunPlaces
  <2>3. CASE EnableCommit(p)
    BY <2>3 DEF EnableCommit, PowerInv, Powered, PowerPlaces
  <2>4. CASE EnableCheck(p)
    BY <2>4 DEF EnableCheck
  <2> QED
    BY <2>1, <2>2, <2>3, <2>4 DEF RunCommit
<1>8. state' = "running" => supply_on' /\ steppers_on'
  <2>1. CASE RunCommit(p)
    BY <1>5, <2>1 DEF RunCommit, PowerInv, Powered
  <2>2. CASE EnableCommit(p) \/ EnableCheck(p)
    BY <1>5, <2>2 DEF EnableCommit, EnableCheck, PowerInv, Powered, RailUp
  <2> QED
    BY <2>1, <2>2
<1> QED
  BY <1>1, <1>2, <1>3, <1>4, <1>6, <1>7, <1>8 DEF Powered, RailUp, UsesPower

\* No other step of a caller switches the power or comes to where it is switched.
LEMMA PowerAside ==
  ASSUME TypeOK, Powered, NEW p \in Procs,
         \/ \E o \in RunOptions : RunCheck(p, o)
         \/ RunSnapshot(p) \/ RunEmpty(p) \/ RunRegs(p) \/ RunInhibit(p)
         \/ ZStepPulse(p) \/ Stop(p) \/ Halt(p) \/ ZStepCheck(p) \/ Write(p)
         \/ Clear(p) \/ SetStreaming(p)
         \/ \E locked \in BOOLEAN : SetLaserLatch(p, locked)
         \/ \E mask \in SUBSET Faults : SetIgnoredFaults(p, mask)
  PROVE  Powered'
<1>0. pc \in [Procs -> Places]
  BY DEF TypeOK, CallTypes
<1>1. UNCHANGED <<supply_on, steppers_on>>
  BY DEF RunCheck, RunSnapshot, RunEmpty, RunRegs, RunInhibit, ZStepPulse, Stop,
         Halt, ZStepCheck, Write, Clear, SetStreaming, SetLaserLatch,
         SetIgnoredFaults, DriverStop, ParkOutputs, DecelFrame, pinVars
<1>2. state' = "running" => state = "running"
  BY DEF RunCheck, RunSnapshot, RunEmpty, RunRegs, RunInhibit, ZStepPulse, Stop,
         Halt, ZStepCheck, Write, Clear, SetStreaming, SetLaserLatch,
         SetIgnoredFaults, DriverStop, DecelFrame, statusVars
<1>3. \A q \in Procs : q # p => pc'[q] = pc[q]
  BY <1>0
  DEF RunCheck, RunSnapshot, RunEmpty, RunRegs, RunInhibit, ZStepPulse, Stop,
      Halt, ZStepCheck, Write, Clear, SetStreaming, SetLaserLatch,
      SetIgnoredFaults, LeaveRun, Goto, callVars
<1>4. pc'[p] \in {"run_snapshot", "run_empty", "run_regs", "run_inhibit",
                  "run_power", "z_step", "idle"}
      \/ pc'[p] = pc[p]
  BY <1>0
  DEF RunCheck, RunSnapshot, RunEmpty, RunRegs, RunInhibit, ZStepPulse, Stop,
      Halt, ZStepCheck, Write, Clear, SetStreaming, SetLaserLatch,
      SetIgnoredFaults, LeaveRun, Goto, callVars
<1>5. \A q \in Procs :
        pc'[q] \in PowerPlaces \cup {"run_commit"} => pc'[q] = pc[q]
  BY <1>3, <1>4 DEF PowerPlaces
<1> QED
  BY <1>1, <1>2, <1>5, PowerKept

\* The softirqs stop runs and touch neither the supply nor the drivers.
LEMMA PowerSoftirq ==
  ASSUME Powered,
         \/ Softirq \/ Tick
         \/ \E f \in Faults : FaultEdge(f) \/ FaultRelease(f)
  PROVE  Powered'
<1>1. UNCHANGED pc
  BY DEF Softirq, SdmaInterrupt, RampUpdate, ChargePump, FaultTasklet, FaultEdge,
         FaultRelease, Tick, PlayByte, EndOfData, Parked, callVars
<1>2. UNCHANGED <<supply_on, steppers_on>>
  <2>1. ASSUME NEW next \in {"idle", "underrun", "fault"}, DriverStop(next)
        PROVE  UNCHANGED <<supply_on, steppers_on>>
    BY <2>1 DEF DriverStop, ParkOutputs
  <2> QED
    BY <2>1
    DEF Softirq, SdmaInterrupt, RampUpdate, ChargePump, FaultTasklet, FaultEdge,
        FaultRelease, Tick, PlayByte, EndOfData, Parked, DecelFrame, pinVars
<1>3. state' = "running" => state = "running"
  BY DEF Softirq, SdmaInterrupt, RampUpdate, ChargePump, FaultTasklet, FaultEdge,
         FaultRelease, Tick, PlayByte, EndOfData, Parked, DecelFrame, DriverStop,
         statusVars
<1> QED
  BY <1>1, <1>2, <1>3, PowerKept

LEMMA PoweredStep ==
  ASSUME OnePower, SupplyMayFail = FALSE
  PROVE  TypeOK /\ PowerInv /\ [Next]_vars => Powered'
<1> SUFFICES ASSUME TypeOK, PowerInv, [Next]_vars PROVE Powered'
  OBVIOUS
<1>0. Powered
  BY DEF PowerInv
<1>1. ASSUME NEW p \in Procs, Command(p) \/ Continue(p) PROVE Powered'
  BY <1>0, <1>1, PowerSteps, PowerCommits, PowerAside DEF Command, Continue
<1>2. CASE \/ Softirq \/ Tick
           \/ \E f \in Faults : FaultEdge(f) \/ FaultRelease(f)
  BY <1>0, <1>2, PowerSoftirq
<1>3. CASE UNCHANGED vars
  BY <1>0, <1>3, PowerKept DEF vars, statusVars, pinVars, callVars
<1> QED
  BY <1>1, <1>2, <1>3 DEF Next

\* Where one task powers and runs the machine, and the regulator comes up when it is
\* told to, motion and FIRE have the 40 V rail and the motor drivers: neither the
\* power-off of a request that was refused nor the one of a disable meets a run.
THEOREM RailHolds ==
  ASSUME OnePower, SupplyMayFail = FALSE PROVE Spec => []RailUp
<1>1. Init => Powered
  BY DEF Init, Powered, RailUp, PowerPlaces
<1>2. TypeOK /\ (RunnerInv /\ Powered) /\ [Next]_vars => Powered'
  BY PoweredStep DEF RunnerInv, PowerInv
<1>3. Spec => []RunnerInv
  BY OneRunnerToo, RunnerInvariance
<1>4. Powered => RailUp
  BY DEF Powered
<1> QED
  BY <1>1, <1>2, <1>3, <1>4, TypeCorrect, PTL DEF Spec

-----------------------------------------------------------------------------
(* What must happen.  Weak fairness of an action is stated here with its   *)
(* guard in the place of ENABLED, which no prover takes: each of these     *)
(* handlers does something whenever its guard holds, so the two say the    *)
(* same (Fairness in Cnc has the same three actions).                      *)

\* A pending tasklet, a raised SDMA interrupt and a queued ramp timer are not left
\* waiting for ever.
TaskletRuns == []([](pending_faults # {}) => <><<FaultTasklet>>_vars)
CallbackRuns == []([]notify => <><<SdmaInterrupt>>_vars)
RampRuns == []([]ramp_timer => <><<RampUpdate>>_vars)

\* A recorded edge waits for the tasklet and for nothing else.
LEMMA FaultWaits ==
  ASSUME pending_faults # {}, [Next]_vars
  PROVE  pending_faults' # {} \/ FaultTasklet
<1>1. CASE \E p \in Procs : Command(p) \/ Continue(p)
  <2> PICK p \in Procs : Command(p) \/ Continue(p)
    BY <1>1
  <2>1. CASE Command(p)
    BY <2>1
    DEF Command, RunCheck, Stop, Halt, Disable, EnableCheck, ZStepCheck,
        SetLaserLatch, Write, Clear, SetStreaming, SetIgnoredFaults, faultVars
  <2>2. CASE Continue(p)
    BY <2>2
    DEF Continue, RunSnapshot, RunEmpty, RunRegs, RunInhibit, RunPower, RunCommit,
        Commit, Refuse, PowerOff, SupplyOff, EnablePower, EnableCommit, ZStepPulse,
        faultVars
  <2> QED
    BY <2>1, <2>2
<1>2. CASE Softirq
  BY <1>2 DEF Softirq, SdmaInterrupt, RampUpdate, ChargePump, faultVars
<1>3. CASE \E f \in Faults : FaultEdge(f) \/ FaultRelease(f)
  BY <1>3 DEF FaultEdge, FaultRelease
<1>4. CASE Tick
  BY <1>4 DEF Tick, PlayByte, EndOfData, Parked, faultVars
<1>5. CASE UNCHANGED vars
  BY <1>5 DEF vars, faultVars
<1> QED
  BY <1>1, <1>2, <1>3, <1>4, <1>5 DEF Next

\* The tasklet ends in the fault state, wherever it starts.
LEMMA TaskletStops == FaultTasklet => state' = "fault"
BY DEF FaultTasklet, FaultMustStop, DriverStop

\* A fault seen by the interrupt handler puts the driver in the fault state whatever
\* the callers, the timers and the engine do: nothing takes the work from the tasklet.
THEOREM FaultsStop == Spec /\ TaskletRuns => FaultStops
<1>1. pending_faults # {} /\ [Next]_vars
        => (pending_faults # {})' \/ (state = "fault")'
  BY FaultWaits, TaskletStops
<1>2. pending_faults # {} /\ <<FaultTasklet>>_vars => (state = "fault")'
  BY TaskletStops
<1> QED
  BY <1>1, <1>2, PTL DEF Spec, TaskletRuns, FaultStops

\* A request clears the mailbox, and it is under way only while nothing runs; a
\* raised interrupt is lowered by the callback alone.
LEMMA EndWaits ==
  ASSUME Apart, state = "running", notify, mailbox, [Next]_vars
  PROVE  (notify' /\ mailbox') \/ SdmaInterrupt
<1>1. CASE \E p \in Procs : Command(p) \/ Continue(p)
  <2> PICK p \in Procs : Command(p) \/ Continue(p)
    BY <1>1
  <2>1. CASE Command(p)
    BY <2>1
    DEF Command, RunCheck, Stop, Halt, Disable, EnableCheck, ZStepCheck,
        SetLaserLatch, Write, Clear, SetStreaming, SetIgnoredFaults, signalVars
  <2>2. ~RunPower(p)
    BY DEF Apart, RunPower, RunPlaces
  <2>3. CASE Continue(p)
    BY <2>2, <2>3
    DEF Continue, RunSnapshot, RunEmpty, RunRegs, RunInhibit, RunCommit, Commit,
        Refuse, PowerOff, SupplyOff, EnablePower, EnableCommit, ZStepPulse,
        signalVars
  <2> QED
    BY <2>1, <2>3
<1>2. CASE Softirq
  BY <1>2 DEF Softirq, RampUpdate, ChargePump, FaultTasklet, signalVars
<1>3. CASE \E f \in Faults : FaultEdge(f) \/ FaultRelease(f)
  BY <1>3 DEF FaultEdge, FaultRelease, signalVars
<1>4. CASE Tick
  BY <1>4 DEF Tick, PlayByte, EndOfData, MailboxAtEnd, Parked
<1>5. CASE UNCHANGED vars
  BY <1>5 DEF vars, signalVars
<1> QED
  BY <1>1, <1>2, <1>3, <1>4, <1>5 DEF Next

\* Where one task starts the runs, the end of the data is heard: once the script has
\* said so, no later notify, waypoint or request hides it, and the run ends.
THEOREM EndHeard ==
  ASSUME OneRunner
  PROVE  Spec /\ CallbackRuns
           => ((state = "running" /\ notify /\ mailbox) ~> (state # "running"))
<1> DEFINE Told == state = "running" /\ notify /\ mailbox
           Ended == state # "running"
<1>1. RunnerInv /\ Told /\ [Next]_vars => Told' \/ Ended'
  <2> SUFFICES ASSUME RunnerInv, Told, [Next]_vars, ~Ended' PROVE Told'
    OBVIOUS
  <2>1. ~SdmaInterrupt
    BY DEF SdmaInterrupt, DriverStop
  <2> QED
    BY <2>1, EndWaits DEF RunnerInv
<1>2. Told /\ <<SdmaInterrupt>>_vars => Ended'
  BY DEF SdmaInterrupt, DriverStop
<1>3. Told => notify
  OBVIOUS
<1> HIDE DEF Told, Ended
<1>4. Spec /\ CallbackRuns => (Told ~> Ended)
  BY <1>1, <1>2, <1>3, RunnerInvariance, PTL DEF Spec, CallbackRuns
<1> QED
  BY <1>4 DEF Told, Ended

\* In a controlled stop every step keeps slowing, or ends the run; an update of the
\* ramp goes strictly down, or ends it.
LEMMA SlowsDown ==
  ASSUME IInv, decelerating, [Next]_vars, state' = "running"
  PROVE  /\ decelerating'
         /\ \/ ramp_step_freq' = ramp_step_freq /\ ~RampUpdate
            \/ ramp_step_freq' < ramp_step_freq
<1>1. state = "running" /\ ~accelerating /\ ramp_timer
  BY DEF IInv, Control, FlagsRunScoped, TimersArmed
<1>2. ramp_step_freq \in 1..StepFreq /\ StepFreq \in Nat /\ RampDelta \in Nat \ {0}
  BY BoundsAssumption DEF IInv, TypeOK, EngineTypes
<1>3. CASE RampUpdate
  <2>1. ~DriverStop("idle")
    BY DEF DriverStop
  <2>2. /\ ramp_step_freq > RampMin /\ ramp_step_freq' = RampDown
        /\ UNCHANGED statusVars
    BY <1>1, <1>3, <2>1 DEF RampUpdate
  <2>3. RampDown < ramp_step_freq
    BY <1>2, <2>2 DEF RampDown, RampMin
  <2> QED
    BY <2>2, <2>3 DEF statusVars
<1>4. CASE ~RampUpdate
  <2>1. ASSUME NEW next, DriverStop(next), next # "running" PROVE FALSE
    BY <2>1 DEF DriverStop
  <2>2. CASE UNCHANGED <<decelerating, ramp_step_freq>>
    BY <1>4, <2>2
  <2>3. CASE DecelStart
    BY <1>4, <2>3 DEF DecelStart
  <2>4. CASE \E p \in Procs : Command(p)
    BY <2>1, <2>2, <2>3, <2>4
    DEF Command, RunCheck, Stop, Halt, Disable, EnableCheck, ZStepCheck,
        SetLaserLatch, Write, Clear, SetStreaming, SetIgnoredFaults, statusVars,
        timerVars
  <2>5. ASSUME NEW p \in Procs PROVE ~Commit(p)
    BY <1>1 DEF Commit, CommitRefused
  <2>6. CASE \E p \in Procs : Continue(p)
    BY <2>2, <2>5, <2>6
    DEF Continue, RunSnapshot, RunEmpty, RunRegs, RunInhibit, RunPower, PowerOn,
        RunCommit, Refuse, PowerOff, SupplyOff, EnablePower, EnableCommit,
        ZStepPulse, statusVars, timerVars
  <2>7. CASE SdmaInterrupt
    BY <2>1, <2>2, <2>3, <2>7 DEF SdmaInterrupt, timerVars
  <2>8. CASE ChargePump \/ FaultTasklet
    BY <2>1, <2>2, <2>8 DEF ChargePump, FaultTasklet, statusVars
  <2>9. CASE \E f \in Faults : FaultEdge(f) \/ FaultRelease(f)
    BY <2>2, <2>9 DEF FaultEdge, FaultRelease, statusVars, timerVars
  <2>10. CASE Tick
    BY <2>2, <2>10 DEF Tick, PlayByte, EndOfData, Parked, statusVars, timerVars
  <2>11. CASE UNCHANGED vars
    BY <2>2, <2>11 DEF vars, statusVars, timerVars
  <2> QED
    BY <1>4, <2>4, <2>6, <2>7, <2>8, <2>9, <2>10, <2>11 DEF Next, Softirq
<1> QED
  BY <1>3, <1>4

\* A controlled stop is never stuck and never taken back: from every speed it reaches a
\* lower one, still slowing, or the run ends, whoever asks for what meanwhile.
THEOREM DecelDescends ==
  ASSUME NEW n \in Nat
  PROVE  Spec /\ RampRuns
           => ((decelerating /\ ramp_step_freq = n)
                 ~> (state # "running" \/ (decelerating /\ ramp_step_freq < n)))
<1> DEFINE At == decelerating /\ ramp_step_freq = n
           Lower == state # "running" \/ (decelerating /\ ramp_step_freq < n)
<1>1. IInv /\ At /\ [Next]_vars => At' \/ Lower'
  BY SlowsDown
<1>2. IInv /\ At /\ <<RampUpdate>>_vars => Lower'
  <2> SUFFICES ASSUME IInv, At, RampUpdate PROVE Lower'
    OBVIOUS
  <2>1. [Next]_vars
    BY DEF Next, Softirq
  <2> QED
    BY <2>1, SlowsDown
<1>3. IInv /\ At => ramp_timer
  BY DEF IInv, Control, TimersArmed
<1> HIDE DEF At, Lower
<1>4. Spec /\ RampRuns => (At ~> Lower)
  BY <1>1, <1>2, <1>3, Invariance, PTL DEF Spec, RampRuns
<1> QED
  BY <1>4 DEF At, Lower

-----------------------------------------------------------------------------
(* The remote interlock, for any finite number of devices.  Its properties *)
(* are not inductive by themselves: they follow from the line being what   *)
(* the policy computes from its fields, the count being the number of      *)
(* counted handles, and loop_open being the switch of the device that      *)
(* spoke last while that device is attached.                               *)

LineRuled == level = Level(attached, loop_open)
ReadingFresh == last # None /\ phase[last] = "attached" => loop_open = sw[last]

InterlockInv == InterlockTypeOK /\ CountsHandles /\ LineRuled /\ ReadingFresh

\* The counted handles are finitely many, so their number is a natural one.
LEMMA CountedFinite == IsFiniteSet(Counted) /\ Cardinality(Counted) \in Nat
<1>1. Counted \subseteq Devices  BY DEF Counted
<1>2. IsFiniteSet(Counted)  BY <1>1, DevicesAssumption, FS_Subset
<1> QED  BY <1>2, FS_CardinalityType

\* The line has one of its two levels whatever the policy's fields are.
LEMMA LevelRange == ASSUME NEW n, NEW open PROVE Level(n, open) \in {0, 1}
  BY DEF Level

\* A handle that is not counted yet makes the count grow by one when it
\* attaches: the attach of the policy and the handle's phase move together.
LEMMA CountAttach ==
  ASSUME InterlockTypeOK, NEW d \in Devices, Attach(d)
  PROVE  Cardinality(Counted') = Cardinality(Counted) + 1
<1>1. d \notin Counted  BY DEF Attach, Counted
<1>2. Counted' = Counted \cup {d}
  BY Zenon DEF InterlockTypeOK, Attach, Counted, Phases
<1> QED  BY <1>1, <1>2, CountedFinite, FS_AddElement

\* A counted handle leaves the count by one when it detaches.
LEMMA CountDetach ==
  ASSUME InterlockTypeOK, NEW d \in Devices, Detach(d)
  PROVE  /\ Cardinality(Counted') = Cardinality(Counted) - 1
         /\ Cardinality(Counted) > 0
<1>1. d \in Counted  BY DEF Detach, Counted
<1>2. Counted' = Counted \ {d}
  BY DEF InterlockTypeOK, Detach, Counted, Phases
<1>3. Cardinality(Counted \ {d}) = Cardinality(Counted) - 1
  BY <1>1, CountedFinite, FS_RemoveElement
<1>4. Cardinality(Counted \ {d}) \in Nat
  BY CountedFinite, FS_RemoveElement, FS_CardinalityType
<1> QED  BY <1>2, <1>3, <1>4, CountedFinite

\* Initially no handle is counted and the line is driven blocked.
LEMMA InterlockInvInit == InterlockInit => InterlockInv
<1> SUFFICES ASSUME InterlockInit PROVE InterlockInv  OBVIOUS
<1>1. InterlockTypeOK  BY LevelRange DEF InterlockInit, InterlockTypeOK, Phases
<1>2. CountsHandles
  <2>1. Counted = {}  BY DEF InterlockInit, Counted
  <2> QED  BY <2>1, FS_EmptySet DEF InterlockInit, CountsHandles
<1>3. LineRuled /\ ReadingFresh  BY DEF InterlockInit, LineRuled, ReadingFresh
<1> QED  BY <1>1, <1>2, <1>3 DEF InterlockInv

\* Every step of the handler, the core and the devices keeps the invariant.
LEMMA InterlockInvStep == InterlockInv /\ [InterlockNext]_interlockVars => InterlockInv'
<1> SUFFICES ASSUME InterlockInv, [InterlockNext]_interlockVars PROVE InterlockInv'  OBVIOUS
<1> USE DEF InterlockInv
<1>1. CASE Register
  <2>1. Counted' = Counted  BY <1>1 DEF Register, Counted
  <2> QED  BY <1>1, <2>1 DEF Register, InterlockTypeOK, ilVars, CountsHandles, LineRuled,
                            ReadingFresh
<1>2. CASE Unregister
  <2>1. Counted' = Counted  BY <1>2 DEF Unregister, Counted
  <2> QED  BY <1>2, <2>1 DEF Unregister, InterlockTypeOK, ilVars, CountsHandles,
                            LineRuled, ReadingFresh
<1>3. CASE Unregistered
  <2>1. Counted' = Counted  BY <1>3 DEF Unregistered, Counted
  <2> QED  BY <1>3, <2>1 DEF Unregistered, InterlockTypeOK, ilVars, CountsHandles,
                            LineRuled, ReadingFresh
<1>4. ASSUME NEW d \in Devices, Open(d) PROVE InterlockInv'
  <2>1. Counted' = Counted  BY <1>4 DEF Open, Counted, InterlockTypeOK
  <2>2. InterlockTypeOK'  BY <1>4 DEF Open, InterlockTypeOK, ilVars, Phases
  <2>3. ReadingFresh'  BY <1>4 DEF Open, InterlockTypeOK, ilVars, ReadingFresh
  <2> QED  BY <1>4, <2>1, <2>2, <2>3 DEF Open, ilVars, CountsHandles, LineRuled
<1>5. ASSUME NEW d \in Devices, Attach(d) PROVE InterlockInv'
  <2>1. CountsHandles'
    BY <1>5, CountAttach DEF Attach, Apply, CountsHandles
  <2>2. InterlockTypeOK'
    BY <1>5, LevelRange DEF Attach, Apply, Snapshot, InterlockTypeOK, Phases
  <2>3. LineRuled'  BY <1>5 DEF Attach, Apply, LineRuled
  <2>4. ReadingFresh'
    BY <1>5 DEF Attach, Apply, Snapshot, InterlockTypeOK, ReadingFresh
  <2> QED  BY <2>1, <2>2, <2>3, <2>4
<1>6. ASSUME NEW d \in Devices, Edge(d) PROVE InterlockInv'
  <2>1. Counted' = Counted  BY <1>6 DEF Edge, Counted
  <2>2. CountsHandles'
    BY <1>6, <2>1 DEF Edge, Apply, ilVars, CountsHandles
  <2>3. LineRuled'  BY <1>6 DEF Edge, Apply, ilVars, LineRuled
  <2>4. InterlockTypeOK'
    BY <1>6, LevelRange DEF Edge, Apply, ilVars, InterlockTypeOK, Phases
  <2>5. ReadingFresh'
    BY <1>6 DEF Edge, Apply, ilVars, Listening, InterlockTypeOK, ReadingFresh
  <2> QED  BY <2>2, <2>3, <2>4, <2>5
<1>7. ASSUME NEW d \in Devices, Close(d) PROVE InterlockInv'
  <2>1. Counted' = Counted  BY <1>7 DEF Close, Counted, InterlockTypeOK
  <2>2. InterlockTypeOK'  BY <1>7 DEF Close, InterlockTypeOK, ilVars, Phases
  <2>3. ReadingFresh'  BY <1>7 DEF Close, InterlockTypeOK, ilVars, ReadingFresh
  <2> QED  BY <1>7, <2>1, <2>2, <2>3 DEF Close, ilVars, CountsHandles, LineRuled
<1>8. ASSUME NEW d \in Devices, Detach(d) PROVE InterlockInv'
  <2>1. CountsHandles'
    BY <1>8, CountDetach, CountedFinite DEF Detach, Apply, OneLess, CountsHandles
  <2>2. InterlockTypeOK'
    BY <1>8, LevelRange DEF Detach, Apply, OneLess, InterlockTypeOK, Phases
  <2>3. LineRuled'  BY <1>8 DEF Detach, Apply, LineRuled
  <2>4. ReadingFresh'
    BY <1>8 DEF Detach, Apply, InterlockTypeOK, ReadingFresh
  <2> QED  BY <2>1, <2>2, <2>3, <2>4
<1>9. CASE UNCHANGED interlockVars
  <2>1. Counted' = Counted  BY <1>9 DEF interlockVars, Counted
  <2> QED  BY <1>9, <2>1 DEF interlockVars, ilVars, InterlockTypeOK, CountsHandles, LineRuled,
                            ReadingFresh
<1> QED  BY <1>1, <1>2, <1>3, <1>4, <1>5, <1>6, <1>7, <1>8, <1>9 DEF InterlockNext

\* The invariant holds throughout, for any finite set of devices.
THEOREM InterlockInvariance == InterlockSpec => []InterlockInv
<1> QED  BY InterlockInvInit, InterlockInvStep, PTL DEF InterlockSpec

\* The policy's count is exact, whatever connects and disconnects do.
THEOREM CountIsExact == InterlockSpec => []CountsHandles
<1>1. InterlockInv => CountsHandles  BY DEF InterlockInv
<1> QED  BY <1>1, InterlockInvariance, PTL

\* With no counted device the line is blocked: before the first attach, after
\* the last detach, and so after an unregister.
THEOREM BlocksWhenAlone == InterlockSpec => []BlockedWhenAlone
<1>1. InterlockInv => BlockedWhenAlone
  <2> SUFFICES ASSUME InterlockInv, Counted = {} PROVE level = 1
    BY DEF BlockedWhenAlone
  <2>1. attached = 0  BY FS_EmptySet DEF InterlockInv, CountsHandles
  <2> QED  BY <2>1 DEF InterlockInv, LineRuled, Level
<1> QED  BY <1>1, InterlockInvariance, PTL

\* While the device that spoke last is attached, the line is its switch: an
\* edge between the open of a handle and its snapshot is not lost.
THEOREM LatestRules == InterlockSpec => []LatestReadingRules
<1>1. InterlockInv => LatestReadingRules
  <2> SUFFICES ASSUME InterlockInv, last # None, phase[last] = "attached"
               PROVE  level = IF sw[last] THEN 1 ELSE 0
    BY DEF LatestReadingRules
  <2>1. last \in Counted  BY DEF InterlockInv, InterlockTypeOK, Counted
  <2>2. Cardinality(Counted) # 0  BY <2>1, CountedFinite, FS_EmptySet
  <2>3. attached > 0  BY <2>2, CountedFinite DEF InterlockInv, CountsHandles
  <2>4. loop_open = sw[last]  BY DEF InterlockInv, ReadingFresh
  <2> QED  BY <2>3, <2>4 DEF InterlockInv, LineRuled, Level
<1> QED  BY <1>1, InterlockInvariance, PTL
=============================================================================
