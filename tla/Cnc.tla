--------------------------------- MODULE Cnc ---------------------------------
(***************************************************************************)
(* The pulse driver of src/cnc.c together with the pulse script it steers  *)
(* (asm/sdma.asm) as far as control goes: the commands of the sysfs        *)
(* attributes, the SDMA interrupt callback, the ramp and charge-pump       *)
(* timers, the fault interrupt with its tasklet, and the engine's tick.    *)
(*                                                                         *)
(* The machine has one core.  A section under status_lock, a callback in   *)
(* softirq context and a tick of the script are each one step.  A command  *)
(* that sleeps between such sections is a sequence of steps of its caller, *)
(* and every other actor may move in between.                              *)
(*                                                                         *)
(* The ring is linear here (module PulseRing has the wrapped one), pulse   *)
(* bytes are reduced to the FIRE bit they carry, and frequencies to a few  *)
(* levels above the ramp minimum (module Ramp has them in Hz).             *)
(***************************************************************************)
EXTENDS Integers

CONSTANTS
  Procs,         \* the callers: tasks writing attributes and the device file
  Faults,        \* the stepper fault lines
  MaxBytes,      \* bound: bytes enqueued between two clears
  MaxWaypoint,   \* bound: largest num_steps a caller asks for
  StepFreq,      \* the step frequency, as a level; RampMin is level 1
  RampDelta,     \* ramp_step_freq_delta, in the same levels
  DecelSteps,    \* tail that cnc_backtrack_max_steps() holds back
  Renotify,      \* parked ticks between two end-of-data notifies (255)
  SupplyMayFail, \* whether regulator_enable() may fail
  Commands       \* bound: the commands each caller makes use of

Free == "free"   \* pulsebuf_lock is not held

CommandNames == {"run", "stop", "halt", "disable", "enable", "z_step", "latch",
                 "write", "clear", "streaming", "ignored_faults"}

ASSUME BoundsAssumption ==
  /\ Free \notin Procs
  /\ MaxBytes \in Nat
  /\ MaxWaypoint \in Nat \ {0}
  /\ StepFreq \in Nat /\ StepFreq > 1
  /\ RampDelta \in Nat \ {0}
  /\ DecelSteps \in Nat
  /\ Renotify \in Nat \ {0}
  /\ SupplyMayFail \in BOOLEAN
  /\ Commands \in [Procs -> SUBSET CommandNames]

VARIABLES
  \* struct cnc_status
  state, triggered_faults, accelerating, decelerating, decel_on_interrupt,
  waypoint_armed, running_backward, streaming,
  \* fault lines (asserted = low), the tasklet's work, the user's mask
  lines, pending_faults, ignored_faults,
  \* EPIT rate (0 = stopped), ramp frequency, timers in the hrtimer queue
  epit_hz, ramp_step_freq, ramp_timer, pump_timer,
  \* kfifo.in and the script's context: scratch4, 5, 6, 7, inhibit, mailbox,
  \* its idle re-notify counter, and the host interrupt it raises
  fifo_in, head, tail, dir, waypoint, inhibit, mailbox, idle_ticks, notify,
  \* the laser bits of the script's r3
  reg_fire,
  \* outputs: latch reset high, FIRE line driven, its data bit, 40 V, steppers
  latch_locked, fire_driven, fire_bit, supply_on, steppers_on,
  \* FIRE as the direction write of the last byte showed it, before the byte's
  \* own laser bit: "first" if that was the first step byte of its run
  flash,
  \* pulsebuf_lock and, per caller, where it is and what it remembers
  lock, pc, opts, was_powered, moved,
  \* history: a resume's laser-off lead is playing; the run has stepped
  lead, stepped

history    == <<lead, stepped>>
port       == <<fire_bit, flash>>
statusVars == <<state, triggered_faults, accelerating, decelerating,
                decel_on_interrupt, waypoint_armed, running_backward, history>>
faultVars  == <<lines, pending_faults, ignored_faults>>
timerVars  == <<epit_hz, ramp_step_freq, ramp_timer, pump_timer>>
ringVars   == <<fifo_in, head, tail, dir, waypoint, inhibit, reg_fire>>
signalVars == <<mailbox, idle_ticks, notify>>
pinVars    == <<latch_locked, fire_driven, port, supply_on, steppers_on>>
callVars   == <<pc, opts, was_powered>>

vars == <<statusVars, streaming, faultVars, timerVars, ringVars, signalVars,
          pinVars, lock, callVars, moved>>

States  == {"idle", "running", "disabled", "fault", "underrun"}
RampMin == 1   \* RAMP_MIN_STEP_FREQUENCY

\* struct cnc_run_options as cnc_run(), cnc_backtrack() and cnc_resume() fill
\* it; preserve_power is left out with the PWM it is about.
RunOptions ==
  {[backward |-> FALSE, accelerate |-> FALSE, decelerate |-> FALSE,
    num_steps |-> 0]}
  \cup {[backward |-> TRUE, accelerate |-> TRUE, decelerate |-> TRUE,
         num_steps |-> n] : n \in 1..MaxWaypoint}
  \cup {[backward |-> FALSE, accelerate |-> TRUE, decelerate |-> FALSE,
         num_steps |-> n] : n \in 0..MaxWaypoint}

ZeroOptions == [backward |-> FALSE, accelerate |-> FALSE,
                decelerate |-> FALSE, num_steps |-> 0]

\* The places a caller can be preempted or asleep at inside a command.
Places == {"idle", "run_snapshot", "run_empty", "run_regs", "run_inhibit",
           "run_power", "run_commit", "power_off", "supply_off",
           "enable_power", "enable_commit", "z_step"}

\* What the direction write of a byte may show.
Flashes == {"none", "first", "later"}

DriverTypes ==
  /\ state \in States
  /\ triggered_faults \subseteq Faults
  /\ lines \subseteq Faults /\ pending_faults \subseteq Faults
  /\ ignored_faults \subseteq Faults
  /\ accelerating \in BOOLEAN /\ decelerating \in BOOLEAN
  /\ decel_on_interrupt \in BOOLEAN /\ waypoint_armed \in BOOLEAN
  /\ running_backward \in BOOLEAN /\ streaming \in BOOLEAN
  /\ ramp_timer \in BOOLEAN /\ pump_timer \in BOOLEAN
  /\ latch_locked \in BOOLEAN
  /\ fire_driven \in BOOLEAN /\ fire_bit \in BOOLEAN
  /\ supply_on \in BOOLEAN /\ steppers_on \in BOOLEAN
  /\ lead \in BOOLEAN /\ stepped \in BOOLEAN
  /\ flash \in Flashes

EngineTypes ==
  /\ inhibit \in BOOLEAN /\ reg_fire \in BOOLEAN
  /\ mailbox \in BOOLEAN /\ notify \in BOOLEAN
  /\ epit_hz \in 0..StepFreq
  /\ ramp_step_freq \in 1..StepFreq
  /\ fifo_in \in 0..MaxBytes
  /\ head \in -1..(MaxBytes + 1) /\ tail \in 0..MaxBytes
  /\ dir \in {-1, 0, 1}
  /\ waypoint \in 0..MaxWaypoint
  /\ idle_ticks \in 0..(Renotify - 1)

CallTypes ==
  /\ lock \in Procs \cup {Free}
  /\ pc \in [Procs -> Places]
  /\ opts \in [Procs -> RunOptions]
  /\ was_powered \in [Procs -> BOOLEAN]
  /\ moved \in [Procs -> BOOLEAN]

TypeOK == DriverTypes /\ EngineTypes /\ CallTypes

\* cnc_probe(): the initial state is disabled unless an unmasked line reads
\* asserted (nothing is masked yet); the pins as pin_configs requests them.
Init ==
  /\ lines \in SUBSET Faults
  /\ triggered_faults = lines
  /\ state = IF lines = {} THEN "disabled" ELSE "fault"
  /\ pending_faults = {} /\ ignored_faults = {}
  /\ accelerating = FALSE /\ decelerating = FALSE
  /\ decel_on_interrupt = FALSE /\ waypoint_armed = FALSE
  /\ running_backward = FALSE /\ streaming = FALSE
  /\ epit_hz = 0 /\ ramp_step_freq = StepFreq
  /\ ramp_timer = FALSE /\ pump_timer = FALSE
  /\ fifo_in = 0 /\ head = 0 /\ tail = 0 /\ dir = 1 /\ waypoint = 0
  /\ inhibit = FALSE /\ mailbox = FALSE /\ idle_ticks = 0 /\ notify = FALSE
  /\ latch_locked = TRUE /\ fire_driven = FALSE /\ fire_bit = FALSE
  /\ reg_fire = FALSE /\ flash = "none"
  /\ supply_on = FALSE /\ steppers_on = FALSE
  /\ lock = Free
  /\ pc = [p \in Procs |-> "idle"]
  /\ opts = [p \in Procs |-> ZeroOptions]
  /\ was_powered = [p \in Procs |-> FALSE]
  /\ moved = [p \in Procs |-> FALSE]
  /\ lead = FALSE /\ stepped = FALSE

-----------------------------------------------------------------------------
(* Parts shared by the handlers.                                           *)

Goto(p, place) == pc' = [pc EXCEPT ![p] = place]

\* A caller inside a run request; only there do its locals mean anything.
RunPlaces == {"run_snapshot", "run_empty", "run_regs", "run_inhibit",
              "run_power", "run_commit"}

\* A run request ends: the caller's locals go out of scope.
LeaveRun(p, place) ==
  /\ Goto(p, place)
  /\ opts' = [opts EXCEPT ![p] = ZeroOptions]
  /\ was_powered' = [was_powered EXCEPT ![p] = FALSE]
  /\ moved' = [moved EXCEPT ![p] = FALSE]

\* epit_stop(), sdma_event_disable().  A definition named Mut_* is a plausible
\* bug in the definition after it; no behaviour uses it.
StopTicks == epit_hz' = 0

\* The run-scoped flags, so nothing stale leaks into the next run.

DropRunFlags ==
  /\ accelerating' = FALSE /\ decelerating' = FALSE
  /\ decel_on_interrupt' = FALSE /\ waypoint_armed' = FALSE
  /\ running_backward' = FALSE
  /\ lead' = FALSE /\ stepped' = FALSE

\* cnc_shutdown_pin_changes for disabled, cnc_stop_pin_changes otherwise.
\* Both park FIRE Hi-Z; only the first locks the latch and drops the drivers.
ParkOutputs(next) ==
  /\ fire_driven' = FALSE
  /\ IF next = "disabled"
     THEN latch_locked' = TRUE /\ steppers_on' = FALSE
     ELSE UNCHANGED <<latch_locked, steppers_on>>
  /\ UNCHANGED <<port, supply_on>>

\* stop_generation++, as every pending request sees it.
CountStop ==
  /\ moved' = [p \in Procs |-> pc[p] \in RunPlaces]

\* _driver_stop(): the hrtimer cancels in it are behind !in_softirq(), which
\* never holds where it runs (softirq, or a spin_lock_bh section), so the
\* timers stay queued and retire themselves.
DriverStop(next) ==
  /\ state' = next
  /\ StopTicks
  /\ DropRunFlags
  /\ ParkOutputs(next)
  /\ CountStop

\* _cnc_decel_start(): slow down from wherever the speed is, FIRE parked.
Mut_DecelWithoutTimer ==
  /\ accelerating' = FALSE /\ decelerating' = TRUE
  /\ ramp_step_freq' = StepFreq /\ fire_driven' = FALSE
  /\ UNCHANGED ramp_timer

DecelStart ==
  /\ accelerating' = FALSE /\ decelerating' = TRUE
  /\ IF decelerating
     THEN UNCHANGED <<ramp_step_freq, ramp_timer, fire_driven>>
     ELSE /\ ramp_step_freq' = IF accelerating THEN ramp_step_freq ELSE StepFreq
          /\ ramp_timer' = TRUE
          /\ fire_driven' = FALSE

\* FIRE is driven again, and driven low before it can be seen.
DriveLow == fire_driven' = TRUE /\ fire_bit' = FALSE /\ flash' = "none"

\* What DecelStart leaves alone.
DecelFrame ==
  UNCHANGED <<state, triggered_faults, running_backward, history, epit_hz,
              pump_timer, ringVars, latch_locked, port, supply_on,
              steppers_on, moved>>

\* A command that changed nothing the model sees is not an action; every
\* action of a caller starts from a caller with no command under way.
Ready(p) == pc[p] = "idle"

-----------------------------------------------------------------------------
(* cnc_run_with_options(), step by step.                                   *)

\* The first locked section: only idle and disabled may start.
RunCheck(p, o) ==
  /\ Ready(p)
  /\ state \in {"idle", "disabled"}
  /\ opts' = [opts EXCEPT ![p] = o]
  /\ Goto(p, "run_snapshot")
  /\ UNCHANGED <<statusVars, streaming, faultVars, timerVars, ringVars,
                 signalVars, pinVars, lock, was_powered, moved>>

\* stop_gen is read after the lock is released.  moved[p] is the truth of
\* stop_generation # stop_gen, which is all the code ever asks of them.
RunSnapshot(p) ==
  /\ pc[p] = "run_snapshot"
  /\ moved' = [moved EXCEPT ![p] = FALSE]
  /\ Goto(p, "run_empty")
  /\ UNCHANGED <<statusVars, streaming, faultVars, timerVars, ringVars,
                 signalVars, pinVars, lock, opts, was_powered>>

\* cnc_buffer_is_empty() and verify_sdma_script(): -ENODATA on an empty ring,
\* an error when a context or program-memory transfer fails.
RunEmpty(p) ==
  /\ pc[p] = "run_empty"
  /\ \/ /\ head # fifo_in
        /\ Goto(p, "run_regs")
        /\ UNCHANGED <<opts, was_powered, moved>>
     \/ LeaveRun(p, "idle")
  /\ UNCHANGED <<statusVars, streaming, faultVars, timerVars, ringVars,
                 signalVars, pinVars, lock>>

\* cnc_buffer_max_backtrack_length() on an unwrapped ring: every byte behind
\* the play head is genuine; the ramp's tail is held back.
MaxBacktrack == IF head > DecelSteps THEN head - DecelSteps ELSE 0

\* Which way the script walks, and whether it masks the laser bits.
Mut_DirectionForward(o) == 1
Direction(o) == IF o.backward THEN -1 ELSE 1

Mut_NoInhibit(o) == FALSE
LaserInhibit(o) == o.accelerate /\ ~o.backward

\* Under pulsebuf_lock: refuse a backtrack longer than the history, then set
\* scratch5..scratch7.  The state is not looked at again before they are set.
RunRegs(p) ==
  /\ pc[p] = "run_regs"
  /\ lock = Free
  /\ \/ /\ opts[p].backward => opts[p].num_steps <= MaxBacktrack
        /\ lock' = p
        /\ tail' = IF opts[p].backward THEN 0 ELSE fifo_in
        /\ dir' = Direction(opts[p])
        /\ waypoint' = opts[p].num_steps
        /\ Goto(p, "run_inhibit")
        /\ UNCHANGED <<opts, was_powered, moved>>
     \/ \* refused as too long, or the context load failed
        /\ LeaveRun(p, "idle")
        /\ UNCHANGED <<lock, tail, dir, waypoint>>
  /\ UNCHANGED <<statusVars, streaming, faultVars, timerVars, fifo_in, head,
                 inhibit, reg_fire, signalVars, pinVars>>

\* The laser inhibit of a resume's lead, written on every run.
RunInhibit(p) ==
  /\ pc[p] = "run_inhibit"
  /\ \/ /\ inhibit' = LaserInhibit(opts[p])
        /\ Goto(p, "run_power")
        /\ UNCHANGED <<lock, opts, was_powered, moved>>
     \/ \* the context load failed
        /\ lock' = Free
        /\ LeaveRun(p, "idle")
        /\ UNCHANGED inhibit
  /\ UNCHANGED <<statusVars, streaming, faultVars, timerVars, fifo_in, head,
                 tail, dir, waypoint, reg_fire, signalVars, pinVars>>

\* stepper_power_on_unchecked(): the result of regulator_enable() is logged
\* and otherwise ignored; the startup pin set enables the drivers.
Mut_PowerOnPinsOnly ==
  /\ steppers_on' = TRUE
  /\ UNCHANGED <<supply_on, latch_locked, fire_driven, port>>

PowerOn ==
  /\ \/ supply_on' = TRUE
     \/ SupplyMayFail /\ UNCHANGED supply_on
  /\ steppers_on' = TRUE
  /\ UNCHANGED <<latch_locked, fire_driven, port>>

\* The end-of-data mailbox starts every run clear.
Mut_MailboxKept == mailbox
MailboxAtStart == FALSE

\* Clear the mailbox, remember whether the rail was up, power on.
RunPower(p) ==
  /\ pc[p] = "run_power"
  /\ mailbox' = MailboxAtStart
  /\ was_powered' = [was_powered EXCEPT ![p] = supply_on]
  /\ PowerOn
  /\ Goto(p, "run_commit")
  /\ UNCHANGED <<statusVars, streaming, faultVars, timerVars, ringVars,
                 idle_ticks, notify, lock, opts, moved>>

Mut_CommitIgnoresState(p) == triggered_faults # {}

CommitRefused(p) ==
  \/ triggered_faults # {}
  \/ moved[p]
  \/ state \notin {"idle", "disabled"}

\* The locked commit that turns the request into a run.
Commit(p) ==
  LET o == opts[p]
      armed == o.num_steps > 0
  IN
  /\ ~CommitRefused(p)
  /\ state' = "running"
  /\ waypoint_armed' = armed
  /\ decel_on_interrupt' = (o.decelerate /\ armed)
  /\ running_backward' = o.backward
  /\ IF latch_locked
     THEN UNCHANGED <<fire_driven, port>>
     ELSE DriveLow
  /\ pump_timer' = TRUE
  /\ IF o.accelerate
     THEN \* epit_start_hz(RAMP_MIN); _cnc_accel_start()
          /\ epit_hz' = RampMin
          /\ IF accelerating
             THEN UNCHANGED <<accelerating, decelerating, ramp_step_freq,
                              ramp_timer>>
             ELSE /\ ramp_step_freq' = IF decelerating THEN ramp_step_freq
                                                       ELSE RampMin
                  /\ accelerating' = TRUE /\ decelerating' = FALSE
                  /\ ramp_timer' = TRUE
     ELSE /\ epit_hz' = StepFreq
          /\ UNCHANGED <<accelerating, decelerating, ramp_step_freq, ramp_timer>>
  /\ lead' = (o.accelerate /\ ~o.backward) /\ stepped' = FALSE
  /\ LeaveRun(p, "idle")
  /\ UNCHANGED <<triggered_faults, latch_locked, supply_on, steppers_on>>

\* -EPERM, and power off again when it was this request that powered on.
Refuse(p) ==
  /\ CommitRefused(p)
  /\ LeaveRun(p, IF was_powered[p] THEN "idle" ELSE "power_off")
  /\ UNCHANGED <<statusVars, timerVars, pinVars>>

RunCommit(p) ==
  /\ pc[p] = "run_commit"
  /\ Commit(p) \/ Refuse(p)
  /\ lock' = Free
  /\ UNCHANGED <<streaming, faultVars, ringVars, signalVars>>

\* stepper_power_off(), outside every lock.
PowerOff(p) ==
  /\ pc[p] = "power_off"
  /\ supply_on' = FALSE /\ steppers_on' = FALSE
  /\ latch_locked' = TRUE /\ fire_driven' = FALSE
  /\ Goto(p, "idle")
  /\ UNCHANGED <<statusVars, streaming, faultVars, timerVars, ringVars,
                 signalVars, port, lock, opts, was_powered, moved>>

-----------------------------------------------------------------------------
(* The other commands.                                                     *)

\* cnc_stop()
Stop(p) ==
  /\ Ready(p)
  /\ \/ /\ state = "underrun"
        /\ state' = "idle"
        /\ UNCHANGED <<triggered_faults, accelerating, decelerating,
                       decel_on_interrupt, waypoint_armed, running_backward,
                       history, timerVars, ringVars, pinVars, moved>>
     \/ /\ state = "running"
        /\ DecelStart /\ DecelFrame
        /\ UNCHANGED <<decel_on_interrupt, waypoint_armed>>
  /\ UNCHANGED <<streaming, faultVars, signalVars, lock, callVars>>

\* cnc_halt()
Halt(p) ==
  /\ Ready(p)
  /\ state = "running"
  /\ DriverStop("idle")
  /\ UNCHANGED <<triggered_faults, streaming, faultVars, ramp_step_freq,
                 ramp_timer, pump_timer, ringVars, signalVars, lock, callVars>>

\* cnc_disable(): the locked section, then the supply, outside the lock.
Disable(p) ==
  /\ Ready(p)
  /\ state \in {"idle", "running", "underrun"}
  /\ DriverStop("disabled")
  /\ Goto(p, "supply_off")
  /\ UNCHANGED <<triggered_faults, streaming, faultVars, ramp_step_freq,
                 ramp_timer, pump_timer, ringVars, signalVars, lock, opts,
                 was_powered>>

SupplyOff(p) ==
  /\ pc[p] = "supply_off"
  /\ supply_on' = FALSE
  /\ Goto(p, "idle")
  /\ UNCHANGED <<statusVars, streaming, faultVars, timerVars, ringVars,
                 signalVars, latch_locked, fire_driven, port, steppers_on,
                 lock, opts, was_powered, moved>>

\* cnc_enable(): judge the live lines under the lock, clear the record,
EnableCheck(p) ==
  /\ Ready(p)
  /\ \/ /\ state = "disabled"
        /\ triggered_faults = {}
        /\ UNCHANGED triggered_faults
     \/ /\ state = "fault"
        /\ lines \subseteq ignored_faults
        /\ triggered_faults' = {}
  /\ Goto(p, "enable_power")
  /\ UNCHANGED <<state, accelerating, decelerating, decel_on_interrupt,
                 waypoint_armed, running_backward, history, streaming,
                 faultVars,
                 timerVars, ringVars, signalVars, pinVars, lock, opts,
                 was_powered, moved>>

\* power on outside the lock,
EnablePower(p) ==
  /\ pc[p] = "enable_power"
  /\ PowerOn
  /\ Goto(p, "enable_commit")
  /\ UNCHANGED <<statusVars, streaming, faultVars, timerVars, ringVars,
                 signalVars, lock, opts, was_powered, moved>>

Mut_NoFaultRecheck == FALSE
FaultRacedIn == triggered_faults # {}

\* and go idle unless a fault has come in meanwhile.
EnableCommit(p) ==
  /\ pc[p] = "enable_commit"
  /\ IF FaultRacedIn
     THEN Goto(p, "power_off") /\ UNCHANGED state
     ELSE /\ Goto(p, "idle")
          /\ state' = IF state \in {"disabled", "fault"} THEN "idle" ELSE state
  /\ UNCHANGED <<triggered_faults, accelerating, decelerating,
                 decel_on_interrupt, waypoint_armed, running_backward, history,
                 streaming, faultVars, timerVars, ringVars, signalVars,
                 pinVars, lock, opts, was_powered, moved>>

\* cnc_single_z_step(): the check, then unlocked writes to the GPIO port.
ZStepCheck(p) ==
  /\ Ready(p)
  /\ state \notin {"running", "fault"}
  /\ Goto(p, "z_step")
  /\ UNCHANGED <<statusVars, streaming, faultVars, timerVars, ringVars,
                 signalVars, pinVars, lock, opts, was_powered, moved>>

ZStepPulse(p) ==
  /\ pc[p] = "z_step"
  /\ Goto(p, "idle")
  /\ UNCHANGED <<statusVars, streaming, faultVars, timerVars, ringVars,
                 signalVars, pinVars, lock, opts, was_powered, moved>>

Mut_LatchAlwaysDrives == TRUE
LatchMayDrive == state # "running" /\ ~accelerating /\ ~decelerating

\* cnc_set_laser_latch(): unlocking drives FIRE low-first, but not while a
\* run or a ramp is in flight.
SetLaserLatch(p, locked) ==
  /\ Ready(p)
  /\ latch_locked' = locked
  /\ IF locked
     THEN fire_driven' = FALSE /\ UNCHANGED port
     ELSE IF LatchMayDrive
          THEN DriveLow
          ELSE UNCHANGED <<fire_driven, port>>
  /\ UNCHANGED <<statusVars, streaming, faultVars, timerVars, ringVars,
                 signalVars, supply_on, steppers_on, lock, callVars, moved>>

WriteRejected == state = "running" /\ running_backward

\* write(): rejected while running backward, else enqueue and publish.
Write(p) ==
  /\ Ready(p)
  /\ lock = Free
  /\ ~WriteRejected
  /\ fifo_in < MaxBytes
  /\ fifo_in' = fifo_in + 1
  /\ tail' = fifo_in + 1
  /\ UNCHANGED <<statusVars, streaming, faultVars, timerVars, head, dir,
                 waypoint, inhibit, reg_fire, signalVars, pinVars, lock,
                 callVars, moved>>

\* cnc_clear_pulse_data() with the data flag.
Clear(p) ==
  /\ Ready(p)
  /\ lock = Free
  /\ state # "running"
  /\ fifo_in' = 0 /\ head' = 0 /\ tail' = 0
  /\ UNCHANGED <<statusVars, streaming, faultVars, timerVars, dir, waypoint,
                 inhibit, reg_fire, signalVars, pinVars, lock, callVars, moved>>

\* streaming_store() and ignored_faults_store()
SetStreaming(p) ==
  /\ Ready(p)
  /\ streaming' = ~streaming
  /\ UNCHANGED <<statusVars, faultVars, timerVars, ringVars, signalVars,
                 pinVars, lock, callVars, moved>>

SetIgnoredFaults(p, mask) ==
  /\ Ready(p)
  /\ ignored_faults' = mask
  /\ UNCHANGED <<statusVars, streaming, lines, pending_faults, timerVars,
                 ringVars, signalVars, pinVars, lock, callVars, moved>>

-----------------------------------------------------------------------------
(* Interrupts, tasklets and timers.                                        *)

\* cnc_sdma_interrupt(): the mailbox tells end-of-data from a waypoint.
SdmaInterrupt ==
  /\ notify
  /\ notify' = FALSE
  /\ \/ /\ mailbox /\ state = "running"
        /\ DriverStop(IF streaming THEN "underrun" ELSE "idle")
        /\ UNCHANGED <<ramp_step_freq, ramp_timer, pump_timer, ringVars>>
     \/ /\ ~mailbox /\ waypoint_armed
        /\ waypoint_armed' = FALSE
        /\ decel_on_interrupt' = FALSE
        /\ IF decel_on_interrupt
           THEN DecelStart
           ELSE UNCHANGED <<accelerating, decelerating, ramp_step_freq,
                            ramp_timer, fire_driven>>
        /\ DecelFrame
     \/ /\ IF mailbox THEN state # "running" ELSE ~waypoint_armed
        /\ UNCHANGED <<state, accelerating, decelerating, decel_on_interrupt,
                       waypoint_armed, running_backward, history, timerVars,
                       ringVars, pinVars, moved>>
  /\ UNCHANGED <<triggered_faults, streaming, faultVars, mailbox, idle_ticks,
                 lock, callVars>>

\* The saturating decrement, and the increment that ends at step_freq.
RampDown == IF ramp_step_freq > RampMin + RampDelta
            THEN ramp_step_freq - RampDelta ELSE RampMin
RampUp == IF ramp_step_freq + RampDelta >= StepFreq
          THEN StepFreq ELSE ramp_step_freq + RampDelta

\* ramp_update_tasklet_fn(), one update per RAMP_UPDATE_INTERVAL.
RampUpdate ==
  /\ ramp_timer
  /\ \/ \* a stop came first: the timer retires
        /\ ~decelerating /\ ~accelerating
        /\ ramp_timer' = FALSE
        /\ UNCHANGED <<statusVars, epit_hz, ramp_step_freq, pinVars, moved>>
     \/ /\ decelerating /\ ramp_step_freq <= RampMin
        /\ DriverStop("idle")
        /\ ramp_timer' = FALSE
        /\ UNCHANGED <<triggered_faults, ramp_step_freq>>
     \/ /\ decelerating /\ ramp_step_freq > RampMin
        /\ ramp_step_freq' = RampDown
        /\ epit_hz' = RampDown
        /\ UNCHANGED <<statusVars, ramp_timer, pinVars, moved>>
     \/ /\ ~decelerating /\ accelerating
        /\ ramp_step_freq' = RampUp
        /\ epit_hz' = RampUp
        /\ IF RampUp = StepFreq
           THEN accelerating' = FALSE /\ ramp_timer' = FALSE
           ELSE UNCHANGED <<accelerating, ramp_timer>>
        /\ UNCHANGED <<state, triggered_faults, decelerating,
                       decel_on_interrupt, waypoint_armed, running_backward,
                       history, pinVars, moved>>
  /\ UNCHANGED <<streaming, faultVars, pump_timer, ringVars, signalVars, lock,
                 callVars>>

Mut_PumpOneShot == FALSE
PumpRestarts == state = "running"

\* charge_pump_timer_cb(): feeds while running, retires otherwise.
ChargePump ==
  /\ pump_timer
  /\ pump_timer' = PumpRestarts
  /\ UNCHANGED <<statusVars, streaming, faultVars, epit_hz, ramp_step_freq,
                 ramp_timer, ringVars, signalVars, pinVars, lock, callVars,
                 moved>>

\* cnc_fault_irq_handler() on a falling edge that is still low when read; a
\* line that has already recovered changes nothing.
FaultEdge(f) ==
  /\ f \notin lines
  /\ lines' = lines \cup {f}
  /\ pending_faults' = IF f \in ignored_faults THEN pending_faults
                                               ELSE pending_faults \cup {f}
  /\ UNCHANGED <<statusVars, streaming, ignored_faults, timerVars, ringVars,
                 signalVars, pinVars, lock, callVars, moved>>

FaultRelease(f) ==
  /\ f \in lines
  /\ lines' = lines \ {f}
  /\ UNCHANGED <<statusVars, streaming, pending_faults, ignored_faults,
                 timerVars, ringVars, signalVars, pinVars, lock, callVars,
                 moved>>

Mut_FaultStopsOnlyRuns == state = "running"
FaultMustStop == state # "fault"

\* fault_tasklet_fn(): every fault is fatal.
FaultTasklet ==
  /\ pending_faults # {}
  /\ triggered_faults' = triggered_faults \cup pending_faults
  /\ pending_faults' = {}
  /\ IF FaultMustStop
     THEN DriverStop("fault")
     ELSE UNCHANGED <<state, accelerating, decelerating, decel_on_interrupt,
                      waypoint_armed, running_backward, history, epit_hz,
                      pinVars, moved>>
  /\ UNCHANGED <<streaming, lines, ignored_faults, ramp_step_freq, ramp_timer,
                 pump_timer, ringVars, signalVars, lock, callVars>>

-----------------------------------------------------------------------------
(* The engine: one tick of asm/sdma.asm per EPIT event.                    *)

\* The laser bits a step byte may show: none on a backward walk or under the
\* inhibit.
LaserShown == IF dir = -1 \/ inhibit THEN {FALSE} ELSE BOOLEAN

\* A step byte writes the port twice.  The first write sets the directions and
\* has the laser bits as the last step byte left them in r3, the second has the
\* byte's own.
StepByte ==
  /\ fire_bit' \in LaserShown
  /\ reg_fire' = fire_bit'
  /\ flash' = IF ~reg_fire THEN "none" ELSE IF stepped THEN "later" ELSE "first"
  /\ stepped' = TRUE

\* A power byte leaves the port alone.
PowerByte == flash' = "none" /\ UNCHANGED <<fire_bit, reg_fire, stepped>>

\* A byte is played, head moves by dir, and the waypoint counter ends the
\* inhibit and interrupts the host at zero.
\* Bound: a run that leaves its data is cut short one byte outside it.
PlayByte ==
  /\ epit_hz > 0
  /\ dir # 0 /\ head # tail
  /\ head + dir \in -1..(MaxBytes + 1)
  /\ head' = head + dir
  /\ StepByte \/ PowerByte
  /\ waypoint' = IF waypoint > 0 THEN waypoint - 1 ELSE 0
  /\ IF waypoint = 1
     THEN inhibit' = FALSE /\ notify' = TRUE /\ lead' = FALSE
     ELSE UNCHANGED <<inhibit, notify, lead>>
  /\ UNCHANGED <<state, triggered_faults, accelerating, decelerating,
                 decel_on_interrupt, waypoint_armed, running_backward,
                 streaming, faultVars, timerVars, fifo_in, tail, dir, mailbox,
                 idle_ticks, latch_locked, fire_driven, supply_on,
                 steppers_on, lock, callVars, moved>>

\* alldone: the laser bits of r3 and of the port are forced low.
LinesLow == fire_bit' = FALSE /\ reg_fire' = FALSE /\ flash' = "none"

\* The mailbox word alldone_first publishes.
Mut_NoMailbox == mailbox
MailboxAtEnd == TRUE

\* alldone_first: lines low, direction zero, mailbox set, host interrupted.
EndOfData ==
  /\ epit_hz > 0
  /\ dir # 0 /\ head = tail
  /\ LinesLow
  /\ dir' = 0 /\ waypoint' = 0
  /\ mailbox' = MailboxAtEnd /\ notify' = TRUE /\ idle_ticks' = 0
  /\ UNCHANGED <<statusVars, streaming, faultVars, timerVars, fifo_in, head,
                 tail, inhibit, latch_locked, fire_driven, supply_on,
                 steppers_on, lock, callVars, moved>>

\* alldone while parked: lines low again, a notify every Renotify ticks.
Parked ==
  /\ epit_hz > 0
  /\ dir = 0
  /\ LinesLow
  /\ idle_ticks' = (idle_ticks + 1) % Renotify
  /\ notify' = (notify \/ idle_ticks' = 0)
  /\ UNCHANGED <<statusVars, streaming, faultVars, timerVars, fifo_in, head,
                 tail, dir, waypoint, inhibit, mailbox, latch_locked,
                 fire_driven, supply_on, steppers_on, lock, callVars, moved>>

Tick == PlayByte \/ EndOfData \/ Parked

-----------------------------------------------------------------------------
\* What a caller does once it has begun a command.
Continue(p) ==
  \/ RunSnapshot(p) \/ RunEmpty(p) \/ RunRegs(p) \/ RunInhibit(p)
  \/ RunPower(p) \/ RunCommit(p) \/ PowerOff(p) \/ SupplyOff(p)
  \/ EnablePower(p) \/ EnableCommit(p) \/ ZStepPulse(p)

Uses(p, name) == name \in Commands[p]

Command(p) ==
  \/ Uses(p, "run") /\ \E o \in RunOptions : RunCheck(p, o)
  \/ Uses(p, "stop") /\ Stop(p)
  \/ Uses(p, "halt") /\ Halt(p)
  \/ Uses(p, "disable") /\ Disable(p)
  \/ Uses(p, "enable") /\ EnableCheck(p)
  \/ Uses(p, "z_step") /\ ZStepCheck(p)
  \/ Uses(p, "latch") /\ \E locked \in BOOLEAN : SetLaserLatch(p, locked)
  \/ Uses(p, "write") /\ Write(p)
  \/ Uses(p, "clear") /\ Clear(p)
  \/ Uses(p, "streaming") /\ SetStreaming(p)
  \/ Uses(p, "ignored_faults") /\ \E mask \in SUBSET Faults :
                                 SetIgnoredFaults(p, mask)

Softirq == SdmaInterrupt \/ RampUpdate \/ ChargePump \/ FaultTasklet

Next ==
  \/ \E p \in Procs : Command(p) \/ Continue(p)
  \/ Softirq
  \/ \E f \in Faults : FaultEdge(f) \/ FaultRelease(f)
  \/ Tick

Spec == Init /\ [][Next]_vars

\* Raised softirqs run; nothing is assumed of the callers, nor of the engine
\* (RunEnds says where it is).
Fairness ==
  WF_vars(SdmaInterrupt) /\ WF_vars(RampUpdate) /\ WF_vars(FaultTasklet)

FairSpec == Spec /\ Fairness

-----------------------------------------------------------------------------
(* Properties that hold however many callers there are.                    *)

\* FIRE reaches the tube: by the port as a byte leaves it, or for the moment of
\* the byte's direction write.
Emitting == fire_driven /\ (fire_bit \/ flash # "none")

\* A recorded fault keeps the driver in the fault state: no command, softirq
\* or half-finished enable leaves it while a fault is on record.
FaultLatched == triggered_faults # {} => state = "fault"

\* The EPIT ticks exactly while the driver says it is running, so a stop on
\* any path (ramp, end of data, fault, halt, disable) has stopped the engine.
TickOnlyRunning == (epit_hz > 0) <=> (state = "running")

\* The beam needs a run under way, no controlled stop in progress and the
\* latch released, in every interleaving of commands, ramps and latch writes.
EmissionGate == Emitting => state = "running" /\ ~decelerating /\ ~latch_locked

\* The run-scoped flags never outlive the run, and a ramp goes one way.
FlagsRunScoped ==
  /\ accelerating \/ decelerating \/ waypoint_armed \/ decel_on_interrupt
       \/ running_backward => state = "running"
  /\ ~(accelerating /\ decelerating)
  /\ decel_on_interrupt => waypoint_armed

\* A ramp has its timer queued, and so has the watchdog feed of a run: a timer
\* left over from the previous run cannot retire under the new one.
TimersArmed ==
  /\ accelerating \/ decelerating => ramp_timer
  /\ state = "running" => pump_timer

\* What a run sets up lasts as long as the run and no longer, whichever way it ends.
Inv == TypeOK /\ TickOnlyRunning /\ FlagsRunScoped /\ TimersArmed

\* The driver implements the documented life cycle.
Abstract == INSTANCE Lifecycle
              WITH st <- state, latched <- triggered_faults # {},
                   emitting <- Emitting
LifecycleSpec == Abstract!LSpec

\* The engine's tick is what the script promises a byte to be, whatever a request does
\* to the script's registers meanwhile.
Player == INSTANCE Playback WITH fed <- fifo_in, lit <- fire_bit
PlaybackSpec == Player!PSpec

-----------------------------------------------------------------------------
(* Properties of a driver that one task runs and (RailUp) powers, whatever *)
(* others stop, halt, feed and unlock.  Two runners can break each: the    *)
(* section between the state check and the commit of a run sleeps, writes  *)
(* the script's registers and touches the power (README, "Findings").      *)

\* The script walks the way the driver believes it does, which is what write()
\* judges by when it decides whether publishing a new tail is safe.
DirectionAgrees ==
  state = "running" /\ dir # 0 => ((dir = -1) <=> running_backward)

\* In a backward run, and in a resume until the byte its waypoint names has been
\* played (or to its end when it names none), FIRE is seen at most once: in the
\* direction write of the run's first step byte, never in a byte's own write and
\* in no later byte, whatever the bytes say.
RetraceDark ==
  running_backward \/ lead => (Emitting => ~fire_bit /\ flash = "first")

\* During a run the mailbox says "end of data" only once the script has parked,
\* so the interrupt callback never ends a run that still has bytes to play.
MailboxTruth == state = "running" /\ mailbox => dir = 0

\* Motion and FIRE only with the 40 V rail and the motor drivers up.
RailUp == state = "running" => supply_on /\ steppers_on

\* With an EPIT that ticks while it is enabled, a run ends: data runs out,
\* however the signals coalesce, and the host hears.
RunEnds == WF_vars(Tick) => (state = "running" ~> state # "running")

\* A controlled stop reaches standstill by its timer alone, whatever happens to
\* the data, and also when it is asked for twice or during an acceleration.
DecelEnds == decelerating ~> state # "running"

\* A fault seen by the interrupt handler puts the driver in the fault state,
\* whatever it was doing.
FaultStops == pending_faults # {} ~> state = "fault"
=============================================================================
