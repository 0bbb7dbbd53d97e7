------------------------------- MODULE Device --------------------------------
(***************************************************************************)
(* /dev/glowforge and its dead man's switch (the file operations of        *)
(* src/cnc_api.c), over a driver that is probed and removed (Bringup) and  *)
(* otherwise moves as module Lifecycle says - module Cnc is what it does.  *)
(*                                                                         *)
(* open() runs under the misc core's mutex, as misc_deregister() does, and *)
(* is one step.  A close is a sequence of steps of the task that dropped   *)
(* the last reference; every other task may move in between.  The other    *)
(* file operations and the attribute stores check, and act later.          *)
(***************************************************************************)
EXTENDS Bringup, FiniteSets

CONSTANTS
  Files,       \* open file descriptions
  Tasks,       \* tasks that write the attributes
  MaxRuns      \* bound: runs that start

ASSUME DeviceAssumption ==
  "cnc" \in Drivers /\ "nobody" \notin Files /\ MaxRuns \in Nat

VARIABLES
  st, latched, emitting,   \* the driver, as module Lifecycle has it
  latch_locked,            \* the laser latch
  timers,      \* hrtimers in the queue: "ramp", "pump", "sampler"
  rail,        \* the 40 V supply is on
  loaded,      \* the ring has unplayed data
  in_use, armed,           \* pulsedev_in_use, deadman_switch_active
  fop,         \* per file: "closed", "open", inside a call, or the step of its close
  read,        \* per file: what its close has read
  store,       \* per task: the attribute store it is inside
  runs,        \* history: runs so far
  armed_by,    \* history: the file whose flock armed the switch
  tripped_by,  \* history: the file whose close has tripped the switch
  late,        \* history: the files during whose close a run has started
  own,         \* history: the files opened on the present driver data
  meddled      \* history: a file left open over an unbind has got at later data

lifeVars == <<st, latched, emitting>>
hwVars   == <<latch_locked, timers, rail, loaded>>
fileVars == <<in_use, armed, fop, read, armed_by, tripped_by, own, meddled>>
callVars == <<store, runs, late>>
dataVars == <<in_use, armed, armed_by, own, meddled>>
vars == <<bringVars, lifeVars, hwVars, fileVars, callVars>>

Life == INSTANCE Lifecycle

Has(item) == item \in held["cnc"]
Nobody == "nobody"
ReadNothing == [armed |-> FALSE, running |-> FALSE]
Closing == {"close_halt", "close_chain", "close_latch", "close_clear"}
Calls == {"write", "clear", "lock", "unlock"}
Stores == {"none", "run", "enable", "disable", "stop", "unlock_laser", "halt"}

-----------------------------------------------------------------------------
(* The driver under the file: the attribute stores, the engine, faults.    *)

\* sysfs lets a store in while the attributes exist, and removing them waits.
EnterStore(t) ==
  /\ store[t] = "none" /\ Has("group")
  /\ \E s \in Stores \ {"none"} : store' = [store EXCEPT ![t] = s]
  /\ UNCHANGED <<bringVars, lifeVars, hwVars, fileVars, runs, late>>

LeaveStore(t) == store' = [store EXCEPT ![t] = "none"]

\* A run powers up and commits; it is refused without data or in another state.
Run(t) ==
  /\ store[t] = "run" /\ LeaveStore(t)
  /\ \/ /\ loaded /\ runs < MaxRuns
        /\ Life!Begin
        /\ runs' = runs + 1
        /\ late' = {f \in Files : fop[f] \in Closing}
        /\ rail' = TRUE /\ timers' = timers \cup {"pump"}
     \/ UNCHANGED <<lifeVars, rail, timers, runs, late>>
  /\ UNCHANGED <<bringVars, latch_locked, loaded, fileVars>>

\* The output pins a stop leaves: a disable also locks the latch.
Stop(next) == Life!End /\ st' = next

Halt == IF st = "running" THEN Stop("idle") ELSE UNCHANGED lifeVars

Command(t) ==
  /\ LeaveStore(t)
  /\ \/ /\ store[t] = "halt" /\ Halt
        /\ UNCHANGED <<rail, timers, latch_locked>>
     \/ /\ store[t] = "stop"
        /\ timers' = IF st = "running" THEN timers \cup {"ramp"} ELSE timers
        /\ UNCHANGED <<lifeVars, rail, latch_locked>>
     \/ /\ store[t] = "disable"
        /\ IF st \in {"running", "idle", "underrun"}
           THEN /\ \/ Stop("disabled")
                   \/ st # "running" /\ Life!Settle /\ st' = "disabled"
                /\ rail' = FALSE /\ latch_locked' = TRUE
           ELSE UNCHANGED <<lifeVars, rail, latch_locked>>
        /\ UNCHANGED timers
     \/ /\ store[t] = "enable"
        /\ IF (st = "disabled" /\ latched = FALSE) \/ st = "fault"
           THEN /\ st' = "idle" /\ latched' = FALSE /\ UNCHANGED emitting
                /\ rail' = TRUE
           ELSE UNCHANGED <<lifeVars, rail>>
        /\ UNCHANGED <<timers, latch_locked>>
     \/ /\ store[t] = "unlock_laser"
        /\ latch_locked' = FALSE
        /\ UNCHANGED <<lifeVars, rail, timers>>
  /\ UNCHANGED <<bringVars, loaded, fileVars, runs, late>>

\* The script plays and, through the callback, ends the run or arms the ramp.
Play ==
  /\ Has("epit") /\ Life!Emit
  /\ UNCHANGED <<bringVars, hwVars, fileVars, callVars>>

EndOfData ==
  /\ Has("callback")
  /\ \/ \E next \in {"idle", "underrun"} : Stop(next) /\ UNCHANGED timers
     \/ /\ st = "running" /\ timers' = timers \cup {"ramp"}
        /\ UNCHANGED lifeVars
  /\ loaded' \in {loaded, FALSE}
  /\ UNCHANGED <<bringVars, latch_locked, rail, fileVars, callVars>>

\* The ramp ends the run or goes on, or retires with its run over; module Cnc
\* tells when which.
RampTimer ==
  /\ "ramp" \in timers
  /\ timers' \in {timers, timers \ {"ramp"}}
  /\ Halt
  /\ UNCHANGED <<bringVars, latch_locked, rail, loaded, fileVars, callVars>>

PumpTimer ==
  /\ "pump" \in timers /\ st # "running"
  /\ timers' = timers \ {"pump"}
  /\ UNCHANGED <<bringVars, lifeVars, latch_locked, rail, loaded, fileVars, callVars>>

\* A fault interrupt and its tasklet.  Over released pins the handler's de-glitch
\* reads nothing it can act on (IrqsReadHeldPins).
FaultLine ==
  /\ Has("irq1") /\ Has("gpios") /\ Life!Fault
  /\ UNCHANGED <<bringVars, hwVars, fileVars, callVars>>

-----------------------------------------------------------------------------
(* The file.                                                               *)

\* pulsedev_open(): the switch of the previous holder is not inherited.
Mut_Open(f) ==
  /\ Has("device") /\ fop[f] = "closed"
  /\ in_use = FALSE /\ in_use' = TRUE
  /\ fop' = [fop EXCEPT ![f] = "open"] /\ own' = own \cup {f}
  /\ UNCHANGED <<bringVars, lifeVars, hwVars, armed, armed_by, read, tripped_by, meddled, callVars>>
Open(f) ==
  /\ Has("device") /\ fop[f] = "closed"
  /\ in_use = FALSE /\ in_use' = TRUE
  /\ armed' = FALSE /\ armed_by' = Nobody
  /\ fop' = [fop EXCEPT ![f] = "open"] /\ own' = own \cup {f}
  /\ UNCHANGED <<bringVars, lifeVars, hwVars, read, tripped_by, meddled, callVars>>

\* Every call first looks at the driver data pointer, through the parent field of
\* a miscdevice that lives in the driver data.
Live == Has("drvdata")

\* Whether a step of the file's task, past that look, meets the driver's data.  Of a
\* file that was open when the driver was unbound nobody can tell: what it looks
\* through is freed memory, and the driver may have been bound again since.
Meets(f) == IF f \in own THEN {Has("data")} ELSE {FALSE, Has("data")}

\* A file gets past the look.
Pass(f) == meddled' = (meddled \/ f \notin own)

EnterCall(f) ==
  /\ fop[f] = "open" /\ Live
  /\ \E c \in Calls : fop' = [fop EXCEPT ![f] = c]
  /\ Pass(f)
  /\ UNCHANGED <<bringVars, lifeVars, hwVars, in_use, armed, read, armed_by, tripped_by, own, callVars>>

\* What a call does to data that have been freed is not the driver's any more.
Call(f) ==
  /\ fop[f] \in Calls
  /\ fop' = [fop EXCEPT ![f] = "open"]
  /\ \E met \in Meets(f) :
       CASE met /\ fop[f] = "write" ->
              loaded' \in {loaded, Has("ring")} /\ UNCHANGED <<armed, armed_by>>
         [] met /\ fop[f] = "clear" ->
              loaded' = (loaded /\ st = "running") /\ UNCHANGED <<armed, armed_by>>
         [] met /\ fop[f] = "lock" ->
              armed' = TRUE /\ armed_by' = f /\ UNCHANGED loaded
         [] met /\ fop[f] = "unlock" ->
              armed' = FALSE /\ armed_by' = Nobody /\ UNCHANGED loaded
         [] OTHER -> UNCHANGED <<loaded, armed, armed_by>>
  /\ UNCHANGED <<bringVars, lifeVars, latch_locked, timers, rail, in_use, read, tripped_by,
                 own, meddled, callVars>>

\* pulsedev_close(), by the last reference: with the data gone, -ENODEV.
CloseDead(f) ==
  /\ fop[f] = "open" /\ (~Live \/ f \notin own)
  /\ fop' = [fop EXCEPT ![f] = "closed"] /\ own' = own \ {f}
  /\ UNCHANGED <<bringVars, lifeVars, hwVars, in_use, armed, read, armed_by, tripped_by,
                 meddled, callVars>>

\* It reads state and switch ...
StartClose(f) ==
  /\ fop[f] = "open" /\ Live
  /\ \E a \in BOOLEAN, r \in BOOLEAN :
       /\ f \in own => a = (armed /\ Has("data")) /\ r = (st = "running")
       /\ read' = [read EXCEPT ![f] = [armed |-> a, running |-> r]]
  /\ fop' = [fop EXCEPT ![f] = "close_halt"]
  /\ Pass(f)
  /\ UNCHANGED <<bringVars, lifeVars, hwVars, in_use, armed, armed_by, tripped_by, own, callVars>>

Trips(r) == r.armed /\ r.running

\* ... and on a trip halts the driver, whatever runs by now, ...
Mut_CloseStops(f) ==
  /\ fop[f] = "close_halt"
  /\ timers' = IF Trips(read[f]) /\ Has("data") /\ st = "running" THEN timers \cup {"ramp"} ELSE timers
  /\ tripped_by' = IF Trips(read[f]) THEN f ELSE tripped_by
  /\ fop' = [fop EXCEPT ![f] = "close_chain"]
  /\ UNCHANGED <<bringVars, lifeVars, latch_locked, rail, loaded, in_use, armed, read, armed_by,
                 own, meddled, callVars>>
CloseHalt(f) ==
  /\ fop[f] = "close_halt"
  /\ \E met \in Meets(f) : IF Trips(read[f]) /\ met THEN Halt ELSE UNCHANGED lifeVars
  /\ tripped_by' = IF Trips(read[f]) THEN f ELSE tripped_by
  /\ fop' = [fop EXCEPT ![f] = "close_chain"]
  /\ UNCHANGED <<bringVars, hwVars, in_use, armed, read, armed_by, own, meddled, callVars>>

\* ... walks the dead man's chain (module Safing has its members), ...
CloseChain(f) ==
  /\ fop[f] = "close_chain"
  /\ fop' = [fop EXCEPT ![f] = "close_latch"]
  /\ UNCHANGED <<bringVars, lifeVars, hwVars, in_use, armed, read, armed_by, tripped_by, own,
                 meddled, callVars>>

\* ... locks the laser latch, and lets the next one open the file.
CloseLatch(f) ==
  /\ fop[f] = "close_latch"
  /\ \E met \in Meets(f) : latch_locked' = (latch_locked \/ (met /\ Has("gpios")))
  /\ fop' = [fop EXCEPT ![f] = "close_clear"]
  /\ UNCHANGED <<bringVars, lifeVars, timers, rail, loaded, in_use, armed, read, armed_by,
                 tripped_by, own, meddled, callVars>>

CloseClear(f) ==
  /\ fop[f] = "close_clear"
  /\ \E met \in Meets(f) : in_use' = IF met THEN FALSE ELSE in_use
  /\ fop' = [fop EXCEPT ![f] = "closed"] /\ own' = own \ {f}
  /\ read' = [read EXCEPT ![f] = ReadNothing] /\ tripped_by' = Nobody /\ late' = late \ {f}
  /\ UNCHANGED <<bringVars, lifeVars, hwVars, armed, armed_by, meddled, store, runs>>

-----------------------------------------------------------------------------
(* Probe and remove, with what their steps do to the driver.               *)

\* devm_kzalloc() and the initial state; the fault lines are read with the first
\* interrupt.
ProbeStep ==
  \E item \in {CncAcquire[i] : i \in 1..Len(CncAcquire)} :
    /\ Obtain("cnc", item)
    /\ CASE item = "data" ->
              /\ st' = "disabled" /\ latched' = FALSE /\ emitting' = FALSE
              /\ in_use' = FALSE /\ armed' = FALSE /\ armed_by' = Nobody
              /\ own' = {} /\ meddled' = (meddled \/ \E f \in Files : fop[f] \in Calls \cup Closing)
              /\ loaded' = FALSE /\ UNCHANGED <<timers, latch_locked>>
         [] item = "gpios" ->
              latch_locked' = TRUE /\ UNCHANGED <<lifeVars, dataVars, loaded, timers>>
         [] item = "irq1" ->
              /\ \/ UNCHANGED lifeVars
                 \/ Life!Fault
              /\ UNCHANGED <<dataVars, loaded, timers, latch_locked>>
         [] item = "sampler" ->
              /\ timers' = timers \cup {"sampler"}
              /\ UNCHANGED <<lifeVars, dataVars, loaded, latch_locked>>
         [] OTHER -> UNCHANGED <<lifeVars, dataVars, loaded, timers, latch_locked>>
    /\ UNCHANGED <<rail, fop, read, tripped_by, callVars>>

\* Removing the attributes waits for the stores, destroying the ring drops its
\* data.  Nothing waits for the file operations.
StoresOut == \A t \in Tasks : store[t] = "none"

AbortStep ==
  \E step \in {CncUnwind[i] : i \in 1..Len(CncUnwind)} :
    /\ Undo("cnc", step)
    /\ step = "group" => StoresOut
    /\ loaded' = (loaded /\ step # "ring")
    /\ UNCHANGED <<lifeVars, latch_locked, timers, rail, fileVars, callVars>>

RemoveStep ==
  \E step \in {CncRemove[i] : i \in 1..Len(CncRemove)} :
    /\ TakeDown("cnc", step)
    /\ step = "group" => StoresOut
    /\ timers' = CASE step = "ramp_timer" -> timers \ {"ramp"}
                   [] step = "pump_timer" -> timers \ {"pump"}
                   [] step = "sampler" -> timers \ {"sampler"}
                   [] OTHER -> timers
    \* stepper_power_off(): the supply, then the shutdown pin set
    /\ IF step = "rail"
       THEN rail' = FALSE /\ latch_locked' = TRUE /\ emitting' = FALSE
       ELSE UNCHANGED <<rail, latch_locked, emitting>>
    /\ loaded' = (loaded /\ step # "ring")
    /\ UNCHANGED <<st, latched, fileVars, callVars>>

\* The module's code is in use while the device is open (the owner of pulsedev_fops).
Manage ==
  /\ CoreStep("cnc") \/ ModuleStep
  /\ module' = "unloading" /\ module = "live" => \A f \in Files : fop[f] = "closed"
  /\ UNCHANGED <<lifeVars, hwVars, fileVars, callVars>>

Init ==
  /\ BringInit
  /\ st = "disabled" /\ latched = FALSE /\ emitting = FALSE
  /\ latch_locked = TRUE /\ timers = {} /\ rail = FALSE /\ loaded = FALSE
  /\ in_use = FALSE /\ armed = FALSE
  /\ fop = [f \in Files |-> "closed"] /\ read = [f \in Files |-> ReadNothing]
  /\ store = [t \in Tasks |-> "none"] /\ runs = 0
  /\ armed_by = Nobody /\ tripped_by = Nobody /\ late = {}
  /\ own = {} /\ meddled = FALSE

Next ==
  \/ Manage \/ ProbeStep \/ AbortStep \/ RemoveStep
  \/ \E t \in Tasks : EnterStore(t) \/ Run(t) \/ Command(t)
  \/ Play \/ EndOfData \/ RampTimer \/ PumpTimer \/ FaultLine
  \/ \E f \in Files : \/ Open(f) \/ EnterCall(f) \/ Call(f)
                      \/ CloseDead(f) \/ StartClose(f) \/ CloseHalt(f)
                      \/ CloseChain(f) \/ CloseLatch(f) \/ CloseClear(f)

Spec == Init /\ [][Next]_vars

-----------------------------------------------------------------------------
(* Properties.                                                             *)

TypeOK ==
  /\ BringTypeOK
  /\ st \in {"idle", "running", "disabled", "fault", "underrun"}
  /\ latched \in BOOLEAN /\ emitting \in BOOLEAN
  /\ latch_locked \in BOOLEAN /\ rail \in BOOLEAN /\ loaded \in BOOLEAN
  /\ timers \subseteq {"ramp", "pump", "sampler"}
  /\ in_use \in BOOLEAN /\ armed \in BOOLEAN
  /\ fop \in [Files -> {"closed", "open"} \cup Calls \cup Closing]
  /\ read \in [Files -> [armed : BOOLEAN, running : BOOLEAN]]
  /\ store \in [Tasks -> Stores] /\ runs \in 0..MaxRuns /\ late \subseteq Files
  /\ own \subseteq Files /\ meddled \in BOOLEAN
  /\ armed_by \in Files \cup {Nobody} /\ tripped_by \in Files \cup {Nobody}

\* The device has one holder at a time, up to the last step of its close: the
\* next one cannot open it while its predecessor is still locking the latch.  It
\* is the driver data that know the holder, so this is said of the files opened on
\* the present data, and until a file left over from an unbind gets at them.
OneHolder == ~meddled => Cardinality(own) <= 1

\* Without both: "a single-writer device" (pulsedev_flock()).  A definition to check: it
\* fails when the driver is unbound and bound again with the file open.
SingleWriter == Cardinality({f \in Files : fop[f] # "closed"}) <= 1

\* The driver comes and goes without a loss, whoever has its file.
Inv == TypeOK /\ LadderExact /\ OneHolder

\* Only the switch a holder armed itself stops the machine at its close
\* (pulsedev_open()).
OwnTrips ==
  [][~meddled /\ tripped_by' \notin {tripped_by, Nobody} => armed_by = tripped_by']_vars

\* A close with the switch armed leaves no run behind but one that another task
\* started while it was closing: the state it has read may be out of date, what
\* it does about a run is not.
DeadmanStops ==
  \A f \in own :
    fop[f] \in {"close_chain", "close_latch", "close_clear"} /\ read[f].armed
      /\ st = "running" /\ Has("data") => f \in late

\* After the data are freed no timer is queued and the beam is off, and a remove
\* lets go of the pins with the rail off and the laser latch locked - with a run
\* under way, stores and file calls in flight, wherever it starts.
SafeWhenGone ==
  ~meddled =>
    /\ ~Has("data") => timers = {} /\ emitting = FALSE
    /\ phase["cnc"] = "remove" /\ ~Has("gpios")
         => rail = FALSE /\ latch_locked /\ emitting = FALSE

\* Every file operation checks for a driver that is gone before it touches the
\* driver's data (comment on DEV_SELF_FROM_FILP).
FopsTouchLiveData == \A f \in Files : fop[f] \in Calls \cup Closing => Has("data")
=============================================================================
