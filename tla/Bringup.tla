------------------------------- MODULE Bringup -------------------------------
(***************************************************************************)
(* How the module's four drivers come and go: module init and exit in      *)
(* src/glowforge.c, and the probe, the goto ladder of a failed probe, and  *)
(* the remove function of cnc.c, thermal.c, pic.c (with pic_leds.c) and    *)
(* head.c.  Every call that obtains or gives back something is a step, so  *)
(* interrupts, timers and user calls of the modules that compose this one  *)
(* come in between.                                                        *)
(*                                                                         *)
(* External, as the drivers use it: the driver core, which probes when a   *)
(* driver registers, and again after a failed probe or an unbind, frees    *)
(* what devm_ calls obtained after a failed probe or a remove, and only    *)
(* then forgets the driver data.                                           *)
(***************************************************************************)
EXTENDS Naturals, Sequences

CONSTANTS
  Drivers,     \* the drivers of the instance, out of the module's four
  MaxTries     \* bound: probes of one device

AllDrivers == <<"pic", "head", "thermal", "cnc">>
DriverNames == {AllDrivers[i] : i \in 1..4}

ASSUME DriversAssumption == Drivers \subseteq DriverNames /\ MaxTries \in Nat

VARIABLES
  module,      \* "out", "loading", "live", "failed" (an init that unwinds), "unloading"
  root,        \* /sys/glowforge exists
  registered,  \* drivers the core knows
  phase,       \* per driver: "unbound", "probe", "bound", "unwind", "remove",
               \* "devres" (the core frees what it manages), "forget"
  at,          \* per driver: the step of the phase
  held,        \* per driver: what it has obtained and not given back
  tries        \* history, per driver: probes so far

bringVars == <<module, root, registered, phase, at, held, tries>>

-----------------------------------------------------------------------------
(* What the functions obtain and give back, in the order of the calls.     *)

CncAcquire ==
  <<"data", "mailbox", "pool", "ring", "gpios", "pwm", "epit", "channel",
    "callback", "drvdata", "supply", "irq1", "irq2", "irq3", "group",
    "state_node", "link", "interlock", "device", "panic", "sampler">>

\* The label a failed step jumps to; "none" returns at once.
CncLabels ==
  [data |-> "none", mailbox |-> "none", ring |-> "pool", gpios |-> "ring",
   pwm |-> "gpios", epit |-> "pwm", channel |-> "channel",
   callback |-> "channel", supply |-> "channel", irq1 |-> "tasklet",
   irq2 |-> "tasklet", irq3 |-> "tasklet", group |-> "irqs",
   state_node |-> "group", link |-> "state_node", interlock |-> "link",
   device |-> "interlock"]
Mut_LabelTooLow(item) == [CncLabels EXCEPT !.interlock = "state_node"][item]
CncOnFailure(item) == CncLabels[item]

CncUnwind ==
  <<"interlock", "link", "state_node", "group", "irqs", "tasklet", "channel",
    "epit", "pwm", "gpios", "ring", "pool", "mailbox">>

Mut_CncRemove ==
  <<"device", "interlock", "link", "group", "state_node", "epit",
    "ramp_timer", "callback", "pump_timer", "sampler", "panic", "pwm", "rail",
    "gpios", "ring", "pool", "mailbox", "tasklet", "channel">>
CncRemove ==
  <<"device", "interlock", "link", "group", "state_node", "epit", "callback",
    "ramp_timer", "pump_timer", "sampler", "panic", "pwm", "rail", "gpios",
    "ring", "pool", "mailbox", "tasklet", "channel">>

ThermalAcquire ==
  <<"data", "drvdata", "gpios", "pwms", "tach1", "tach2", "group", "link",
    "chain", "timer">>

Mut_ThermalOnFailure(item) ==
  CASE item \in {"data", "gpios"} -> "none"
    [] item = "pwms" -> "gpios"
    [] item \in {"tach1", "tach2", "group"} -> "pwms"
    [] item = "link" -> "group"
ThermalOnFailure(item) ==
  CASE item \in {"data", "gpios"} -> "none"
    [] item = "pwms" -> "gpios"
    [] item \in {"tach1", "tach2", "group"} -> "tachs"
    [] item = "link" -> "group"

ThermalUnwind == <<"group", "tachs", "pwms", "gpios">>

ThermalRemove ==
  <<"safe_duty", "safe_pins", "chain", "timer", "link", "group", "pwms",
    "tachs", "gpios">>

\* pic_register_leds() cleans up after itself with pic_unregister_leds().
PicAcquire ==
  <<"data", "drvdata", "detect", "trigger", "queue", "led1", "led2", "group",
    "link", "chain", "values">>

PicOnFailure(item) ==
  CASE item \in {"data", "detect", "trigger"} -> "none"
    [] item \in {"queue", "led1", "led2", "group"} -> "trigger"
    [] item = "link" -> "group"

PicUnwind == <<"group", "trigger", "leds", "queue">>
PicRemove == <<"safe", "chain", "link", "group", "trigger", "leds", "queue">>

HeadAcquire ==
  <<"data", "drvdata", "identify", "configure", "group", "link", "chain">>

HeadOnFailure(item) ==
  IF item = "link" THEN "group" ELSE "none"

HeadUnwind == <<"group">>
HeadRemove == <<"safe_motor", "safe_laser", "safe_uv", "chain", "link", "group">>

Acquire == [cnc |-> CncAcquire, thermal |-> ThermalAcquire,
            pic |-> PicAcquire, head |-> HeadAcquire]
Unwind  == [cnc |-> CncUnwind, thermal |-> ThermalUnwind,
            pic |-> PicUnwind, head |-> HeadUnwind]
Remove  == [cnc |-> CncRemove, thermal |-> ThermalRemove,
            pic |-> PicRemove, head |-> HeadRemove]
OnFailure(d, item) ==
  CASE d = "cnc" -> CncOnFailure(item)   [] d = "thermal" -> ThermalOnFailure(item)
    [] d = "pic" -> PicOnFailure(item)   [] d = "head" -> HeadOnFailure(item)

\* Steps whose result probe does not check, and steps that obtain nothing.
CannotFail == {"drvdata", "pool", "panic", "sampler", "chain", "timer", "values"}
Acts == {"detect", "values", "identify", "configure", "tasklet", "ramp_timer",
         "pump_timer", "rail", "safe", "safe_duty", "safe_pins", "safe_motor",
         "safe_laser", "safe_uv"}

\* Everything one teardown step gives back.
Frees(step) ==
  CASE step = "irqs" -> {"irq1", "irq2", "irq3"}
    [] step = "tachs" -> {"tach1", "tach2"}
    [] step = "leds" -> {"led1", "led2"}
    [] step = "channel" -> {"channel", "callback"}
    [] OTHER -> {step} \ Acts

\* Teardown steps that look first whether there is anything to give back.
Checked == {"irqs", "tachs", "leds", "queue", "channel"}

\* What devm_ functions obtained.
Managed == {"data", "supply", "irq1", "irq2", "irq3"}

-----------------------------------------------------------------------------
(* Steps.                                                                  *)

Plan(d, ph) == CASE ph = "probe" -> Acquire[d] [] ph = "unwind" -> Unwind[d]
                 [] ph = "remove" -> Remove[d]
Doing(d, ph, step) == phase[d] = ph /\ step = Plan(d, ph)[at[d]]

\* Where a driver enters another phase.
Enter(d, ph, pos) ==
  /\ phase' = [phase EXCEPT ![d] = ph]
  /\ at' = [at EXCEPT ![d] = pos]

\* The next step of a phase, or what follows its last one.
Advance(d, after) ==
  IF at[d] < Len(Plan(d, phase[d])) THEN at' = [at EXCEPT ![d] = @ + 1] /\ UNCHANGED phase
                        ELSE Enter(d, after, 1)

\* The core probes a device of a registered driver: when the driver registers, again
\* when a probe was deferred, and after any unbind, when sysfs asks to bind it.
Probe(d) ==
  /\ d \in registered /\ module \in {"loading", "live"}
  /\ phase[d] = "unbound" /\ tries[d] < MaxTries
  /\ tries' = [tries EXCEPT ![d] = @ + 1]
  /\ Enter(d, "probe", 1)
  /\ UNCHANGED <<module, root, registered, held>>

Obtain(d, item) ==
  /\ Doing(d, "probe", item)
  /\ held' = [held EXCEPT ![d] = @ \cup ({item} \ Acts)]
  /\ Advance(d, "bound")
  /\ UNCHANGED <<module, root, registered, tries>>

FailProbe(d) ==
  \E item \in {Acquire[d][i] : i \in 1..Len(Acquire[d])} \ CannotFail :
    /\ Doing(d, "probe", item)
    /\ IF OnFailure(d, item) = "none" THEN Enter(d, "devres", 1)
       ELSE \E i \in 1..Len(Unwind[d]) :
              Unwind[d][i] = OnFailure(d, item) /\ Enter(d, "unwind", i)
    /\ UNCHANGED <<module, root, registered, held, tries>>

Undo(d, step) ==
  /\ Doing(d, "unwind", step)
  /\ held' = [held EXCEPT ![d] = @ \ Frees(step)]
  /\ Advance(d, "devres")
  /\ UNCHANGED <<module, root, registered, tries>>

\* An unbind through sysfs, or the unregistering of the driver.
StartRemove(d) ==
  /\ phase[d] = "bound"
  /\ Enter(d, "remove", 1)
  /\ UNCHANGED <<module, root, registered, held, tries>>

TakeDown(d, step) ==
  /\ Doing(d, "remove", step)
  /\ held' = [held EXCEPT ![d] = @ \ Frees(step)]
  /\ Advance(d, "devres")
  /\ UNCHANGED <<module, root, registered, tries>>

\* The core: managed resources first, the driver data pointer after them.
FreeManaged(d) ==
  /\ phase[d] = "devres"
  /\ held' = [held EXCEPT ![d] = @ \ Managed]
  /\ Enter(d, "forget", 1)
  /\ UNCHANGED <<module, root, registered, tries>>

Forget(d) ==
  /\ phase[d] = "forget"
  /\ held' = [held EXCEPT ![d] = @ \ {"drvdata"}]
  /\ Enter(d, "unbound", 1)
  /\ UNCHANGED <<module, root, registered, tries>>

-----------------------------------------------------------------------------
(* glowforge_init() and glowforge_exit().                                  *)

\* Where a driver stands in glowforge_init().
Place(d) == CHOOSE i \in 1..4 : AllDrivers[i] = d
Settled == \A d \in Drivers : phase[d] \in {"unbound", "bound"}

NextDriver == CHOOSE d \in Drivers \ registered :
                \A e \in Drivers \ registered : Place(d) <= Place(e)
LastDriver == CHOOSE d \in registered : \A e \in registered : Place(e) <= Place(d)

LoadModule ==
  /\ module = "out"
  /\ module' = "loading" /\ root' = TRUE
  /\ UNCHANGED <<registered, phase, at, held, tries>>

\* Registering a driver probes its device before it returns.
Register ==
  /\ module = "loading" /\ registered # Drivers /\ Settled
  /\ \A d \in registered : phase[d] = "bound" \/ tries[d] > 0
  /\ registered' = registered \cup {NextDriver}
  /\ UNCHANGED <<module, root, phase, at, held, tries>>

Loaded ==
  /\ module = "loading" /\ registered = Drivers /\ Settled
  /\ \A d \in registered : phase[d] = "bound" \/ tries[d] > 0
  /\ module' = "live"
  /\ UNCHANGED <<root, registered, phase, at, held, tries>>

FailLoad ==
  /\ module = "loading" /\ registered # Drivers /\ Settled
  /\ \A d \in registered : phase[d] = "bound" \/ tries[d] > 0
  /\ module' = "failed"
  /\ UNCHANGED <<root, registered, phase, at, held, tries>>

Unload ==
  /\ module = "live" /\ Settled
  /\ module' = "unloading"
  /\ UNCHANGED <<root, registered, phase, at, held, tries>>

\* In reverse order; unregistering waits for the remove function.
Unregister ==
  /\ module \in {"failed", "unloading"} /\ registered # {}
  /\ phase[LastDriver] = "unbound"
  /\ registered' = registered \ {LastDriver}
  /\ UNCHANGED <<module, root, phase, at, held, tries>>

DropRoot ==
  /\ module \in {"failed", "unloading"} /\ registered = {}
  /\ module' = "out" /\ root' = FALSE
  /\ UNCHANGED <<registered, phase, at, held, tries>>

BringInit ==
  /\ module = "out" /\ root = FALSE /\ registered = {}
  /\ phase = [d \in Drivers |-> "unbound"]
  /\ at = [d \in Drivers |-> 1]
  /\ held = [d \in Drivers |-> {}]
  /\ tries = [d \in Drivers |-> 0]

\* Steps that touch nothing outside this module.
ModuleStep ==
  \/ LoadModule \/ Register \/ Loaded \/ FailLoad \/ Unload \/ Unregister \/ DropRoot

CoreStep(d) == Probe(d) \/ FailProbe(d) \/ StartRemove(d) \/ FreeManaged(d) \/ Forget(d)

-----------------------------------------------------------------------------
(* Properties.                                                             *)

BringTypeOK ==
  /\ module \in {"out", "loading", "live", "failed", "unloading"}
  /\ root \in BOOLEAN /\ registered \subseteq Drivers
  /\ phase \in [Drivers -> {"unbound", "probe", "bound", "unwind", "remove",
                            "devres", "forget"}]
  /\ at \in [Drivers -> Nat] /\ tries \in [Drivers -> 0..MaxTries]

\* Whichever step of a probe fails, and after every remove, the driver has given
\* back all it obtained: each goto lands on the right label.
NothingLeft == \A d \in Drivers : phase[d] = "unbound" => held[d] = {}

\* A teardown gives back only what the driver has: no label undoes a step that
\* was not reached, and nothing is given back twice.
ReleasesOnlyHeld ==
  \A d \in Drivers : phase[d] \in {"unwind", "remove"} =>
    LET step == Plan(d, phase[d])[at[d]]
    IN  step \in Checked \/ Frees(step) \subseteq held[d]

\* Whoever may call into the driver - user calls, the notifier chain, the input
\* handler, timers, the SDMA callback, the LED classes - is gone before the data
\* or the pins and queues its handlers use are.
CallsIn == {"group", "device", "chain", "interlock", "callback", "panic",
          "sampler", "timer", "tach1", "tach2", "led1", "led2", "queue", "state_node"}
UsersFirst(d, items) ==
  /\ items \cap CallsIn # {} => "data" \in items
  /\ d \in {"cnc", "thermal"} /\ items \cap CallsIn # {} => "gpios" \in items
  /\ items \cap {"led1", "led2"} # {} => "queue" \in items
UsersGoFirst == \A d \in Drivers : UsersFirst(d, held[d])

\* A driver's link hangs on /sys/glowforge, which outlives every link and every
\* registered driver.
RootOutlivesLinks ==
  \A d \in Drivers : d \in registered \/ "link" \in held[d] => root

\* Wherever a probe fails, is deferred or repeated, and whenever a driver is removed,
\* the ladder of labels gives back what was obtained, all of it and in an order that
\* its users survive.
LadderExact == NothingLeft /\ ReleasesOnlyHeld /\ UsersGoFirst /\ RootOutlivesLinks

\* Free the fault IRQs ahead of devres: the handlers must be gone before the
\* GPIOs they read (comments on cnc_free_fault_irqs() and in cnc_probe()).
IrqsReadHeldPins ==
  \A d \in Drivers : held[d] \cap {"irq1", "irq2", "irq3"} # {} => "gpios" \in held[d]
=============================================================================
