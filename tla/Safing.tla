------------------------------- MODULE Safing --------------------------------
(***************************************************************************)
(* The dead man's switch trips while the drivers behind it come and go:    *)
(* the notifier chain of src/notifiers.h with its members PIC (PicBus),    *)
(* head (HeadBoard) and thermal (Thermal), whose probe and remove are in   *)
(* Bringup.  The chain is blocking: its semaphore is held while handlers   *)
(* run, and who joins or leaves it waits.                                  *)
(*                                                                         *)
(* Bound besides the constants: one driver is unbound at a time.           *)
(***************************************************************************)
EXTENDS Bringup, Thermal, HeadBoard, PicBus

CONSTANTS
  MaxStores,    \* bound: attribute stores and brightness requests
  MaxQueue,     \* bound: brightness writes in the queue
  MaxTrips      \* bound: trips of the switch

Chain == "chain"   \* the two callers of the make-safe functions
Core == "core"

ASSUME SafingAssumption ==
  /\ Callers = {Chain, Core} /\ Drivers = {"pic", "head", "thermal"}
  /\ MaxStores \in Nat /\ MaxTrips \in Nat

VARIABLES
  inside,       \* drivers with an attribute store under way
  walk,         \* members the chain has still to call; the first one is running
  stores, trips \* history

vars == <<bringVars, thermalVars, headVars, picVars, inside, walk, stores, trips>>

Has(d, item) == item \in held[d]

-----------------------------------------------------------------------------
(* Attribute stores.                                                       *)

\* sysfs lets a store in while the attributes exist, and removing them waits.
EnterStore(d) ==
  /\ Has(d, "group") /\ d \notin inside /\ stores < MaxStores
  /\ inside' = inside \cup {d} /\ stores' = stores + 1
  /\ UNCHANGED <<bringVars, thermalVars, headVars, picVars, walk, trips>>

LeaveStore(d) ==
  /\ d \in inside /\ inside' = inside \ {d}
  /\ UNCHANGED <<bringVars, walk, stores, trips>>

ThermalStore ==
  /\ LeaveStore("thermal")
  /\ HeaterPwmStore \/ TecStore \/ UNCHANGED thermalVars
  /\ UNCHANGED <<headVars, picVars>>

HeadStores ==
  /\ LeaveStore("head")
  /\ (\E o \in Outputs : HeadStore(o)) \/ UNCHANGED headVars
  /\ UNCHANGED <<thermalVars, picVars>>

PicStoreBegin ==
  /\ "pic" \in inside
  /\ \E x \in Exchanges : StoreBegin(x)
  /\ UNCHANGED <<bringVars, thermalVars, headVars, inside, walk, stores, trips>>

PicStoreEnd ==
  /\ LeaveStore("pic")
  /\ StoreEnd
  /\ UNCHANGED <<thermalVars, headVars>>

\* The smooth trigger and the LED core's attributes reach the registered LEDs.
Brightness ==
  /\ Has("pic", "led1") /\ Has("pic", "queue") /\ stores < MaxStores
  /\ stores' = stores + 1
  /\ \E v \in Values : Len(led_wq) < MaxQueue /\ LedSet(v)
  /\ UNCHANGED <<bringVars, thermalVars, headVars, inside, walk, trips>>

\* The bus carries out the exchange of whoever has filled the buffer.
BusTransfer ==
  /\ \E u \in Users : Transfer(u)
  /\ UNCHANGED <<bringVars, thermalVars, headVars, inside, walk, stores, trips>>

Work ==
  /\ WorkBegin \/ WorkEnd
  /\ UNCHANGED <<bringVars, thermalVars, headVars, inside, walk, stores, trips>>

Heater ==
  /\ Has("thermal", "timer") /\ HeaterTimer
  /\ UNCHANGED <<bringVars, headVars, picVars, inside, walk, stores, trips>>

-----------------------------------------------------------------------------
(* The chain.                                                              *)

\* Members in the order they registered.
Joined(d) == IF Has(d, "chain") THEN <<d>> ELSE <<>>
Members == Joined("pic") \o Joined("head") \o Joined("thermal")

\* A close trips the switch (module Device).  The driver of the device file registers
\* last, and a file that is open keeps the module loaded.
Trip ==
  /\ module = "live" /\ walk = <<>> /\ Members # <<>> /\ trips < MaxTrips
  /\ walk' = Members /\ trips' = trips + 1
  /\ UNCHANGED <<bringVars, thermalVars, headVars, picVars, inside, stores>>

Called(d) == walk # <<>> /\ walk[1] = d

\* The step of a handler, and whether it is its last.
Handle(d, last) ==
  /\ Called(d)
  /\ walk' = IF last THEN Tail(walk) ELSE walk
  /\ UNCHANGED <<bringVars, inside, stores, trips>>

HandlePic ==
  /\ \/ Handle("pic", FALSE) /\ MakeSafeBegin(Chain)
     \/ Handle("pic", TRUE) /\ MakeSafeEnd(Chain)
  /\ UNCHANGED <<thermalVars, headVars>>

HandleHead ==
  /\ \/ Handle("head", FALSE) /\ SafeStart(Chain)
     \/ \E o \in Outputs : SafeWrite(Chain, o)
          /\ Handle("head", head_at'[Chain] = "done")
  /\ UNCHANGED <<thermalVars, picVars>>

HandleThermal ==
  /\ \/ Handle("thermal", FALSE) /\ SafeDuty(Chain)
     \/ Handle("thermal", TRUE) /\ SafePins(Chain)
  /\ UNCHANGED <<headVars, picVars>>

-----------------------------------------------------------------------------
(* Probe and remove.                                                       *)

\* Who joins or leaves the chain waits for a walk, who removes the attributes for
\* the stores, and who destroys the queue for the work in it.
Mut_LeaveWalk(d, step) ==
  /\ step = "group" => d \notin inside
  /\ step = "queue" => LedIdle
MayPass(d, step) ==
  /\ step = "chain" => walk = <<>>
  /\ step = "group" => d \notin inside
  /\ step = "queue" => LedIdle

ProbeStep(d) ==
  \E item \in {Acquire[d][i] : i \in 1..Len(Acquire[d])} :
    /\ item = "chain" => walk = <<>>
    /\ IF item = "values" /\ asked[Core] = Nothing
       THEN /\ Doing(d, "probe", item)
            /\ \E v \in Values : ValuesBegin(Core, v)
            /\ UNCHANGED bringVars
       ELSE /\ Obtain(d, item)
            /\ IF item = "values" THEN ValuesEnd(Core) ELSE UNCHANGED picVars
    /\ CASE d = "thermal" /\ item = "data" -> FreshDuty
         [] d = "thermal" /\ item = "gpios" -> ClaimPins
         [] OTHER -> UNCHANGED thermalVars
    /\ UNCHANGED <<headVars, inside, walk, stores, trips>>

\* led_classdev_unregister() switches each LED off, through the queue.
LedsOff(d, step) ==
  IF step = "leds" /\ Has(d, "led1") /\ Has(d, "queue")
  THEN LedSet(0) ELSE UNCHANGED picVars

AbortStep(d) ==
  \E step \in {Unwind[d][i] : i \in 1..Len(Unwind[d])} :
    /\ MayPass(d, step) /\ Undo(d, step) /\ LedsOff(d, step)
    /\ UNCHANGED <<thermalVars, headVars, inside, walk, stores, trips>>

\* Every remove makes its hardware safe first.  The PIC's exchange begins and ends in
\* steps of its own, and the head's function begins with the first of its three writes.
RemovePic ==
  \E step \in {PicRemove[i] : i \in 1..Len(PicRemove)} :
    /\ MayPass("pic", step)
    /\ IF step = "safe"
       THEN \/ Doing("pic", "remove", step) /\ MakeSafeBegin(Core) /\ UNCHANGED bringVars
            \/ TakeDown("pic", step) /\ MakeSafeEnd(Core)
       ELSE TakeDown("pic", step) /\ LedsOff("pic", step)
    /\ UNCHANGED <<thermalVars, headVars, inside, walk, stores, trips>>

RemoveHead ==
  \E step \in {HeadRemove[i] : i \in 1..Len(HeadRemove)} :
    /\ MayPass("head", step)
    /\ IF step = "safe_motor" /\ head_at[Core] \in {"idle", "done"}
       THEN Doing("head", "remove", step) /\ SafeStart(Core) /\ UNCHANGED bringVars
       ELSE /\ TakeDown("head", step)
            /\ CASE step = "safe_motor" -> SafeWrite(Core, "motor")
                 [] step = "safe_laser" -> SafeWrite(Core, "laser")
                 [] step = "safe_uv" -> SafeWrite(Core, "uv")
                 [] OTHER -> UNCHANGED headVars
    /\ UNCHANGED <<thermalVars, picVars, inside, walk, stores, trips>>

RemoveThermal ==
  \E step \in {ThermalRemove[i] : i \in 1..Len(ThermalRemove)} :
    /\ MayPass("thermal", step)
    /\ TakeDown("thermal", step)
    /\ CASE step = "safe_duty" -> SafeDuty(Core)
         [] step = "safe_pins" -> SafePins(Core)
         [] OTHER -> UNCHANGED thermalVars
    /\ UNCHANGED <<headVars, picVars, inside, walk, stores, trips>>

Manage ==
  /\ \/ ModuleStep /\ walk = <<>>
     \/ \E d \in Drivers : Probe(d) \/ FailProbe(d) \/ FreeManaged(d) \/ Forget(d)
     \/ Settled /\ \E d \in Drivers : StartRemove(d)
  /\ UNCHANGED <<thermalVars, headVars, picVars, inside, walk, stores, trips>>

Init ==
  /\ BringInit /\ ThermalInit /\ HeadInit /\ PicInit
  /\ inside = {} /\ walk = <<>> /\ stores = 0 /\ trips = 0

Next ==
  \/ Manage \/ RemovePic \/ RemoveHead \/ RemoveThermal
  \/ \E d \in Drivers : ProbeStep(d) \/ AbortStep(d) \/ EnterStore(d)
  \/ ThermalStore \/ HeadStores \/ PicStoreBegin \/ PicStoreEnd
  \/ Brightness \/ BusTransfer \/ Work \/ Heater
  \/ Trip \/ HandlePic \/ HandleHead \/ HandleThermal

\* The chain goes on with its walk, the bus with its transfers, and whoever holds the
\* bus comes to the end of the exchange: a store, the worker, a probe or a remove.
Fairness ==
  /\ WF_vars(HandlePic) /\ WF_vars(HandleHead) /\ WF_vars(HandleThermal)
  /\ WF_vars(BusTransfer) /\ WF_vars(PicStoreEnd) /\ WF_vars(Work) /\ WF_vars(RemovePic) /\ WF_vars(ProbeStep("pic"))

Spec == Init /\ [][Next]_vars /\ Fairness

-----------------------------------------------------------------------------
(* Properties.                                                             *)

TypeOK ==
  /\ BringTypeOK /\ ThermalTypeOK /\ HeadTypeOK /\ PicTypeOK
  /\ inside \subseteq Drivers /\ stores \in 0..MaxStores /\ trips \in 0..MaxTrips

\* A handler of the chain runs on a driver that has its data, to which the device
\* points, and its pins.
HandlersOnLiveDrivers ==
  \A d \in Drivers : Called(d) =>
    /\ Has(d, "data") /\ Has(d, "drvdata")
    /\ d = "thermal" => Has(d, "gpios")

\* The drivers come and go without a loss, with the chain and their stores at work.
Inv == TypeOK /\ LadderExact

\* What a caller has made safe stays so - heater and TEC, the head's outputs, the
\* PIC's registers - but for what was asked for or failed since.
StaysSafe == HeatStaysOff /\ HeadStaysOff /\ PicStaysZero

\* A trip reaches the end of the chain, whichever drivers leave meanwhile.
TripsEnd == walk # <<>> ~> walk = <<>>
=============================================================================
