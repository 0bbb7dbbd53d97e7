----------------------------- MODULE DeviceProofs -----------------------------
(***************************************************************************)
(* The dead man's switch for any number of files, tasks, runs and probes.  *)
(* The driver data have one holder because in_use comes with them and is   *)
(* cleared only by a close: the holder's own, or that of a file left over  *)
(* from an unbind, and of the second nothing is claimed.  With one holder, *)
(* the switch, what a close has read of it and the run it halts are all    *)
(* the holder's own.  And the driver under it: what is queued, energized   *)
(* or under way tells how far a remove can have come, so that nothing of   *)
(* it is left when the remove has come further.                            *)
(***************************************************************************)
EXTENDS Device, BringupProofs, FiniteSetTheorems

Items == {CncAcquire[i] : i \in 1..Len(CncAcquire)}

-----------------------------------------------------------------------------
(* The tables.                                                             *)

\* The first thing a probe obtains is the data, the nineteenth is the device file, and
\* no step after it can fail; a remove gives the file back first.
LEMMA TableFacts ==
  /\ Len(CncAcquire) = 21
  /\ \A i \in 1..21 : CncAcquire[i] = "device" => i = 19
  /\ \A i \in 1..21 : CncAcquire[i] = "data" => i = 1
  /\ \A i \in 20..21 : CncAcquire[i] \in CannotFail
  /\ OnFailure("cnc", CncAcquire[1]) = "none"
  /\ CncRemove[1] = "device" /\ Len(CncRemove) = 19
<1>1. Len(CncAcquire) = 21
  BY DEF CncAcquire
<1>2. \A i \in 1..21 : CncAcquire[i] = "device" => i = 19
  BY DEF CncAcquire
<1>3. \A i \in 1..21 : CncAcquire[i] = "data" => i = 1
  BY DEF CncAcquire
<1>4. \A i \in 20..21 : CncAcquire[i] \in CannotFail
  BY DEF CncAcquire, CannotFail
<1>5. CncRemove[1] = "device" /\ Len(CncRemove) = 19
  BY DEF CncRemove
<1>6. OnFailure("cnc", CncAcquire[1]) = "none"
  BY DEF CncAcquire, OnFailure, CncOnFailure, CncLabels
<1> QED
  BY <1>1, <1>2, <1>3, <1>4, <1>5, <1>6

\* The plans of the pulse driver.
LEMMA PlanFacts ==
  /\ Plan("cnc", "probe") = CncAcquire
  /\ Plan("cnc", "unwind") = CncUnwind
  /\ Plan("cnc", "remove") = CncRemove
  BY DEF Plan, Acquire, Unwind, Remove

-----------------------------------------------------------------------------
(* The driver comes and goes.                                              *)

\* The device file exists from its registration to the first step of the remove.
FileUp ==
  \/ phase["cnc"] = "probe" /\ at["cnc"] > 19
  \/ phase["cnc"] = "bound"
  \/ phase["cnc"] = "remove" /\ at["cnc"] = 1

\* From the file's registration until a probe allocates new data: all but the steps of a
\* probe between the two, and its failure there.
Past ==
  \/ phase["cnc"] = "probe" /\ (at["cnc"] = 1 \/ at["cnc"] > 19)
  \/ phase["cnc"] \notin {"probe", "unwind"}

BringInv ==
  /\ phase \in [Drivers -> Phases] /\ at \in [Drivers -> Nat]
  /\ held \in [Drivers -> SUBSET Items]
  /\ phase["cnc"] = "probe" => at["cnc"] \in 1..21
  /\ "device" \in held["cnc"] => FileUp

BringStep ==
  \/ CoreStep("cnc") \/ ModuleStep
  \/ \E item \in Items : Obtain("cnc", item)
  \/ \E step \in {CncUnwind[i] : i \in 1..Len(CncUnwind)} : Undo("cnc", step)
  \/ \E step \in {CncRemove[i] : i \in 1..Len(CncRemove)} : TakeDown("cnc", step)
  \/ UNCHANGED bringVars

NewData == Obtain("cnc", "data")

Kept == BringInv' /\ (Past /\ ~NewData => Past')

\* A step of the driver core keeps the invariant, and does not undo Past: a step after
\* the device file's registration does not fail, and one that gets no data leaves none.
LEMMA CoreKeeps ==
  ASSUME BringInv, CoreStep("cnc") PROVE Kept
<1> USE DeviceAssumption, DriversAssumption DEF BringInv, Kept, Past, FileUp, Phases
<1>1. CASE Probe("cnc")
  BY <1>1, SMT DEF Probe, Enter
<1>2. CASE FailProbe("cnc")
  <2>1. phase["cnc"] = "probe" /\ CncAcquire[at["cnc"]] \notin CannotFail
    BY <1>2, PlanFacts DEF FailProbe, Doing
  <2>2. ~(at["cnc"] > 19)
    BY <2>1, TableFacts, SMT
  <2>5. ASSUME at["cnc"] = 1 PROVE Enter("cnc", "devres", 1)
    BY <1>2, <2>1, <2>5, PlanFacts, TableFacts DEF FailProbe, Doing
  <2>3. PICK ph \in {"devres", "unwind"}, i \in Nat : Enter("cnc", ph, i)
    <3>1. CASE Enter("cnc", "devres", 1)
      BY <3>1
    <3>2. CASE \E i \in 1..Len(CncUnwind) : Enter("cnc", "unwind", i)
      BY <3>2
    <3> QED
      BY <1>2, <3>1, <3>2 DEF FailProbe, Unwind
  <2>4. UNCHANGED held
    BY <1>2 DEF FailProbe
  <2>6. BringInv'
    BY <2>1, <2>2, <2>3, <2>4, SMT DEF Enter
  <2>7. Past => phase'["cnc"] = "devres"
    BY <2>1, <2>2, <2>5, SMT DEF Enter
  <2> QED
    BY <2>6, <2>7
<1>3. CASE StartRemove("cnc")
  BY <1>3, SMT DEF StartRemove, Enter
<1>4. CASE FreeManaged("cnc")
  BY <1>4, SMT DEF FreeManaged, Enter
<1>5. CASE Forget("cnc")
  BY <1>5, SMT DEF Forget, Enter
<1> QED
  BY <1>1, <1>2, <1>3, <1>4, <1>5 DEF CoreStep

\* So does a step of the probe: the file is there once the nineteenth has been taken.
LEMMA ObtainKeeps ==
  ASSUME BringInv, NEW item \in Items, Obtain("cnc", item) PROVE Kept
<1> USE DeviceAssumption, DriversAssumption DEF BringInv, Kept, Past, FileUp, Phases
<1>1. phase["cnc"] = "probe" /\ item = CncAcquire[at["cnc"]] /\ at["cnc"] \in 1..21
  BY PlanFacts DEF Obtain, Doing
<1>2. item = "device" => at["cnc"] = 19
  BY <1>1, TableFacts
<1>3. "device" \in held'["cnc"] => "device" \in held["cnc"] \/ at["cnc"] = 19
  BY <1>2 DEF Obtain
<1>4. held' \in [Drivers -> SUBSET Items]
  BY DEF Obtain
<1>5. CASE at["cnc"] < 21
  <2>1. at' = [at EXCEPT !["cnc"] = @ + 1] /\ phase' = phase
    BY <1>1, <1>5, PlanFacts, TableFacts DEF Obtain, Advance
  <2>3. at' \in [Drivers -> Nat] /\ at'["cnc"] = at["cnc"] + 1
    BY <2>1, SMT
  <2>4. at'["cnc"] \in 1..21 /\ (at["cnc"] \in 19..21 => at'["cnc"] > 19)
    BY <1>1, <1>5, <2>3, SMT
  <2>5. at["cnc"] > 19 \/ at["cnc"] = 19 => at["cnc"] \in 19..21
    BY <1>1, SMT
  <2>6. phase'["cnc"] = "probe"
    BY <1>1, <2>1
  <2>7. at["cnc"] = 1 => item = "data"
    BY <1>1 DEF CncAcquire
  <2> QED
    BY <1>1, <1>3, <1>4, <2>1, <2>3, <2>4, <2>5, <2>6, <2>7 DEF NewData
<1>6. CASE at["cnc"] = 21
  <2>1. Len(Plan("cnc", phase["cnc"])) = 21
    <3>1. Plan("cnc", phase["cnc"]) = CncAcquire
      BY <1>1 DEF Plan, Acquire
    <3> QED
      BY <3>1, TableFacts
  <2>2. Enter("cnc", "bound", 1)
    <3>1. ~(21 < 21)
      BY SMT
    <3>2. ~(at["cnc"] < Len(Plan("cnc", phase["cnc"])))
      BY <1>6, <2>1, <3>1, Zenon
    <3> QED
      BY <3>2, Zenon DEF Obtain, Advance
  <2>4. phase'["cnc"] = "bound"
    BY <2>2 DEF Enter
  <2>5. phase' \in [Drivers -> Phases] /\ at' \in [Drivers -> Nat]
    BY <2>2, SMT DEF Enter
  <2> QED
    BY <1>4, <2>4, <2>5
<1> QED
  BY <1>1, <1>5, <1>6, SMT

\* So do the steps of the unwinding, which no file outlives ...
LEMMA UndoKeeps ==
  ASSUME BringInv, NEW step, Undo("cnc", step) PROVE Kept
<1> USE DeviceAssumption, DriversAssumption DEF BringInv, Kept, Past, FileUp, Phases
<1>1. phase["cnc"] = "unwind" /\ held'["cnc"] \subseteq held["cnc"]
  BY DEF Undo, Doing
<1>2. held' \in [Drivers -> SUBSET Items]
  BY DEF Undo
<1>3. \/ at' = [at EXCEPT !["cnc"] = @ + 1] /\ phase' = phase
      \/ Enter("cnc", "devres", 1)
  BY DEF Undo, Advance
<1> QED
  BY <1>1, <1>2, <1>3, SMT DEF Enter

\* ... and of the remove, whose first one takes it away.
LEMMA TakeDownKeeps ==
  ASSUME BringInv, NEW step, TakeDown("cnc", step) PROVE Kept
<1> USE DeviceAssumption, DriversAssumption DEF BringInv, Kept, Past, FileUp, Phases
<1>1. phase["cnc"] = "remove" /\ step = CncRemove[at["cnc"]]
  BY PlanFacts DEF TakeDown, Doing
<1>2. "device" \notin held'["cnc"]
  <2>1. CASE at["cnc"] = 1
    <3>1. step = "device"
      BY <1>1, <2>1, TableFacts
    <3>2. Frees(step) = {"device"}
      BY <3>1 DEF Frees, Acts
    <3> QED
      BY <3>2 DEF TakeDown
  <2>2. CASE at["cnc"] # 1
    BY <1>1, <2>2 DEF TakeDown
  <2> QED
    BY <2>1, <2>2
<1>3. held' \in [Drivers -> SUBSET Items]
  BY DEF TakeDown
<1>4. \/ at' = [at EXCEPT !["cnc"] = @ + 1] /\ phase' = phase
      \/ Enter("cnc", "devres", 1)
  BY DEF TakeDown, Advance
<1> QED
  BY <1>1, <1>2, <1>3, <1>4, SMT DEF Enter

\* Together: every step of the driver's life.
LEMMA BringKeeps ==
  ASSUME BringInv, BringStep PROVE Kept
<1>1. CASE ModuleStep \/ UNCHANGED bringVars
  <2>1. UNCHANGED <<phase, at, held>>
    BY <1>1 DEF ModuleStep, LoadModule, Register, Loaded, FailLoad, Unload, Unregister,
                DropRoot, bringVars
  <2> QED
    BY <2>1 DEF BringInv, Kept, Past, FileUp
<1> QED
  BY <1>1, CoreKeeps, ObtainKeeps, UndoKeeps, TakeDownKeeps DEF BringStep

-----------------------------------------------------------------------------
(* The file and the switch.                                                *)

\* A file opened on the present data is open, past its registration.  Until a file left
\* over from an unbind gets at the data, it is the only one, in_use says so, and no other
\* file is inside a call.
FileInv ==
  /\ fop \in [Files -> {"closed", "open"} \cup Calls \cup Closing]
  /\ own \subseteq Files /\ meddled \in BOOLEAN
  /\ \A f \in own : fop[f] # "closed" /\ Past
  /\ ~meddled =>
       /\ own # {} => in_use = TRUE
       /\ \A f \in own, g \in own : f = g
       /\ \A f \in Files \ own : fop[f] \in {"closed", "open"}

\* The switch is the holder's own, up to the step of its close that halts, and a run
\* that its close has not seen has been started since.
SwitchInv ==
  /\ read \in [Files -> [armed : BOOLEAN, running : BOOLEAN]]
  /\ ~meddled => \A f \in own : /\ armed => armed_by = f
                                /\ fop[f] = "close_halt" /\ read[f].armed => armed_by = f
  /\ \A f \in own : fop[f] = "close_halt" /\ read[f].armed /\ ~read[f].running
                      /\ st = "running" => f \in late
  /\ DeadmanStops

DevInv == BringInv /\ FileInv /\ SwitchInv

\* The inductive invariant holds when the module is loaded.
LEMMA DevInvInit == Init => DevInv
<1> SUFFICES ASSUME Init PROVE DevInv
  OBVIOUS
<1>1. BringInv
  BY DeviceAssumption, SMT DEF Init, BringInit, BringInv, Phases
<1>2. FileInv
  BY DEF Init, FileInv
<1>3. own = {}
  BY DEF Init
<1>4. read \in [Files -> [armed : BOOLEAN, running : BOOLEAN]]
  BY DEF Init, ReadNothing
<1>5. SwitchInv
  BY <1>3, <1>4 DEF SwitchInv, DeadmanStops
<1> QED
  BY <1>1, <1>2, <1>5 DEF DevInv

\* A step that does not allocate the driver's data does not bring them back.
LEMMA DataOnce ==
  ASSUME BringInv, BringStep, ~NewData PROVE Has("data")' => Has("data")
<1> USE DeviceAssumption DEF BringInv, Has
<1>1. ASSUME NEW item \in Items, Obtain("cnc", item) PROVE Has("data")' => Has("data")
  <2>1. item # "data"
    BY <1>1 DEF NewData
  <2>2. held'["cnc"] \subseteq held["cnc"] \cup {item}
    BY <1>1 DEF Obtain
  <2> QED
    BY <2>1, <2>2
<1>2. ASSUME NEW step, Undo("cnc", step) \/ TakeDown("cnc", step)
      PROVE Has("data")' => Has("data")
  BY <1>2 DEF Undo, TakeDown
<1>3. CASE CoreStep("cnc")
  BY <1>3 DEF CoreStep, Probe, FailProbe, StartRemove, FreeManaged, Forget
<1>4. CASE ModuleStep \/ UNCHANGED bringVars
  BY <1>4 DEF ModuleStep, LoadModule, Register, Loaded, FailLoad, Unload, Unregister,
              DropRoot, bringVars
<1> QED
  BY <1>1, <1>2, <1>3, <1>4 DEF BringStep

\* Obtaining anything else, and giving back, is no allocation of the data.
LEMMA NoNewData ==
  ASSUME BringInv, \/ UNCHANGED bringVars \/ CoreStep("cnc") \/ ModuleStep
                   \/ \E item \in Items \ {"data"} : Obtain("cnc", item)
                   \/ \E step : Undo("cnc", step) \/ TakeDown("cnc", step)
  PROVE  ~NewData
<1> SUFFICES ASSUME NewData PROVE FALSE
  OBVIOUS
<1>1. /\ phase["cnc"] = "probe" /\ at["cnc"] \in 1..21 /\ CncAcquire[at["cnc"]] = "data"
      /\ held' = [held EXCEPT !["cnc"] = @ \cup ({"data"} \ Acts)]
      /\ at' = [at EXCEPT !["cnc"] = @ + 1] \/ Enter("cnc", "bound", 1)
  BY PlanFacts DEF NewData, Obtain, Doing, Advance, BringInv
<1>2. at["cnc"] = 1 /\ Len(Plan("cnc", "probe")) = 21
  BY <1>1, TableFacts, PlanFacts
<1>3. at'["cnc"] = 2 /\ phase' = phase
  <2>1. at["cnc"] < Len(Plan("cnc", phase["cnc"]))
    <3>1. Plan("cnc", phase["cnc"]) = Plan("cnc", "probe")
      BY <1>1, Zenon
    <3>2. 1 < 21
      OBVIOUS
    <3> QED
      BY <1>2, <3>1, <3>2, Zenon
  <2>2. Advance("cnc", "bound")
    BY DEF NewData, Obtain
  <2>3. at' = [at EXCEPT !["cnc"] = @ + 1] /\ phase' = phase
    BY <2>1, <2>2, Zenon DEF Advance
  <2> QED
    BY <1>2, <2>3, DeviceAssumption DEF BringInv
<1>4. CASE CoreStep("cnc")
  <2>1. CASE Probe("cnc") \/ StartRemove("cnc") \/ FreeManaged("cnc") \/ Forget("cnc")
    BY <1>1, <2>1 DEF Probe, StartRemove, FreeManaged, Forget
  <2>2. CASE FailProbe("cnc")
    <3>1. Enter("cnc", "devres", 1) \/ \E i \in 1..Len(CncUnwind) : Enter("cnc", "unwind", i)
      BY <2>2 DEF FailProbe, Unwind
    <3> QED
      BY <1>1, <1>3, <3>1, DeviceAssumption DEF Enter, BringInv
  <2> QED
    BY <1>4, <2>1, <2>2 DEF CoreStep
<1>5. CASE ModuleStep \/ UNCHANGED bringVars
  BY <1>2, <1>3, <1>5 DEF ModuleStep, LoadModule, Register, Loaded, FailLoad, Unload, Unregister,
              DropRoot, bringVars
<1>6. ASSUME NEW item \in Items \ {"data"}, Obtain("cnc", item) PROVE FALSE
  BY <1>1, <1>6, PlanFacts DEF Obtain, Doing
<1>7. ASSUME NEW step, Undo("cnc", step) \/ TakeDown("cnc", step) PROVE FALSE
  BY <1>1, <1>7 DEF Undo, TakeDown, Doing
<1> QED
  BY <1>4, <1>5, <1>6, <1>7

\* Whatever the driver does without the file keeps the invariant, as long as a run
\* that starts during a close is on record.
LEMMA DriverKeeps ==
  ASSUME DevInv, BringStep, ~NewData,
         UNCHANGED <<fop, read, in_use, armed, armed_by, own, meddled>>,
         \A f \in own : fop[f] \in Closing /\ st' = "running"
                            => f \in late' \/ (st = "running" /\ (f \in late => f \in late'))
  PROVE  DevInv'
<1>1. BringInv' /\ (Past => Past')
  BY BringKeeps DEF DevInv, Kept
<1>2. FileInv'
  BY <1>1 DEF DevInv, FileInv
<1>3. Has("data")' => Has("data")
  BY DataOnce DEF DevInv
<1>4. DeadmanStops'
  <2> SUFFICES ASSUME NEW f \in own,
                      fop[f] \in {"close_chain", "close_latch", "close_clear"},
                      read[f].armed, st' = "running", Has("data")'
               PROVE  f \in late'
    BY DEF DeadmanStops
  <2>1. fop[f] \in Closing /\ Has("data")
    BY <1>3 DEF Closing
  <2>2. st = "running" => f \in late
    BY <2>1 DEF DevInv, SwitchInv, DeadmanStops
  <2> QED
    BY <2>1, <2>2
<1>5. SwitchInv'
  BY <1>4 DEF DevInv, SwitchInv, Closing
<1> QED
  BY <1>1, <1>2, <1>5 DEF DevInv

\* The stores, the engine, the timers, a fault: only a run can make the driver run,
\* and it is on record.
LEMMA EngineKeeps ==
  ASSUME DevInv,
         \/ \E t \in Tasks : EnterStore(t) \/ Run(t) \/ Command(t)
         \/ Play \/ EndOfData \/ RampTimer \/ PumpTimer \/ FaultLine \/ UNCHANGED vars
  PROVE  DevInv' /\ tripped_by' = tripped_by
<1>1. UNCHANGED bringVars
  BY DEF EnterStore, Run, Command, Play, EndOfData, RampTimer, PumpTimer, FaultLine, vars
<1>2. UNCHANGED fileVars
  BY DEF EnterStore, Run, Command, Play, EndOfData, RampTimer, PumpTimer, FaultLine, vars
<1>3. \A f \in own : fop[f] \in Closing /\ st' = "running"
                         => f \in late' \/ (st = "running" /\ (f \in late => f \in late'))
  <2> SUFFICES ASSUME NEW f \in own, fop[f] \in Closing, st' = "running"
               PROVE  f \in late' \/ (st = "running" /\ (f \in late => f \in late'))
    OBVIOUS
  <2>1. CASE \E t \in Tasks : Run(t)
    BY <2>1 DEF Run, lifeVars, DevInv, FileInv
  <2>2. CASE \E t \in Tasks : EnterStore(t)
    BY <2>2 DEF EnterStore, lifeVars
  <2>3. CASE \E t \in Tasks : Command(t)
    <3>1. late' = late
      BY <2>3 DEF Command
    <3>2. st' \in {st, "idle", "disabled"}
      BY <2>3 DEF Command, Halt, Stop, lifeVars
    <3> QED
      BY <3>1, <3>2
  <2>4. CASE Play
    BY <2>4 DEF Play, Life!Emit, callVars
  <2>5. CASE EndOfData
    BY <2>5 DEF EndOfData, Stop, lifeVars, callVars
  <2>6. CASE RampTimer \/ PumpTimer
    BY <2>6 DEF RampTimer, PumpTimer, Halt, Stop, lifeVars, callVars
  <2>7. CASE FaultLine
    BY <2>7 DEF FaultLine, Life!Fault
  <2>8. CASE UNCHANGED vars
    BY <2>8 DEF vars, lifeVars, callVars
  <2> QED
    BY <2>1, <2>2, <2>3, <2>4, <2>5, <2>6, <2>7, <2>8
<1>4. BringStep /\ ~NewData
  BY <1>1, NoNewData DEF BringStep, DevInv
<1> QED
  BY <1>2, <1>3, <1>4, DriverKeeps DEF fileVars

\* Unbinding, unwinding and removing leave the file and the state alone.
LEMMA RemoveKeeps ==
  ASSUME DevInv, Manage \/ AbortStep \/ RemoveStep
  PROVE  DevInv' /\ tripped_by' = tripped_by
<1>1. BringStep /\ ~NewData
  BY NoNewData DEF BringStep, Manage, AbortStep, RemoveStep, DevInv
<1>2. UNCHANGED fileVars /\ st' = st /\ late' = late
  BY DEF Manage, AbortStep, RemoveStep, lifeVars, callVars
<1> QED
  BY <1>1, <1>2, DriverKeeps DEF fileVars

\* A probe resets the switch and in_use with the data it allocates, and then no file has
\* been opened on them.
LEMMA ProbeKeeps ==
  ASSUME DevInv, ProbeStep PROVE DevInv' /\ tripped_by' = tripped_by
<1>1. PICK item \in Items :
        /\ Obtain("cnc", item)
        /\ item # "data" => UNCHANGED dataVars /\ (st' = st \/ st' = "fault")
        /\ item = "data" => own' = {} /\ meddled' = (meddled \/ \E f \in Files : fop[f] \in Calls \cup Closing)
  BY DEF ProbeStep, Items, Life!Fault, lifeVars
<1>2. BringStep
  BY <1>1 DEF BringStep
<1>3. UNCHANGED <<fop, read, late, tripped_by>>
  BY DEF ProbeStep, callVars
<1>4. CASE item # "data"
  <2>1. ~NewData
    BY <1>1, <1>4, NoNewData DEF DevInv
  <2> QED
    BY <1>1, <1>2, <1>3, <1>4, <2>1, DriverKeeps DEF dataVars
<1>5. CASE item = "data"
  <2>1. FileInv'
    <3>1. meddled' \in BOOLEAN /\ own' = {}
      BY <1>1, <1>5
    <3>2. ASSUME ~meddled', NEW f \in Files PROVE fop[f] \in {"closed", "open"}
      BY <1>1, <1>5, <3>2 DEF DevInv, FileInv
    <3> QED
      BY <1>3, <3>1, <3>2 DEF DevInv, FileInv
  <2>2. SwitchInv'
    BY <1>1, <1>3, <1>5 DEF DevInv, SwitchInv, DeadmanStops
  <2> QED
    BY <1>2, <1>3, <2>1, <2>2, BringKeeps DEF DevInv, Kept
<1> QED
  BY <1>4, <1>5

\* What holds of the driver and the files while a file operation of f runs: the driver
\* stays as it is, and until something meddles f is the holder or has no operation.
LEMMA FileSteps ==
  ASSUME DevInv, NEW f \in Files, fop[f] # "closed", UNCHANGED bringVars,
         fop' \in [Files -> {"closed", "open"} \cup Calls \cup Closing],
         \A g \in Files \ {f} : fop'[g] = fop[g],
         own' = IF fop'[f] = "closed" THEN own \ {f} ELSE own,
         meddled' = meddled \/ meddled' = (meddled \/ f \notin own),
         ~meddled' /\ f \notin own => fop'[f] \in {"closed", "open"},
         (~meddled' /\ f \notin own) \/ fop'[f] # "closed" => in_use' = in_use
  PROVE  /\ BringInv' /\ FileInv' /\ Has("data")' = Has("data")
         /\ ~meddled' => ~meddled /\ \A g \in own : f \in own => g = f
         /\ own' \subseteq own
<1>1. Past' = Past
  BY DEF bringVars, Past
<1>2. ~meddled' => ~meddled /\ \A g \in own : f \in own => g = f
  BY DEF DevInv, FileInv
<1>3. BringInv'
  BY DEF DevInv, BringInv, bringVars, FileUp
<1>4. own' \subseteq own /\ meddled' \in BOOLEAN
  BY DEF DevInv, FileInv
<1>5. \A g \in own' : fop'[g] # "closed" /\ Past'
  BY <1>1, <1>4 DEF DevInv, FileInv
<1>6. ASSUME ~meddled'
      PROVE  /\ own' # {} => in_use' = TRUE
             /\ \A g \in own', h \in own' : g = h
             /\ \A g \in Files \ own' : fop'[g] \in {"closed", "open"}
  <2>1. ~meddled
    BY <1>2, <1>6
  <2>2. own' # {} => in_use' = TRUE
    <3>1. CASE f \notin own
      BY <1>4, <1>6, <2>1, <3>1 DEF DevInv, FileInv
    <3>2. CASE f \in own
      BY <1>2, <1>4, <1>6, <2>1, <3>2 DEF DevInv, FileInv
    <3> QED
      BY <3>1, <3>2
  <2>3. \A g \in own', h \in own' : g = h
    BY <1>4, <2>1 DEF DevInv, FileInv
  <2>4. ASSUME NEW g \in Files \ own' PROVE fop'[g] \in {"closed", "open"}
    <3>1. CASE g = f
      BY <1>6, <2>4, <3>1
    <3>2. CASE g # f
      BY <2>1, <2>4, <3>2 DEF DevInv, FileInv
    <3> QED
      BY <3>1, <3>2
  <2> QED
    BY <2>2, <2>3, <2>4
<1>7. FileInv'
  BY <1>4, <1>5, <1>6 DEF DevInv, FileInv
<1>8. Has("data")' = Has("data")
  BY DEF Has, bringVars
<1> QED
  BY <1>2, <1>3, <1>4, <1>7, <1>8

\* Opening finds nobody at the data and disarms the switch.
LEMMA OpenKeeps ==
  ASSUME DevInv, NEW f \in Files, Open(f) PROVE DevInv' /\ tripped_by' = tripped_by
<1>1. Past
  BY DEF Open, Has, DevInv, BringInv, FileUp, Past
<1>2. BringInv' /\ Past'
  BY <1>1 DEF Open, DevInv, BringInv, bringVars, FileUp, Past
<1>3. /\ fop' \in [Files -> {"closed", "open"} \cup Calls \cup Closing]
      /\ fop'[f] = "open" /\ \A g \in Files \ {f} : fop'[g] = fop[g]
      /\ own' = own \cup {f} /\ meddled' = meddled /\ f \notin own
      /\ in_use = FALSE /\ in_use' = TRUE
  BY DEF Open, DevInv, FileInv
<1>4. ~meddled => own = {}
  BY <1>3 DEF DevInv, FileInv
<1>5. FileInv'
  BY <1>2, <1>3, <1>4 DEF DevInv, FileInv
<1>6. armed' = FALSE /\ UNCHANGED <<read, late, st>> /\ Has("data")' = Has("data")
  BY DEF Open, lifeVars, callVars, bringVars, Has
<1>7. \A g \in own' : g = f \/ g \in own
  BY <1>3
<1>8. DeadmanStops'
  BY <1>3, <1>6, <1>7 DEF DevInv, FileInv, SwitchInv, DeadmanStops
<1>9. SwitchInv'
  BY <1>3, <1>4, <1>6, <1>7, <1>8 DEF DevInv, FileInv, SwitchInv
<1> QED
  BY <1>2, <1>5, <1>9 DEF Open, DevInv

\* The calls of the holder: a lock arms the switch for it.
LEMMA CallKeeps ==
  ASSUME DevInv, NEW f \in Files, EnterCall(f) \/ Call(f)
  PROVE  DevInv' /\ tripped_by' = tripped_by
<1>1. fop[f] # "closed" /\ fop'[f] \notin {"closed"} \cup Closing
  BY DEF EnterCall, Call, Calls, Closing, DevInv, FileInv
<1>2. /\ fop' \in [Files -> {"closed", "open"} \cup Calls \cup Closing]
      /\ \A g \in Files \ {f} : fop'[g] = fop[g]
      /\ UNCHANGED <<bringVars, in_use, own>>
      /\ read' = read /\ tripped_by' = tripped_by /\ late' = late /\ st' = st
      /\ meddled' = meddled \/ meddled' = (meddled \/ f \notin own)
  BY DEF EnterCall, Call, Pass, DevInv, FileInv, lifeVars, callVars
<1>3. ~meddled' /\ f \notin own => fop'[f] \in {"closed", "open"}
  BY DEF EnterCall, Call, Pass, DevInv, FileInv, Calls
<1>4. /\ BringInv' /\ FileInv' /\ Has("data")' = Has("data")
      /\ ~meddled' => ~meddled /\ \A g \in own : f \in own => g = f
  BY <1>1, <1>2, <1>3, FileSteps
<1>5. ASSUME ~meddled', NEW g \in own PROVE armed' => armed_by' = g
  <2>1. ~meddled /\ (armed => armed_by = g)
    BY <1>4, <1>5 DEF DevInv, SwitchInv
  <2>2. CASE EnterCall(f)
    BY <2>1, <2>2 DEF EnterCall
  <2>3. CASE Call(f)
    <3>1. f \in own
      BY <2>1, <2>3 DEF Call, DevInv, FileInv, Calls
    <3>2. UNCHANGED <<armed, armed_by>> \/ armed_by' = f \/ armed' = FALSE
      BY <2>3 DEF Call
    <3> QED
      BY <1>4, <1>5, <2>1, <3>1, <3>2
  <2> QED
    BY <2>2, <2>3
<1>6. ASSUME ~meddled', NEW g \in own, fop'[g] = "close_halt", read[g].armed PROVE armed_by' = g
  <2>1. ~meddled /\ g # f /\ fop[g] = "close_halt"
    BY <1>1, <1>2, <1>4, <1>6 DEF Closing, DevInv, FileInv
  <2>2. f \notin own /\ armed_by = g
    BY <1>4, <1>6, <2>1 DEF DevInv, SwitchInv
  <2>3. ~Call(f)
    BY <2>1, <2>2 DEF Call, DevInv, FileInv, Calls
  <2> QED
    BY <2>2, <2>3 DEF EnterCall
<1>7. \A g \in own : fop'[g] \in Closing => fop[g] = fop'[g]
  BY <1>1, <1>2 DEF DevInv, FileInv
<1>8. DeadmanStops'
  BY <1>2, <1>4, <1>7 DEF DevInv, SwitchInv, DeadmanStops, Closing
<1>9. SwitchInv'
  BY <1>2, <1>5, <1>6, <1>7, <1>8 DEF DevInv, SwitchInv, Closing
<1> QED
  BY <1>2, <1>4, <1>9 DEF DevInv

\* A close whose trip another task's run escapes has it on record; one that trips
\* halts whatever runs, and the switch it acts on is its own.
LEMMA CloseHaltKeeps ==
  ASSUME DevInv, NEW f \in Files, CloseHalt(f)
  PROVE  DevInv' /\ (~meddled /\ tripped_by' # tripped_by => armed_by = tripped_by')
<1>1. fop[f] = "close_halt" /\ fop'[f] = "close_chain"
  BY DEF CloseHalt, DevInv, FileInv
<1>2. /\ fop' \in [Files -> {"closed", "open"} \cup Calls \cup Closing]
      /\ \A g \in Files \ {f} : fop'[g] = fop[g]
      /\ UNCHANGED <<bringVars, in_use, armed, read, armed_by, late, own, meddled>>
  BY DEF CloseHalt, DevInv, FileInv, Closing, callVars
<1>3. ~meddled => f \in own
  BY <1>1 DEF DevInv, FileInv
<1>4. BringInv' /\ FileInv' /\ Has("data")' = Has("data")
  BY <1>1, <1>2, <1>3, FileSteps
<1>5. ~meddled /\ tripped_by' # tripped_by => armed_by = tripped_by'
  BY <1>1, <1>3 DEF CloseHalt, Trips, DevInv, SwitchInv
<1>6. st' = "running" => st = "running"
  BY DEF CloseHalt, Halt, Stop, lifeVars
<1>7. f \in own /\ read[f].armed /\ st' = "running" /\ Has("data") => f \in late
  <2> SUFFICES ASSUME f \in own, read[f].armed, st' = "running", Has("data") PROVE f \in late
    OBVIOUS
  <2>1. CASE read[f].running
    <3>1. Meets(f) = {TRUE}
      BY DEF Meets
    <3>2. Halt
      BY <2>1, <3>1 DEF CloseHalt, Trips
    <3> QED
      BY <3>2 DEF Halt, Stop, lifeVars
  <2>2. CASE ~read[f].running
    BY <1>1, <1>6, <2>2 DEF DevInv, SwitchInv
  <2> QED
    BY <2>1, <2>2
<1>8. DeadmanStops'
  <2> SUFFICES ASSUME NEW g \in own, fop'[g] \in {"close_chain", "close_latch", "close_clear"},
                      read[g].armed, st' = "running", Has("data")
               PROVE  g \in late
    BY <1>2, <1>4 DEF DeadmanStops
  <2>1. CASE g = f
    BY <1>7, <2>1
  <2>2. CASE g # f
    <3>1. fop[g] = fop'[g]
      BY <1>2, <2>2 DEF DevInv, FileInv
    <3> QED
      BY <1>6, <3>1 DEF DevInv, SwitchInv, DeadmanStops
  <2> QED
    BY <2>1, <2>2
<1>9. \A g \in own : fop'[g] = "close_halt" => fop[g] = "close_halt"
  BY <1>1, <1>2 DEF DevInv, FileInv
<1>10. SwitchInv'
  BY <1>2, <1>6, <1>8, <1>9 DEF DevInv, SwitchInv
<1> QED
  BY <1>4, <1>5, <1>10 DEF DevInv

\* The rest of a close: it begins with the switch as its holder set it, ends with the
\* data free for the next, and makes nothing run.
LEMMA CloseKeeps ==
  ASSUME DevInv, NEW f \in Files,
         CloseDead(f) \/ StartClose(f) \/ CloseChain(f) \/ CloseLatch(f) \/ CloseClear(f)
  PROVE  DevInv' /\ tripped_by' \in {tripped_by, Nobody}
<1>1. fop[f] # "closed"
  BY DEF CloseDead, StartClose, CloseChain, CloseLatch, CloseClear
<1>2. /\ fop' \in [Files -> {"closed", "open"} \cup Calls \cup Closing]
      /\ \A g \in Files \ {f} : fop'[g] = fop[g]
      /\ UNCHANGED <<bringVars, armed, armed_by>>
      /\ st' = st /\ \A g \in Files \ {f} : g \in late => g \in late'
      /\ tripped_by' \in {tripped_by, Nobody}
  BY DEF CloseDead, StartClose, CloseChain, CloseLatch, CloseClear, DevInv, FileInv,
         Closing, lifeVars, callVars
<1>3. /\ own' = IF fop'[f] = "closed" THEN own \ {f} ELSE own
      /\ meddled' = meddled \/ meddled' = (meddled \/ f \notin own)
  BY DEF CloseDead, StartClose, CloseChain, CloseLatch, CloseClear, Pass, DevInv, FileInv
<1>4. ~meddled' /\ f \notin own => CloseDead(f)
  BY DEF CloseDead, StartClose, CloseChain, CloseLatch, CloseClear, Pass, DevInv, FileInv
<1>5. /\ CloseDead(f) => fop'[f] = "closed" /\ in_use' = in_use
      /\ fop'[f] # "closed" => in_use' = in_use
  BY DEF CloseDead, StartClose, CloseChain, CloseLatch, CloseClear, DevInv, FileInv
<1>6. /\ BringInv' /\ FileInv' /\ Has("data")' = Has("data")
      /\ ~meddled' => ~meddled /\ \A g \in own : f \in own => g = f
      /\ own' \subseteq own
  BY <1>1, <1>2, <1>3, <1>4, <1>5, FileSteps
<1>7. /\ read' \in [Files -> [armed : BOOLEAN, running : BOOLEAN]]
      /\ \A g \in Files \ {f} : read'[g] = read[g]
  <2>1. ReadNothing \in [armed : BOOLEAN, running : BOOLEAN]
    BY DEF ReadNothing
  <2>2. \/ read' = read \/ read' = [read EXCEPT ![f] = ReadNothing]
        \/ \E a \in BOOLEAN, r \in BOOLEAN : read' = [read EXCEPT ![f] = [armed |-> a, running |-> r]]
    BY DEF CloseDead, StartClose, CloseChain, CloseLatch, CloseClear
  <2> QED
    BY <2>1, <2>2 DEF DevInv, SwitchInv
<1>8. f \in own' => /\ fop'[f] \in {"close_chain", "close_latch", "close_clear"} =>
                         /\ fop[f] \in {"close_chain", "close_latch"}
                         /\ read' = read /\ late' = late
                    /\ fop'[f] = "close_halt" => StartClose(f)
  BY <1>3 DEF CloseDead, StartClose, CloseChain, CloseLatch, CloseClear, callVars, DevInv, FileInv
<1>9. f \in own /\ StartClose(f)
        => (read'[f].armed => armed) /\ (st = "running" => read'[f].running)
  <2> SUFFICES ASSUME f \in own, StartClose(f)
               PROVE  (read'[f].armed => armed) /\ (st = "running" => read'[f].running)
    OBVIOUS
  <2>1. PICK a \in BOOLEAN, r \in BOOLEAN :
          /\ a = (armed /\ Has("data")) /\ r = (st = "running")
          /\ read' = [read EXCEPT ![f] = [armed |-> a, running |-> r]]
    BY DEF StartClose
  <2>2. read'[f].armed = a /\ read'[f].running = r
    BY <2>1 DEF DevInv, SwitchInv
  <2> QED
    BY <2>1, <2>2
<1>10. DeadmanStops'
  <2> SUFFICES ASSUME NEW g \in own', fop'[g] \in {"close_chain", "close_latch", "close_clear"},
                      read'[g].armed, st = "running", Has("data")
               PROVE  g \in late'
    BY <1>2, <1>6 DEF DeadmanStops
  <2>1. CASE g = f
    BY <1>6, <1>8, <2>1 DEF DevInv, SwitchInv, DeadmanStops
  <2>2. CASE g # f
    BY <1>2, <1>6, <1>7, <2>2 DEF DevInv, FileInv, SwitchInv, DeadmanStops
  <2> QED
    BY <2>1, <2>2
<1>11. ASSUME ~meddled', NEW g \in own'
       PROVE  /\ armed => armed_by = g
              /\ fop'[g] = "close_halt" /\ read'[g].armed => armed_by = g
  <2>1. ~meddled /\ g \in own /\ g \in Files
    BY <1>6, <1>11 DEF DevInv, FileInv
  <2>2. CASE g = f
    BY <1>8, <1>9, <1>11, <2>1, <2>2 DEF DevInv, SwitchInv
  <2>3. CASE g # f
    BY <1>2, <1>7, <2>1, <2>3 DEF DevInv, SwitchInv
  <2> QED
    BY <2>2, <2>3
<1>12. ASSUME NEW g \in own', fop'[g] = "close_halt", read'[g].armed, ~read'[g].running,
              st = "running"
       PROVE  g \in late'
  <2>1. g \in own /\ g \in Files
    BY <1>6 DEF DevInv, FileInv
  <2>2. CASE g = f
    BY <1>8, <1>9, <1>12, <2>1, <2>2
  <2>3. CASE g # f
    BY <1>2, <1>7, <1>12, <2>1, <2>3 DEF DevInv, SwitchInv
  <2> QED
    BY <2>2, <2>3
<1>13. SwitchInv'
  BY <1>2, <1>7, <1>10, <1>11, <1>12 DEF SwitchInv
<1> QED
  BY <1>2, <1>6, <1>13 DEF DevInv

-----------------------------------------------------------------------------
(* The theorems.                                                           *)

\* What one step may do to the record of a trip.
OwnTrip == ~meddled /\ tripped_by' \notin {tripped_by, Nobody} => armed_by = tripped_by'

\* Every step keeps the invariant, and a trip is the holder's own.
LEMMA DevInvStep == DevInv /\ [Next]_vars => DevInv' /\ OwnTrip
<1> SUFFICES ASSUME DevInv, [Next]_vars PROVE DevInv' /\ OwnTrip
  OBVIOUS
<1> USE DEF OwnTrip
<1>1. CASE \/ \E t \in Tasks : EnterStore(t) \/ Run(t) \/ Command(t)
           \/ Play \/ EndOfData \/ RampTimer \/ PumpTimer \/ FaultLine \/ UNCHANGED vars
  BY <1>1, EngineKeeps
<1>2. CASE Manage \/ AbortStep \/ RemoveStep
  BY <1>2, RemoveKeeps
<1>3. CASE ProbeStep
  BY <1>3, ProbeKeeps
<1>4. ASSUME NEW f \in Files, Open(f) PROVE DevInv' /\ OwnTrip
  BY <1>4, OpenKeeps
<1>5. ASSUME NEW f \in Files, EnterCall(f) \/ Call(f) PROVE DevInv' /\ OwnTrip
  BY <1>5, CallKeeps
<1>6. ASSUME NEW f \in Files, CloseHalt(f) PROVE DevInv' /\ OwnTrip
  BY <1>6, CloseHaltKeeps
<1>7. ASSUME NEW f \in Files,
             CloseDead(f) \/ StartClose(f) \/ CloseChain(f) \/ CloseLatch(f) \/ CloseClear(f)
      PROVE  DevInv' /\ OwnTrip
  BY <1>7, CloseKeeps
<1> QED
  BY <1>1, <1>2, <1>3, <1>4, <1>5, <1>6, <1>7 DEF Next

\* Files opened on the present data are one.
LEMMA SingleHolder == DevInv => OneHolder
<1> SUFFICES ASSUME DevInv, ~meddled PROVE Cardinality(own) <= 1
  BY DEF OneHolder
<1> DEFINE S == own
<1>1. CASE S = {}
  BY <1>1, FS_EmptySet, SMT
<1>2. CASE S # {}
  <2>1. PICK f \in S : TRUE
    BY <1>2
  <2>2. S = {f}
    BY <2>1 DEF DevInv, FileInv
  <2>3. Cardinality({f}) = 1
    BY FS_Singleton
  <2> QED
    BY <2>2, <2>3, SMT
<1> QED
  BY <1>1, <1>2

\* However often the driver is unbound and bound, one holder at a time has the present
\* data open, up to the last step of its close, until a file left over from an unbind
\* gets at them (pulsedev_open() and pulsedev_close()).
THEOREM Exclusive == Spec => []OneHolder
  BY DevInvInit, DevInvStep, SingleHolder, PTL DEF Spec

\* A close with the switch armed leaves no run behind but one started while it was
\* closing: halting is right however old the state it has read.
THEOREM DeadmanSafety == Spec => []DeadmanStops
<1>1. DevInv => DeadmanStops
  BY DEF DevInv, SwitchInv
<1> QED
  BY DevInvInit, DevInvStep, <1>1, PTL DEF Spec

\* A close stops the machine only by the switch its own holder armed.
THEOREM TripsAreOwn == Spec => OwnTrips
<1>1. DevInv /\ [Next]_vars => [OwnTrip]_vars
  BY DevInvStep
<1> QED
  BY DevInvInit, DevInvStep, <1>1, PTL DEF Spec, OwnTrips, OwnTrip

-----------------------------------------------------------------------------
(* The ladder, and what is queued or energized on each of its steps.       *)

\* From the file's registration to step n of the remove.
Up(n) ==
  \/ phase["cnc"] = "probe" /\ at["cnc"] > 19
  \/ phase["cnc"] = "bound"
  \/ phase["cnc"] = "remove" /\ at["cnc"] <= n

\* A step of the driver's life is one of its ladder.
LEMMA LadderMoves ==
  ASSUME BringStep PROVE ModuleStep \/ UNCHANGED bringVars \/ Moves("cnc")
  BY DEF BringStep, Moves

\* So the ladder is kept.
LEMMA LadderKept ==
  ASSUME BringSafe, BringStep PROVE BringSafe'
<1>1. "cnc" \in Drivers /\ TablesRight("cnc")
  BY DeviceAssumption, CncTables
<1> QED
  BY <1>1, LadderMoves, ModuleKeeps, MoveKeeps

\* Every step of the system is one of the driver's life, or leaves it alone.
LEMMA StepsOfBring ==
  ASSUME [Next]_vars PROVE BringStep
<1>1. CASE Manage \/ ProbeStep \/ AbortStep \/ RemoveStep
  BY <1>1 DEF Manage, ProbeStep, AbortStep, RemoveStep, BringStep, Items
<1>2. CASE \/ \E t \in Tasks : EnterStore(t) \/ Run(t) \/ Command(t)
           \/ Play \/ EndOfData \/ RampTimer \/ PumpTimer \/ FaultLine \/ UNCHANGED vars
  BY <1>2 DEF EnterStore, Run, Command, Play, EndOfData, RampTimer, PumpTimer, FaultLine,
              vars, BringStep
<1>3. ASSUME NEW f \in Files,
             \/ Open(f) \/ EnterCall(f) \/ Call(f) \/ CloseDead(f) \/ StartClose(f)
             \/ CloseHalt(f) \/ CloseChain(f) \/ CloseLatch(f) \/ CloseClear(f)
      PROVE  BringStep
  BY <1>3 DEF Open, EnterCall, Call, CloseDead, StartClose, CloseHalt, CloseChain,
              CloseLatch, CloseClear, BringStep
<1> QED
  BY <1>1, <1>2, <1>3 DEF Next

\* What a step of the remove gives back is gone after it, ...
LEMMA GoneAfter ==
  ASSUME BringSafe, phase["cnc"] = "remove", NEW k \in 1..19,
         NEW x \in Frees(CncRemove[k]), x \notin ByCore, Has(x)
  PROVE  at["cnc"] <= k
<1>1. OnLadder("cnc") /\ at["cnc"] \in Nat
  BY DeviceAssumption DEF BringSafe, BringTyped
<1>2. Gone(CncRemove, at["cnc"], held["cnc"])
  BY <1>1, PlanFacts DEF OnLadder, Undoes
<1>3. ~(k \in 1..(at["cnc"] - 1))
  BY <1>2 DEF Gone, Has
<1> QED
  BY <1>1, <1>3

\* ... so whoever has it, past the file's registration, is before that step.
LEMMA UpWith ==
  ASSUME BringSafe, Past, NEW k \in 1..19, NEW x \in Frees(CncRemove[k]), x \notin ByCore, Has(x)
  PROVE  Up(k)
<1>1. OnLadder("cnc")
  BY DeviceAssumption DEF BringSafe
<1>2. phase["cnc"] \notin {"unbound", "devres", "forget"}
  BY <1>1 DEF OnLadder, Has, ByCore
<1>3. ~(phase["cnc"] = "probe" /\ at["cnc"] = 1)
  <2>1. Built("cnc", 1) = {}
    BY DEF Built
  <2> QED
    BY <1>1, <2>1 DEF OnLadder, Has
<1>4. phase["cnc"] \in Phases
  BY DeviceAssumption DEF BringSafe, BringTyped
<1> QED
  BY <1>2, <1>3, <1>4, GoneAfter DEF Past, Up, Phases

\* Until the remove has freed them, the driver has its data.
LEMMA UpHasData ==
  ASSUME BringSafe, Up(19) PROVE Has("data")
<1>1. OnLadder("cnc") /\ Len(Acquire["cnc"]) = 21
  BY DeviceAssumption, TableFacts DEF BringSafe, Acquire
<1>2. CncAcquire[1] = "data" /\ "data" \notin Acts /\ Acquire["cnc"] = CncAcquire
  BY DEF CncAcquire, Acts, Acquire
<1>3. ASSUME NEW n \in Nat, n > 1 PROVE "data" \in Built("cnc", n)
  <2>1. 1 \in 1..(n - 1)
    BY <1>3
  <2> QED
    BY <1>2, <2>1 DEF Built
<1>4. CASE phase["cnc"] = "probe" /\ at["cnc"] > 19
  BY <1>1, <1>3, <1>4 DEF OnLadder, Has
<1>5. CASE phase["cnc"] = "bound"
  BY <1>1, <1>3, <1>5 DEF OnLadder, Has
<1>6. CASE phase["cnc"] = "remove"
  BY <1>1, <1>6 DEF OnLadder, Undoes, Has
<1> QED
  BY <1>4, <1>5, <1>6 DEF Up

\* Data in the ring and a run need the file, a store the attributes, and each timer and
\* the beam are gone with the step of the remove that ends them; the rail stays off and
\* the latch locked after theirs.
Standing ==
  /\ loaded \/ st = "running" => Past
  /\ \A t \in Tasks : store[t] # "none" => Has("group")
  /\ "ramp" \in timers => Up(8)
  /\ "pump" \in timers => Up(9)
  /\ "sampler" \in timers => Up(10)
  /\ emitting => Up(13)
  /\ phase["cnc"] = "remove" /\ at["cnc"] > 13 => rail = FALSE /\ latch_locked

\* All that is known of a state.
WholeInv == DevInv /\ BringSafe /\ TypeOK /\ (~meddled => Standing)

\* The steps of the remove that end what calls in.
LEMMA Enders ==
  /\ "group" \in Frees(CncRemove[4]) /\ "epit" \in Frees(CncRemove[6])
  /\ "callback" \in Frees(CncRemove[7])
  /\ {"group", "epit", "callback"} \cap ByCore = {}
  BY DEF CncRemove, Frees, Acts, ByCore, Managed

\* A driver that stays where it is.
LEMMA BringStill ==
  ASSUME UNCHANGED bringVars
  PROVE  /\ Past' = Past /\ \A n \in Nat : Up(n)' = Up(n)
         /\ Has("group")' = Has("group") /\ phase' = phase /\ at' = at
  BY DEF bringVars, Past, Up, Has

\* The attributes are removed early, so a store under way finds the driver before that.
LEMMA StoreUp ==
  ASSUME WholeInv, ~meddled, NEW t \in Tasks, store[t] # "none"
  PROVE  /\ phase["cnc"] = "remove" => at["cnc"] <= 4
         /\ Past => Up(4)
  BY Enders, GoneAfter, UpWith DEF WholeInv, Standing

\* What is up before a step of the remove is up before a later one.
LEMMA UpLater ==
  ASSUME WholeInv, NEW m \in Nat, NEW n \in Nat, m <= n, Up(m) PROVE Up(n)
  BY DeviceAssumption DEF WholeInv, BringSafe, BringTyped, Up

\* While the driver stays where it is, Standing is kept by a step that gives the data,
\* the stores, the timers and the beam nothing their place does not allow.
LEMMA StandsStill ==
  ASSUME WholeInv, ~meddled, UNCHANGED bringVars,
         loaded' \/ st' = "running" => loaded \/ st = "running" \/ Past,
         \A t \in Tasks : store'[t] # "none" => Has("group"),
         "ramp" \in timers' => "ramp" \in timers \/ Up(8),
         "pump" \in timers' => "pump" \in timers \/ Up(9),
         "sampler" \in timers' => "sampler" \in timers,
         emitting' => emitting \/ Up(13),
         phase["cnc"] = "remove" /\ at["cnc"] > 13 => rail' = FALSE /\ latch_locked'
  PROVE  Standing'
<1>1. /\ Past' = Past /\ Has("group")' = Has("group") /\ phase' = phase /\ at' = at
      /\ Up(8)' = Up(8) /\ Up(9)' = Up(9) /\ Up(10)' = Up(10) /\ Up(13)' = Up(13)
  BY BringStill
<1>2. Standing
  BY DEF WholeInv
<1> QED
  BY <1>1, <1>2, Zenon DEF Standing

\* The stores: only a run with data raises the rail or queues a timer, and an enable or
\* an unlock comes before the attributes are removed.
LEMMA StoresStand ==
  ASSUME WholeInv, ~meddled, NEW t \in Tasks, EnterStore(t) \/ Run(t) \/ Command(t)
  PROVE  Standing'
<1>0. UNCHANGED bringVars
  BY DEF EnterStore, Run, Command
<1>1. \A u \in Tasks : store[u] # "none" => Has("group")
  BY DEF WholeInv, Standing
<1>2. \A u \in Tasks : store'[u] # "none" => Has("group")
  BY <1>1 DEF EnterStore, Run, Command, LeaveStore, WholeInv, TypeOK
<1>3. phase["cnc"] = "remove" /\ at["cnc"] > 13 => rail = FALSE /\ latch_locked
  BY DEF WholeInv, Standing
<1>4. CASE EnterStore(t)
  <2>1. UNCHANGED <<loaded, st, timers, emitting, rail, latch_locked>>
    BY <1>4 DEF EnterStore, lifeVars, hwVars
  <2> QED
    BY <1>0, <1>2, <1>3, <2>1, StandsStill
<1>5. CASE Run(t)
  <2>1. store[t] # "none" /\ UNCHANGED <<latch_locked, loaded>>
    BY <1>5 DEF Run
  <2>2. CASE UNCHANGED <<lifeVars, rail, timers, runs, late>>
    <3>1. UNCHANGED <<loaded, st, timers, emitting, rail, latch_locked>>
      BY <2>1, <2>2 DEF lifeVars
    <3> QED
      BY <1>0, <1>2, <1>3, <3>1, StandsStill
  <2>3. CASE loaded /\ Life!Begin /\ rail' = TRUE /\ timers' = timers \cup {"pump"}
    <3>1. Past /\ Up(4)
      BY <2>1, <2>3, StoreUp DEF WholeInv, Standing
    <3>2. Up(9) /\ ~(phase["cnc"] = "remove" /\ at["cnc"] > 13)
      BY <3>1, DeviceAssumption DEF Up, WholeInv, BringSafe, BringTyped
    <3>3. emitting' = FALSE
      BY <2>3 DEF Life!Begin
    <3>4. /\ "ramp" \in timers' => "ramp" \in timers
          /\ "sampler" \in timers' => "sampler" \in timers
      BY <2>3
    <3> QED
      BY <1>0, <1>2, <3>1, <3>2, <3>3, <3>4, StandsStill
  <2> QED
    BY <1>5, <2>2, <2>3 DEF Run
<1>6. CASE Command(t)
  <2>1. UNCHANGED loaded /\ store[t] # "none"
    BY <1>6 DEF Command
  <2>2. ~(phase["cnc"] = "remove" /\ at["cnc"] > 13)
    BY <2>1, StoreUp, DeviceAssumption DEF WholeInv, BringSafe, BringTyped
  <2>3. st' = "running" => st = "running"
    BY <1>6 DEF Command, Halt, Stop, lifeVars
  <2>4. emitting' => emitting
    BY <1>6 DEF Command, Halt, Stop, lifeVars, Life!End, Life!Settle
  <2>5. \/ timers' = timers
        \/ st = "running" /\ timers' = timers \cup {"ramp"}
    BY <1>6 DEF Command
  <2>6. st = "running" => Up(8)
    <3>1. st = "running" => Past
      BY DEF WholeInv, Standing
    <3>2. Past => Up(4)
      BY <2>1, StoreUp
    <3>3. Up(4) => Up(8)
      BY UpLater
    <3> QED
      BY <3>1, <3>2, <3>3
  <2>7. /\ "ramp" \in timers' => "ramp" \in timers \/ Up(8)
        /\ "pump" \in timers' => "pump" \in timers
        /\ "sampler" \in timers' => "sampler" \in timers
    BY <2>5, <2>6
  <2> QED
    BY <1>0, <1>2, <2>1, <2>2, <2>3, <2>4, <2>7, StandsStill
<1> QED
  BY <1>4, <1>5, <1>6

\* The engine, the timers and a fault: the script plays while it has its event input,
\* and the callback arms the ramp while it is set and a run is under way.
LEMMA EngineStands ==
  ASSUME WholeInv, ~meddled, Play \/ EndOfData \/ RampTimer \/ PumpTimer \/ FaultLine \/ UNCHANGED vars
  PROVE  Standing'
<1>0. UNCHANGED bringVars /\ UNCHANGED <<store, rail, latch_locked>>
  BY DEF Play, EndOfData, RampTimer, PumpTimer, FaultLine, vars, callVars, hwVars
<1>1. /\ \A u \in Tasks : store'[u] # "none" => Has("group")
      /\ phase["cnc"] = "remove" /\ at["cnc"] > 13 => rail' = FALSE /\ latch_locked'
  BY <1>0 DEF WholeInv, Standing
<1>2. CASE Play
  <2>1. st = "running" /\ UNCHANGED <<st, timers, loaded>> /\ Has("epit")
    BY <1>2 DEF Play, Life!Emit, hwVars
  <2>2. Past
    BY <2>1 DEF WholeInv, Standing
  <2>3. Up(6)
    BY <2>1, <2>2, Enders, UpWith DEF WholeInv
  <2>4. Up(13)
    BY <2>3, UpLater
  <2> QED
    BY <1>0, <1>1, <2>1, <2>4, StandsStill
<1>3. CASE EndOfData
  <2>1. /\ st' = "running" => st = "running"
        /\ emitting' => emitting
        /\ timers' = timers \/ (st = "running" /\ timers' = timers \cup {"ramp"})
        /\ Has("callback")
    BY <1>3 DEF EndOfData, Stop, Life!End, lifeVars
  <2>2. loaded' => loaded
    BY <1>3, Zenon DEF EndOfData
  <2>3. st = "running" => Past
    BY DEF WholeInv, Standing
  <2>4. st = "running" => Up(7)
    BY <2>1, <2>3, Enders, UpWith DEF WholeInv
  <2>5. st = "running" => Up(8)
    BY <2>4, UpLater
  <2>6. /\ "ramp" \in timers' => "ramp" \in timers \/ Up(8)
        /\ "pump" \in timers' => "pump" \in timers
        /\ "sampler" \in timers' => "sampler" \in timers
    BY <2>1, <2>5
  <2> QED
    BY <1>0, <1>1, <2>1, <2>2, <2>6, StandsStill
<1>4. CASE RampTimer \/ PumpTimer \/ FaultLine \/ UNCHANGED vars
  <2>1. /\ st' = "running" => st = "running"
        /\ emitting' => emitting
        /\ timers' \subseteq timers /\ loaded' = loaded
    BY <1>4 DEF RampTimer, PumpTimer, FaultLine, Halt, Stop, Life!End, Life!Fault, lifeVars,
                vars, hwVars
  <2> QED
    BY <1>0, <1>1, <2>1, StandsStill
<1> QED
  BY <1>2, <1>3, <1>4

\* The file: a write needs it, and a close halts and locks.
LEMMA FileStands ==
  ASSUME WholeInv, ~meddled, NEW f \in Files,
         \/ Open(f) \/ EnterCall(f) \/ Call(f) \/ CloseDead(f) \/ StartClose(f)
         \/ CloseHalt(f) \/ CloseChain(f) \/ CloseLatch(f) \/ CloseClear(f)
  PROVE  Standing'
<1>0. UNCHANGED bringVars /\ UNCHANGED <<store, rail, timers>>
  BY DEF Open, EnterCall, Call, CloseDead, StartClose, CloseHalt, CloseChain, CloseLatch,
         CloseClear, callVars, hwVars
<1>1. /\ st' = "running" => st = "running"
      /\ emitting' => emitting
      /\ latch_locked => latch_locked'
  <2>1. CASE CloseHalt(f)
    BY <2>1 DEF CloseHalt, lifeVars, hwVars, Halt, Stop, Life!End
  <2>2. CASE ~CloseHalt(f)
    <3>1. UNCHANGED lifeVars
      BY <2>2 DEF Open, EnterCall, Call, CloseDead, StartClose, CloseChain, CloseLatch, CloseClear
    <3>2. latch_locked => latch_locked'
      BY <2>2 DEF Open, EnterCall, Call, CloseDead, StartClose, CloseChain, CloseLatch,
                  CloseClear, hwVars
    <3> QED
      BY <3>1, <3>2 DEF lifeVars
  <2> QED
    BY <2>1, <2>2
<1>2. loaded' => loaded \/ Past
  <2>1. CASE Call(f)
    BY <2>1 DEF Call, Calls, WholeInv, DevInv, FileInv
  <2>2. CASE ~Call(f)
    BY <2>2 DEF Open, EnterCall, CloseDead, StartClose, CloseHalt, CloseChain, CloseLatch,
                CloseClear, hwVars
  <2> QED
    BY <2>1, <2>2
<1>3. /\ \A u \in Tasks : store'[u] # "none" => Has("group")
      /\ phase["cnc"] = "remove" /\ at["cnc"] > 13 => rail' = FALSE /\ latch_locked'
  BY <1>0, <1>1 DEF WholeInv, Standing
<1> QED
  BY <1>0, <1>1, <1>2, <1>3, StandsStill

-----------------------------------------------------------------------------
(* The driver's own steps.                                                 *)

\* A driver that is up stays so in every step but those of its remove: past the file's
\* registration a probe does not fail, and only a bound driver is removed.
LEMMA UpKept ==
  ASSUME DevInv, NEW n \in 1..19, Up(n),
         \/ CoreStep("cnc") \/ ModuleStep
         \/ \E item \in Items : Obtain("cnc", item)
         \/ \E step \in {CncUnwind[i] : i \in 1..Len(CncUnwind)} : Undo("cnc", step)
  PROVE  Up(n)'
<1>1. /\ phase \in [Drivers -> Phases] /\ at \in [Drivers -> Nat] /\ "cnc" \in Drivers
      /\ phase["cnc"] = "probe" => at["cnc"] \in 1..21
  BY DeviceAssumption DEF DevInv, BringInv
<1>2. CASE Probe("cnc") \/ FreeManaged("cnc") \/ Forget("cnc")
  BY <1>2 DEF Up, Probe, FreeManaged, Forget
<1>3. CASE FailProbe("cnc")
  <2>1. phase["cnc"] = "probe" /\ CncAcquire[at["cnc"]] \notin CannotFail
    BY <1>3, PlanFacts DEF FailProbe, Doing
  <2>2. at["cnc"] > 19 => at["cnc"] \in 20..21
    BY <1>1, <2>1
  <2> QED
    BY <2>1, <2>2, TableFacts DEF Up
<1>4. CASE StartRemove("cnc")
  BY <1>1, <1>4 DEF Up, StartRemove, Enter
<1>5. CASE ModuleStep
  BY <1>5 DEF Up, ModuleStep, LoadModule, Register, Loaded, FailLoad, Unload, Unregister, DropRoot
<1>6. ASSUME NEW item, Obtain("cnc", item) PROVE Up(n)'
  <2>1. phase["cnc"] = "probe" /\ at["cnc"] \in 1..21 /\ at["cnc"] > 19
    BY <1>1, <1>6 DEF Obtain, Doing, Up
  <2>2. Len(Plan("cnc", phase["cnc"])) = 21
    BY <2>1, PlanFacts, TableFacts
  <2>3. \/ at' = [at EXCEPT !["cnc"] = @ + 1] /\ UNCHANGED phase
        \/ phase' = [phase EXCEPT !["cnc"] = "bound"]
    BY <1>6 DEF Obtain, Advance, Enter
  <2> QED
    BY <1>1, <2>1, <2>3 DEF Up
<1>7. ASSUME NEW step, Undo("cnc", step) PROVE Up(n)'
  BY <1>7 DEF Undo, Doing, Up
<1> QED
  BY <1>2, <1>3, <1>4, <1>5, <1>6, <1>7 DEF CoreStep

\* A step of the remove ends only what its place says.
LEMMA UpTaken ==
  ASSUME DevInv, NEW n \in 1..18, Up(n), NEW step, TakeDown("cnc", step), step # CncRemove[n]
  PROVE  Up(n)'
<1>1. at \in [Drivers -> Nat] /\ phase \in [Drivers -> Phases] /\ "cnc" \in Drivers
  BY DeviceAssumption DEF DevInv, BringInv
<1>2. phase["cnc"] = "remove" /\ step = CncRemove[at["cnc"]]
  BY PlanFacts DEF TakeDown, Doing
<1>3. at["cnc"] < n /\ at["cnc"] < 19
  BY <1>1, <1>2 DEF Up
<1>4. Len(Plan("cnc", phase["cnc"])) = 19
  BY <1>2, PlanFacts, TableFacts
<1>5. at' = [at EXCEPT !["cnc"] = @ + 1] /\ UNCHANGED phase
  BY <1>3, <1>4 DEF TakeDown, Advance
<1>6. at'["cnc"] = at["cnc"] + 1 /\ phase'["cnc"] = "remove"
  BY <1>1, <1>2, <1>5
<1> QED
  BY <1>1, <1>3, <1>6, SMT DEF Up

\* The attributes go with their own step, which waits for the stores.
LEMMA GroupFreed ==
  \A step : "group" \in Frees(step) => step = "group"
  BY DEF Frees, Acts

\* What Standing says of the remove's later steps holds at a driver that is not there.
LEMMA NotYetRemoving ==
  ASSUME DevInv, phase["cnc"] = "remove" /\ at["cnc"] > 13 => rail = FALSE /\ latch_locked,
         \/ CoreStep("cnc") \/ ModuleStep
         \/ \E item \in Items : Obtain("cnc", item)
         \/ \E step \in {CncUnwind[i] : i \in 1..Len(CncUnwind)} : Undo("cnc", step)
  PROVE  phase'["cnc"] = "remove" /\ at'["cnc"] > 13 => rail = FALSE /\ latch_locked
<1>1. /\ phase \in [Drivers -> Phases] /\ at \in [Drivers -> Nat] /\ "cnc" \in Drivers
  BY DeviceAssumption DEF DevInv, BringInv
<1>2. CASE CoreStep("cnc")
  <2>1. CASE StartRemove("cnc")
    BY <1>1, <2>1 DEF StartRemove, Enter
  <2>2. CASE ~StartRemove("cnc")
    <3>1. phase'["cnc"] # "remove"
      BY <1>1, <1>2, <2>2 DEF CoreStep, Probe, FailProbe, FreeManaged, Forget, Enter
    <3> QED
      BY <3>1
  <2> QED
    BY <2>1, <2>2
<1>3. CASE ModuleStep
  BY <1>3 DEF ModuleStep, LoadModule, Register, Loaded, FailLoad, Unload, Unregister, DropRoot
<1>4. ASSUME NEW item, Obtain("cnc", item) PROVE phase'["cnc"] # "remove"
  BY <1>1, <1>4 DEF Obtain, Doing, Advance, Enter
<1>5. ASSUME NEW step, Undo("cnc", step) PROVE phase'["cnc"] # "remove"
  BY <1>1, <1>5 DEF Undo, Doing, Advance, Enter
<1> QED
  BY <1>2, <1>3, <1>4, <1>5

\* The core, the module, a probe and its ladder: a probe starts with nothing in the ring
\* and no run, and it starts the sampler when it cannot fail any more.
LEMMA ProbeStands ==
  ASSUME WholeInv, ~meddled, Manage \/ ProbeStep \/ AbortStep
  PROVE  Standing'
<1> DEFINE Step == \/ CoreStep("cnc") \/ ModuleStep
                   \/ \E item \in Items : Obtain("cnc", item)
                   \/ \E step \in {CncUnwind[i] : i \in 1..Len(CncUnwind)} : Undo("cnc", step)
<1>1. Step /\ UNCHANGED <<rail, callVars>>
  BY DEF Manage, ProbeStep, AbortStep, Items, hwVars
<1>2. DevInv /\ Standing /\ BringTyped /\ "cnc" \in Drivers
  BY DeviceAssumption DEF WholeInv, BringSafe
<1>3. BringStep
  BY <1>1 DEF BringStep
<1>4. \A n \in 1..19 : Up(n) => Up(n)'
  BY <1>1, <1>2, UpKept
<1>5. Past /\ ~NewData => Past'
  BY <1>2, <1>3, BringKeeps DEF DevInv, Kept
<1>15. NewData => loaded' = FALSE /\ st' # "running"
  <2>1. CASE ProbeStep
    <3>1. PICK item \in Items : Obtain("cnc", item) /\ (item = "data" => loaded' = FALSE /\ st' = "disabled")
      BY <2>1 DEF ProbeStep, Items
    <3>2. item # "data" => ~NewData
      BY <1>2, <3>1, NoNewData DEF DevInv
    <3> QED
      BY <3>1, <3>2
  <2>2. CASE Manage \/ AbortStep
    BY <1>2, <2>2, NoNewData DEF Manage, AbortStep, DevInv
  <2> QED
    BY <2>1, <2>2
<1>6. /\ loaded' => loaded
      /\ st' = "running" => st = "running"
      /\ emitting' => emitting
      /\ latch_locked => latch_locked'
  <2>1. CASE ProbeStep
    BY <2>1 DEF ProbeStep, lifeVars, Life!Fault
  <2>2. CASE AbortStep
    <3>1. UNCHANGED <<lifeVars, latch_locked>> /\ (loaded' => loaded)
      BY <2>2, Zenon DEF AbortStep
    <3> QED
      BY <3>1 DEF lifeVars
  <2>3. CASE Manage
    BY <2>3 DEF Manage, hwVars, lifeVars
  <2> QED
    BY <2>1, <2>2, <2>3
<1>7. timers' = timers \/ (timers' = timers \cup {"sampler"} /\ Obtain("cnc", "sampler"))
  BY DEF Manage, ProbeStep, AbortStep, hwVars
<1>8. Obtain("cnc", "sampler") => Up(10)
  <2> SUFFICES ASSUME Obtain("cnc", "sampler") PROVE Up(10)
    OBVIOUS
  <2>1. phase["cnc"] = "probe" /\ CncAcquire[at["cnc"]] = "sampler" /\ at["cnc"] \in 1..21
    BY <1>2, PlanFacts DEF Obtain, Doing, DevInv, BringInv
  <2>2. at["cnc"] = 21
    BY <2>1 DEF CncAcquire
  <2> QED
    BY <2>1, <2>2 DEF Up
<1>9. \A t \in Tasks : store'[t] # "none" => Has("group")'
  <2>1. \A t \in Tasks : store[t] # "none" => Has("group")
    BY <1>2 DEF Standing
  <2>2. CASE AbortStep
    <3>1. PICK step : Undo("cnc", step) /\ (step = "group" => StoresOut)
      BY <2>2 DEF AbortStep
    <3>2. held'["cnc"] = held["cnc"] \ Frees(step)
      BY <1>2, <3>1 DEF Undo, BringTyped
    <3> QED
      BY <1>1, <2>1, <3>1, <3>2, GroupFreed DEF Has, StoresOut, callVars
  <2>3. CASE Manage \/ ProbeStep
    <3>1. held'["cnc"] = held["cnc"] \/ held'["cnc"] = held["cnc"] \ Managed
          \/ held'["cnc"] = held["cnc"] \ {"drvdata"} \/ held["cnc"] \subseteq held'["cnc"]
      BY <1>2, <2>3 DEF Manage, ProbeStep, CoreStep, ModuleStep, Probe, FailProbe, StartRemove,
        FreeManaged, Forget, LoadModule, Register, Loaded, FailLoad, Unload, Unregister, DropRoot,
        Obtain, BringTyped
    <3> QED
      BY <1>1, <2>1, <3>1 DEF Has, Managed, callVars
  <2> QED
    BY <2>2, <2>3
<1>10. phase'["cnc"] = "remove" /\ at'["cnc"] > 13 => rail = FALSE /\ latch_locked
  BY <1>1, <1>2, NotYetRemoving DEF Standing
<1>11. /\ "ramp" \in timers' => Up(8)
       /\ "pump" \in timers' => Up(9)
       /\ "sampler" \in timers' => Up(10)
  BY <1>2, <1>7, <1>8 DEF Standing
<1>13. (emitting' => Up(13)) /\ (loaded' \/ st' = "running" => Past)
  BY <1>2, <1>6 DEF Standing
<1>14. phase'["cnc"] = "remove" /\ at'["cnc"] > 13 => rail' = FALSE /\ latch_locked'
  BY <1>1, <1>6, <1>10
<1>12. (Up(8) => Up(8)') /\ (Up(9) => Up(9)') /\ (Up(10) => Up(10)') /\ (Up(13) => Up(13)')
  BY <1>4
<1> QED
  BY <1>5, <1>9, <1>11, <1>12, <1>13, <1>14, <1>15, Zenon DEF Standing

\* Each step of the remove ends what it is for.
LEMMA RemoveStands ==
  ASSUME WholeInv, ~meddled, RemoveStep PROVE Standing'
<1>1. PICK step : /\ step \in {CncRemove[i] : i \in 1..Len(CncRemove)}
                  /\ TakeDown("cnc", step) /\ (step = "group" => StoresOut)
                  /\ timers' = CASE step = "ramp_timer" -> timers \ {"ramp"}
                                 [] step = "pump_timer" -> timers \ {"pump"}
                                 [] step = "sampler" -> timers \ {"sampler"}
                                 [] OTHER -> timers
                  /\ IF step = "rail"
                     THEN rail' = FALSE /\ latch_locked' = TRUE /\ emitting' = FALSE
                     ELSE UNCHANGED <<rail, latch_locked, emitting>>
                  /\ loaded' = (loaded /\ step # "ring")
  BY DEF RemoveStep
<1>2. UNCHANGED <<st, callVars>>
  BY DEF RemoveStep
<1>3. DevInv /\ Standing /\ BringTyped /\ "cnc" \in Drivers
  BY DeviceAssumption DEF WholeInv, BringSafe
<1>4. /\ CncRemove[8] = "ramp_timer" /\ CncRemove[9] = "pump_timer"
      /\ CncRemove[10] = "sampler" /\ CncRemove[13] = "rail"
  BY DEF CncRemove
<1>5. /\ Up(8) /\ step # "ramp_timer" => Up(8)'
      /\ Up(9) /\ step # "pump_timer" => Up(9)'
      /\ Up(10) /\ step # "sampler" => Up(10)'
      /\ Up(13) /\ step # "rail" => Up(13)'
  BY <1>1, <1>3, <1>4, UpTaken
<1>6. Past => Past'
  <2>1. BringStep /\ ~NewData
    BY <1>1, <1>3, NoNewData DEF BringStep, DevInv
  <2> QED
    BY <1>3, <2>1, BringKeeps DEF DevInv, Kept
<1>7. /\ "ramp" \in timers' => "ramp" \in timers /\ step # "ramp_timer"
      /\ "pump" \in timers' => "pump" \in timers /\ step # "pump_timer"
      /\ "sampler" \in timers' => "sampler" \in timers /\ step # "sampler"
  BY <1>1
<1>8. /\ emitting' => emitting /\ step # "rail"
      /\ loaded' => loaded
  BY <1>1, Zenon
<1>9. \A t \in Tasks : store'[t] # "none" => Has("group")'
  <2>1. \A t \in Tasks : store[t] # "none" => Has("group")
    BY <1>3 DEF Standing
  <2>2. held'["cnc"] = held["cnc"] \ Frees(step)
    BY <1>1, <1>3 DEF TakeDown, BringTyped
  <2> QED
    BY <1>1, <1>2, <2>1, <2>2, GroupFreed DEF Has, StoresOut, callVars
<1>10. phase'["cnc"] = "remove" /\ at'["cnc"] > 13 => rail' = FALSE /\ latch_locked'
  <2> SUFFICES ASSUME phase'["cnc"] = "remove", at'["cnc"] > 13
               PROVE  rail' = FALSE /\ latch_locked'
    OBVIOUS
  <2>1. phase["cnc"] = "remove" /\ step = CncRemove[at["cnc"]]
    BY <1>1, PlanFacts DEF TakeDown, Doing
  <2>2. at'["cnc"] = at["cnc"] + 1 /\ at["cnc"] \in Nat
    BY <1>1, <1>3 DEF TakeDown, Advance, Enter, BringTyped
  <2>3. CASE at["cnc"] = 13
    BY <1>1, <1>4, <2>1, <2>3
  <2>4. CASE at["cnc"] > 13
    <3>1. rail = FALSE /\ latch_locked
      BY <1>3, <2>1, <2>4 DEF Standing
    <3> QED
      BY <1>1, <3>1
  <2>5. at["cnc"] = 13 \/ at["cnc"] > 13
    BY <2>2
  <2> QED
    BY <2>3, <2>4, <2>5, Zenon
<1>11. /\ "ramp" \in timers' => Up(8)'
       /\ "pump" \in timers' => Up(9)'
       /\ "sampler" \in timers' => Up(10)'
  BY <1>3, <1>5, <1>7 DEF Standing
<1>12. emitting' => Up(13)'
  BY <1>3, <1>5, <1>8 DEF Standing
<1>13. loaded' \/ st' = "running" => Past'
  BY <1>2, <1>3, <1>6, <1>8 DEF Standing
<1> QED
  BY <1>9, <1>10, <1>11, <1>12, <1>13, Zenon DEF Standing

-----------------------------------------------------------------------------
(* The whole device.                                                       *)

\* Whatever moves, the variables keep their types.
LEMMA TypesKept ==
  ASSUME TypeOK, BringTypeOK', DevInv', [Next]_vars PROVE TypeOK'
<1> USE DEF TypeOK
<1>1. /\ fop' \in [Files -> {"closed", "open"} \cup Calls \cup Closing]
      /\ read' \in [Files -> [armed : BOOLEAN, running : BOOLEAN]]
      /\ own' \subseteq Files /\ meddled' \in BOOLEAN
  BY DEF DevInv, FileInv, SwitchInv
<1>2. CASE Manage \/ UNCHANGED vars
  <2>1. UNCHANGED <<lifeVars, hwVars, fileVars, callVars>>
    BY <1>2, Zenon DEF Manage, vars
  <2> QED
    BY <1>1, <2>1 DEF lifeVars, hwVars, fileVars, callVars
<1>13. CASE AbortStep
  <2>1. UNCHANGED <<lifeVars, latch_locked, timers, rail, fileVars, callVars>>
    BY <1>13, Zenon DEF AbortStep
  <2>2. loaded' \in BOOLEAN
    BY <1>13, SMT DEF AbortStep
  <2> QED
    BY <1>1, <2>1, <2>2 DEF lifeVars, fileVars, callVars
<1>3. CASE ProbeStep
  <2>1. /\ st' \in {st, "disabled", "fault"} /\ latched' \in BOOLEAN /\ emitting' \in BOOLEAN
        /\ latch_locked' \in BOOLEAN /\ loaded' \in BOOLEAN
        /\ in_use' \in BOOLEAN /\ armed' \in BOOLEAN /\ armed_by' \in {armed_by, Nobody}
        /\ timers' \subseteq {"ramp", "pump", "sampler"}
    BY <1>3 DEF ProbeStep, dataVars, lifeVars, Life!Fault
  <2>2. UNCHANGED <<rail, fop, read, tripped_by, store, runs, late>>
    BY <1>3 DEF ProbeStep, callVars
  <2> QED
    BY <1>1, <2>1, <2>2
<1>4. CASE RemoveStep
  <2>1. /\ rail' \in BOOLEAN /\ latch_locked' \in BOOLEAN /\ emitting' \in BOOLEAN
        /\ loaded' \in BOOLEAN /\ timers' \subseteq timers
    BY <1>4 DEF RemoveStep
  <2>2. UNCHANGED <<st, latched, in_use, armed, armed_by, tripped_by, store, runs, late>>
    BY <1>4 DEF RemoveStep, fileVars, callVars
  <2> QED
    BY <1>1, <2>1, <2>2
<1>5. ASSUME NEW t \in Tasks, EnterStore(t) PROVE TypeOK'
  BY <1>1, <1>5 DEF EnterStore, Stores, lifeVars, hwVars, fileVars
<1>6. ASSUME NEW t \in Tasks, Run(t) PROVE TypeOK'
  <2>1. store' \in [Tasks -> Stores]
    BY <1>6 DEF Run, LeaveStore, Stores
  <2>2. runs' \in 0..MaxRuns
    <3>1. runs' = runs \/ (runs < MaxRuns /\ runs' = runs + 1)
      BY <1>6 DEF Run
    <3>2. runs \in 0..MaxRuns
      OBVIOUS
    <3> HIDE DEF TypeOK
    <3> QED
      BY <3>1, <3>2, DeviceAssumption
  <2>3. st' \in {st, "running"} /\ latched' = latched /\ emitting' \in BOOLEAN
    BY <1>6 DEF Run, Life!Begin, lifeVars
  <2>4. late' \subseteq Files /\ rail' \in BOOLEAN /\ timers' \in {timers, timers \cup {"pump"}}
    BY <1>6 DEF Run
  <2>5. UNCHANGED <<latch_locked, loaded, in_use, armed, armed_by, tripped_by>>
    BY <1>6 DEF Run, fileVars
  <2> QED
    BY <1>1, <2>1, <2>2, <2>3, <2>4, <2>5
<1>7. ASSUME NEW t \in Tasks, Command(t) PROVE TypeOK'
  <2>1. store' \in [Tasks -> Stores]
    BY <1>7 DEF Command, LeaveStore, Stores
  <2>2. st' \in {st, "idle", "disabled"} /\ latched' \in BOOLEAN /\ emitting' \in BOOLEAN
    BY <1>7 DEF Command, Halt, Stop, Life!End, Life!Settle, lifeVars
  <2>3. /\ rail' \in BOOLEAN /\ latch_locked' \in BOOLEAN
        /\ timers' \in {timers, timers \cup {"ramp"}}
    BY <1>7 DEF Command
  <2>4. UNCHANGED <<loaded, in_use, armed, armed_by, tripped_by, runs, late>>
    BY <1>7 DEF Command, fileVars
  <2> QED
    BY <1>1, <2>1, <2>2, <2>3, <2>4
<1>8. CASE Play \/ EndOfData \/ RampTimer \/ PumpTimer \/ FaultLine
  <2>1. /\ st' \in {st, "idle", "underrun", "fault"}
        /\ latched' \in BOOLEAN /\ emitting' \in BOOLEAN /\ loaded' \in BOOLEAN
    BY <1>8 DEF Play, EndOfData, RampTimer, PumpTimer, FaultLine, Halt, Stop, hwVars, lifeVars,
                Life!Emit, Life!End, Life!Fault
  <2>2. timers' \subseteq {"ramp", "pump", "sampler"}
    BY <1>8 DEF Play, EndOfData, RampTimer, PumpTimer, FaultLine, hwVars
  <2>3. UNCHANGED <<rail, latch_locked, in_use, armed, armed_by, tripped_by, store, runs, late>>
    BY <1>8 DEF Play, EndOfData, RampTimer, PumpTimer, FaultLine, hwVars, fileVars, callVars
  <2> QED
    BY <1>1, <2>1, <2>2, <2>3
<1>9. ASSUME NEW f \in Files, Open(f) \/ EnterCall(f) \/ CloseDead(f) \/ CloseChain(f)
      PROVE  TypeOK'
  <2>1. UNCHANGED <<st, latched, emitting, latch_locked, timers, rail, loaded, tripped_by,
                    store, runs, late>>
    BY <1>9 DEF Open, EnterCall, CloseDead, CloseChain, lifeVars, hwVars, callVars
  <2>2. in_use' \in BOOLEAN /\ armed' \in BOOLEAN /\ armed_by' \in {armed_by, Nobody}
    BY <1>9 DEF Open, EnterCall, CloseDead, CloseChain
  <2> QED
    BY <1>1, <2>1, <2>2
<1>10. ASSUME NEW f \in Files, Call(f) PROVE TypeOK'
  <2>1. loaded' \in BOOLEAN /\ armed' \in BOOLEAN /\ armed_by' \in {armed_by, f, Nobody}
    <3>1. Has("ring") \in BOOLEAN /\ (loaded /\ st = "running") \in BOOLEAN /\ loaded \in BOOLEAN
      BY DEF Has
    <3>2. \/ loaded' = loaded \/ loaded' = Has("ring") \/ loaded' = (loaded /\ st = "running")
      BY <1>10, Zenon DEF Call
    <3>3. /\ armed' = armed \/ armed' = TRUE \/ armed' = FALSE
          /\ armed_by' = armed_by \/ armed_by' = f \/ armed_by' = Nobody
      BY <1>10, Zenon DEF Call
    <3> QED
      BY <3>1, <3>2, <3>3, Zenon
  <2>2. UNCHANGED <<st, latched, emitting, latch_locked, timers, rail, in_use, tripped_by,
                    store, runs, late>>
    BY <1>10 DEF Call, lifeVars, callVars
  <2> QED
    BY <1>1, <2>1, <2>2
<1>11. ASSUME NEW f \in Files, StartClose(f) \/ CloseLatch(f) \/ CloseClear(f) PROVE TypeOK'
  <2>1. UNCHANGED <<st, latched, emitting, timers, rail, loaded, armed, armed_by, store, runs>>
    BY <1>11 DEF StartClose, CloseLatch, CloseClear, lifeVars, hwVars, callVars
  <2>2. latch_locked' \in BOOLEAN /\ in_use' \in BOOLEAN /\ late' \subseteq Files
    BY <1>11 DEF StartClose, CloseLatch, CloseClear, hwVars, callVars
  <2>3. tripped_by' \in {tripped_by, Nobody}
    BY <1>11 DEF StartClose, CloseLatch, CloseClear
  <2> QED
    BY <1>1, <2>1, <2>2, <2>3
<1>12. ASSUME NEW f \in Files, CloseHalt(f) PROVE TypeOK'
  <2>1. st' \in {st, "idle"} /\ latched' = latched /\ emitting' \in BOOLEAN
    BY <1>12 DEF CloseHalt, Halt, Stop, Life!End, lifeVars
  <2>2. tripped_by' \in {tripped_by, f}
    BY <1>12 DEF CloseHalt
  <2>3. UNCHANGED <<latch_locked, timers, rail, loaded, in_use, armed, armed_by, store, runs, late>>
    BY <1>12 DEF CloseHalt, hwVars, callVars
  <2> QED
    BY <1>1, <2>1, <2>2, <2>3
<1> QED
  BY <1>2, <1>3, <1>4, <1>5, <1>6, <1>7, <1>8, <1>9, <1>10, <1>11, <1>12, <1>13 DEF Next

\* All that is known holds when the module is loaded, ...
LEMMA WholeInvInit == Init => WholeInv
<1> SUFFICES ASSUME Init PROVE WholeInv
  OBVIOUS
<1>1. DevInv
  BY DevInvInit
<1>2. BringSafe
  BY BringSafeInit DEF Init
<1>3. TypeOK
  <2>1. 0 \in 0..MaxRuns
    BY DeviceAssumption
  <2>2. BringTypeOK
    BY <1>2 DEF BringSafe
  <2>3. /\ fop \in [Files -> {"closed", "open"} \cup Calls \cup Closing]
        /\ read \in [Files -> [armed : BOOLEAN, running : BOOLEAN]]
        /\ own \subseteq Files /\ meddled \in BOOLEAN
    BY <1>1 DEF DevInv, FileInv, SwitchInv
  <2> QED
    BY <2>1, <2>2, <2>3 DEF Init, TypeOK, Stores
<1>4. Standing
  <2>1. phase["cnc"] = "unbound"
    BY DeviceAssumption DEF Init, BringInit
  <2> QED
    BY <2>1 DEF Init, Standing
<1> QED
  BY <1>1, <1>2, <1>3, <1>4 DEF WholeInv

\* ... and after every step.
LEMMA WholeInvStep == WholeInv /\ [Next]_vars => WholeInv'
<1> SUFFICES ASSUME WholeInv, [Next]_vars PROVE WholeInv'
  OBVIOUS
<1>1. DevInv'
  BY DevInvStep DEF WholeInv
<1>2. BringSafe'
  BY StepsOfBring, LadderKept DEF WholeInv
<1>3. TypeOK'
  BY <1>1, <1>2, TypesKept DEF WholeInv, BringSafe
<1>5. ~meddled' => ~meddled
  BY DEF Next, Manage, ProbeStep, AbortStep, RemoveStep, EnterStore, Run, Command, Play, EndOfData,
         RampTimer, PumpTimer, FaultLine, Open, EnterCall, Call, CloseDead, StartClose, CloseHalt,
         CloseChain, CloseLatch, CloseClear, Pass, vars, fileVars, dataVars
<1>4. ASSUME ~meddled PROVE Standing'
  <2> USE <1>4
  <2>1. CASE Manage \/ ProbeStep \/ AbortStep
    BY <2>1, ProbeStands
  <2>2. CASE RemoveStep
    BY <2>2, RemoveStands
  <2>3. ASSUME NEW t \in Tasks, EnterStore(t) \/ Run(t) \/ Command(t) PROVE Standing'
    BY <2>3, StoresStand
  <2>4. CASE Play \/ EndOfData \/ RampTimer \/ PumpTimer \/ FaultLine \/ UNCHANGED vars
    BY <2>4, EngineStands
  <2>5. ASSUME NEW f \in Files,
               \/ Open(f) \/ EnterCall(f) \/ Call(f) \/ CloseDead(f) \/ StartClose(f)
               \/ CloseHalt(f) \/ CloseChain(f) \/ CloseLatch(f) \/ CloseClear(f)
        PROVE  Standing'
    BY <2>5, FileStands
  <2> QED
    BY <2>1, <2>2, <2>3, <2>4, <2>5 DEF Next
<1> QED
  BY <1>1, <1>2, <1>3, <1>4, <1>5 DEF WholeInv

\* The driver comes and goes without a loss, and its data have one holder until a file left
\* over from an unbind gets at them, for any number of files, tasks, runs and probes (cnc_probe(), cnc_remove(), pulsedev_open()).
THEOREM DeviceInvariance == Spec => []Inv
<1>1. WholeInv => Inv
  BY SingleHolder, LaddersExact DEF WholeInv, Inv
<1> QED
  BY WholeInvInit, WholeInvStep, <1>1, PTL DEF Spec

\* No timer and no beam outlives the driver's data, and a remove lets go of the pins with
\* the rail off and the latch locked, whatever is under way (cnc_remove()).
THEOREM GoneIsSafe == Spec => []SafeWhenGone
<1>1. WholeInv => SafeWhenGone
  <2> SUFFICES ASSUME WholeInv, ~meddled
               PROVE  /\ ~Has("data") => timers = {} /\ emitting = FALSE
                      /\ phase["cnc"] = "remove" /\ ~Has("gpios")
                           => rail = FALSE /\ latch_locked /\ emitting = FALSE
    BY DEF SafeWhenGone
  <2>1. BringSafe /\ Standing /\ timers \subseteq {"ramp", "pump", "sampler"}
    BY DEF WholeInv, TypeOK
  <2>2. Up(8) \/ Up(9) \/ Up(10) \/ Up(13) => Has("data")
    <3>1. Up(8) \/ Up(9) \/ Up(10) \/ Up(13) => Up(19)
      BY UpLater
    <3> QED
      BY <2>1, <3>1, UpHasData
  <2>3. ~Has("data") => timers = {} /\ ~emitting
    BY <2>1, <2>2 DEF Standing
  <2>4. ASSUME phase["cnc"] = "remove", ~Has("gpios") PROVE at["cnc"] > 14
    <3>1. OnLadder("cnc") /\ at["cnc"] \in Nat
      BY <2>1, DeviceAssumption DEF BringSafe, BringTyped
    <3>2. Insists(CncRemove, at["cnc"], held["cnc"])
      BY <2>4, <3>1, PlanFacts DEF OnLadder, Undoes
    <3>3. CncRemove[14] = "gpios" /\ "gpios" \notin Checked /\ "gpios" \in Frees("gpios")
      BY DEF CncRemove, Checked, Frees, Acts
    <3>4. ~(14 \in at["cnc"]..Len(CncRemove))
      BY <2>4, <3>2, <3>3 DEF Insists, Has
    <3> QED
      BY <3>1, <3>4, TableFacts
  <2>5. phase["cnc"] = "remove" /\ ~Has("gpios") => rail = FALSE /\ latch_locked /\ ~emitting
    <3> SUFFICES ASSUME phase["cnc"] = "remove", ~Has("gpios")
                 PROVE  rail = FALSE /\ latch_locked /\ ~emitting
      OBVIOUS
    <3>1. at["cnc"] > 14 /\ at["cnc"] \in Nat
      BY <2>1, <2>4, DeviceAssumption DEF BringSafe, BringTyped
    <3>2. ~Up(13)
      BY <3>1 DEF Up
    <3>3. at["cnc"] > 13
      BY <3>1
    <3> QED
      BY <2>1, <3>2, <3>3 DEF Standing
  <2>6. emitting \in BOOLEAN
    BY DEF WholeInv, TypeOK
  <2> QED
    BY <2>3, <2>5, <2>6
<1> QED
  BY WholeInvInit, WholeInvStep, <1>1, PTL DEF Spec
=============================================================================
