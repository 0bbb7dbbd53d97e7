---------------------------- MODULE BringupProofs -----------------------------
(***************************************************************************)
(* Why the goto ladders of the four drivers are exact, wherever a probe    *)
(* fails and whenever a driver is removed.  First the tables of every      *)
(* driver are shown to satisfy TablesRight, which says what the order of   *)
(* the calls and the labels has to be; then every step of a driver whose   *)
(* tables do keeps what OnLadder says it holds; and the module, its        *)
(* directory and its registrations go with them.  DeviceProofs and         *)
(* SafingProofs take their steps for steps of this module.                 *)
(***************************************************************************)
EXTENDS Bringup, TLAPS

Phases == {"unbound", "probe", "bound", "unwind", "remove", "devres", "forget"}

-----------------------------------------------------------------------------
(* The tables.                                                             *)

\* What the core gives back by itself.
ByCore == Managed \cup {"drvdata"}

\* What a probe has obtained when it comes to step n.
Built(d, n) == {Acquire[d][j] : j \in 1..(n - 1)} \ Acts

\* From a step of a teardown on, all is given back that the core does not, nothing
\* that is not there, and what the steps before it give back is gone.
Covers(plan, from, items) ==
  \A x \in items \ ByCore : \E m \in from..Len(plan) : x \in Frees(plan[m])
Insists(plan, from, items) ==
  \A m \in from..Len(plan) : plan[m] \in Checked \/ Frees(plan[m]) \subseteq items
Gone(plan, from, items) ==
  \A m \in 1..(from - 1) : Frees(plan[m]) \cap items \subseteq ByCore
Undoes(plan, from, items) ==
  /\ "data" \in items
  /\ Covers(plan, from, items) /\ Insists(plan, from, items) /\ Gone(plan, from, items)

\* A teardown gives back twice only where it looks first, and what a user needs after
\* the user.
Orderly(d, plan) ==
  LET By(m, x) == \E k \in 1..m : x \in Frees(plan[k])
  IN  /\ Len(plan) \in Nat \ {0}
      /\ \A m \in 1..Len(plan) : "data" \notin Frees(plan[m])
      /\ \A m \in 1..Len(plan) : \A n \in (m + 1)..Len(plan) : \A x \in Frees(plan[n]) :
           /\ x \in Frees(plan[m]) => plan[n] \in Checked
           /\ x \in CallsIn /\ d \in {"cnc", "thermal"} /\ "gpios" \in Frees(plan[m]) => By(m, x)
           /\ x \in {"led1", "led2"} /\ "queue" \in Frees(plan[m]) => By(m, x)

\* Where the label of a failed step leads undoes the steps before it.
FailureUndone(d, k) ==
  IF OnFailure(d, Acquire[d][k]) = "none" THEN Built(d, k) \subseteq ByCore
  ELSE \A i \in 1..Len(Unwind[d]) :
         Unwind[d][i] = OnFailure(d, Acquire[d][k]) => Undoes(Unwind[d], i, Built(d, k))

\* A probe obtains what a user needs before the user, a failed step's label undoes
\* what there is by then, and a remove undoes it all.
TablesRight(d) ==
  /\ Len(Acquire[d]) \in Nat \ {0}
  /\ \A n \in 1..(Len(Acquire[d]) + 1) : UsersFirst(d, Built(d, n))
  /\ \A k \in 1..Len(Acquire[d]) : Acquire[d][k] \in CannotFail \/ FailureUndone(d, k)
  /\ Undoes(Remove[d], 1, Built(d, Len(Acquire[d]) + 1))
  /\ Orderly(d, Unwind[d]) /\ Orderly(d, Remove[d])

\* The pulse driver: users come after the data and the pins, every label undoes what is
\* there when a step fails, and the remove undoes it all (cnc_probe(), cnc_remove()).
LEMMA CncTables == TablesRight("cnc")
<1>1. /\ Len(CncAcquire) = 21 /\ Len(CncUnwind) = 13 /\ Len(CncRemove) = 19
      /\ Acquire["cnc"] = CncAcquire /\ Unwind["cnc"] = CncUnwind /\ Remove["cnc"] = CncRemove
  BY DEF Acquire, Unwind, Remove, CncAcquire, CncUnwind, CncRemove
<1>2. \A m \in 1..13 : Frees(CncUnwind[m]) =
        CASE m = 5 -> {"irq1", "irq2", "irq3"} [] m = 6 -> {}
          [] m = 7 -> {"channel", "callback"} [] OTHER -> {CncUnwind[m]}
  BY SMTT(30) DEF Frees, Acts, CncUnwind
<1>3. \A m \in 1..19 : Frees(CncRemove[m]) =
        CASE m \in {8, 9, 13, 18} -> {}
          [] m = 19 -> {"channel", "callback"} [] OTHER -> {CncRemove[m]}
  BY SMTT(30) DEF Frees, Acts, CncRemove
<1>4. \A n \in 1..22 : UsersFirst("cnc", Built("cnc", n))
  <2> SUFFICES ASSUME NEW n \in 1..22 PROVE UsersFirst("cnc", Built("cnc", n))
    OBVIOUS
  <2>1. ASSUME NEW j \in 1..21, j < n, CncAcquire[j] \in CallsIn
        PROVE  1 < n /\ 5 < n
    BY <2>1, SMTT(30) DEF CncAcquire, CallsIn
  <2>2. /\ 1 < n => "data" \in Built("cnc", n)
        /\ 5 < n => "gpios" \in Built("cnc", n)
    BY <1>1, SMTT(30) DEF Built, CncAcquire, Acts
  <2>3. \A x \in Built("cnc", n) : \E j \in 1..21 : j < n /\ x = CncAcquire[j]
    BY <1>1 DEF Built
  <2>4. {"led1", "led2"} \cap Built("cnc", n) = {}
    BY <2>3, SMTT(30) DEF CncAcquire
  <2> QED
    BY <2>1, <2>2, <2>3, <2>4 DEF UsersFirst
<1>5. ASSUME NEW k \in 1..21, CncAcquire[k] \notin CannotFail, OnFailure("cnc", CncAcquire[k]) = "none"
      PROVE  Built("cnc", k) \subseteq ByCore
  <2>1. \A j \in 1..(k - 1) : CncAcquire[j] \in ByCore \cup Acts
    BY <1>5, SMTT(30) DEF CncAcquire, CannotFail, OnFailure, CncOnFailure, CncLabels, ByCore, Managed, Acts
  <2> QED
    BY <1>1, <2>1 DEF Built
<1>6. ASSUME NEW k \in 1..21, CncAcquire[k] \notin CannotFail, OnFailure("cnc", CncAcquire[k]) # "none",
             NEW i \in 1..13, CncUnwind[i] = OnFailure("cnc", CncAcquire[k])
      PROVE  Undoes(CncUnwind, i, Built("cnc", k))
  <2>0. k > 1
    BY <1>6, SMTT(30) DEF CncAcquire, OnFailure, CncOnFailure, CncLabels
  <2>1. ASSUME NEW j \in 1..(k - 1)
        PROVE  \/ CncAcquire[j] \in Acts \cup ByCore
               \/ \E m \in i..13 : CncAcquire[j] \in Frees(CncUnwind[m])
    BY <1>2, <1>6, <2>1, SMTT(60)
    DEF CncUnwind, CncAcquire, Acts, ByCore, Managed, OnFailure, CncOnFailure, CncLabels, CannotFail
  <2>2. ASSUME NEW m \in i..13, CncUnwind[m] \notin Checked, NEW x \in Frees(CncUnwind[m])
        PROVE  x \notin Acts /\ \E j \in 1..(k - 1) : CncAcquire[j] = x
    BY <1>2, <1>6, <2>2, SMTT(60)
    DEF CncUnwind, CncAcquire, Acts, Checked, OnFailure, CncOnFailure, CncLabels, CannotFail
  <2>3. ASSUME NEW m \in 1..(i - 1), NEW j \in 1..(k - 1),
               CncAcquire[j] \in Frees(CncUnwind[m]), CncAcquire[j] \notin Acts
        PROVE  CncAcquire[j] \in ByCore
    BY <1>2, <1>6, <2>3, SMTT(60)
    DEF CncUnwind, CncAcquire, Acts, ByCore, Managed, OnFailure, CncOnFailure, CncLabels, CannotFail
  <2>4. "data" \in Built("cnc", k)
    BY <1>1, <2>0, SMTT(30) DEF CncAcquire, Acts, Built
  <2> QED
    BY <1>1, <2>1, <2>2, <2>3, <2>4 DEF Undoes, Covers, Insists, Gone, Built
<1>7. Undoes(CncRemove, 1, Built("cnc", 22))
  <2>1. ASSUME NEW j \in 1..21
        PROVE  \/ CncAcquire[j] \in Acts \cup ByCore
               \/ \E m \in 1..19 : CncAcquire[j] \in Frees(CncRemove[m])
    BY <1>3, <2>1, SMTT(60) DEF CncRemove, CncAcquire, Acts, ByCore, Managed
  <2>2. ASSUME NEW m \in 1..19, CncRemove[m] \notin Checked, NEW x \in Frees(CncRemove[m])
        PROVE  x \notin Acts /\ \E j \in 1..21 : CncAcquire[j] = x
    BY <1>3, <2>2, SMTT(60) DEF CncRemove, CncAcquire, Acts, Checked
  <2>3. CncAcquire[1] = "data" /\ "data" \notin Acts
    BY DEF CncAcquire, Acts
  <2>4. Built("cnc", 22) = {CncAcquire[j] : j \in 1..21} \ Acts
    BY <1>1 DEF Built
  <2>5. "data" \in Built("cnc", 22)
    BY <2>3, <2>4
  <2>6. Covers(CncRemove, 1, Built("cnc", 22))
    BY <1>1, <2>1, <2>4 DEF Covers
  <2>7. Insists(CncRemove, 1, Built("cnc", 22))
    <3> SUFFICES ASSUME NEW m \in 1..19, CncRemove[m] \notin Checked, NEW x \in Frees(CncRemove[m])
                 PROVE  x \in Built("cnc", 22)
      BY <1>1 DEF Insists
    <3> QED
      BY <2>2, <2>4
  <2>8. Gone(CncRemove, 1, Built("cnc", 22))
    BY DEF Gone
  <2> QED
    BY <2>5, <2>6, <2>7, <2>8 DEF Undoes
<1>8. Orderly("cnc", CncUnwind)
  BY <1>1, <1>2, SMTT(60) DEF Orderly, CncUnwind, CallsIn, Checked
<1>9. Orderly("cnc", CncRemove)
  BY <1>1, <1>3, SMTT(60) DEF Orderly, CncRemove, CallsIn, Checked
<1>10. Len(Acquire["cnc"]) = 21 /\ Len(Unwind["cnc"]) = 13
  BY <1>1, Zenon
<1>11. Len(Acquire["cnc"]) + 1 = 22 /\ Len(Acquire["cnc"]) \in Nat \ {0}
  BY <1>10
<1>12. \A k \in 1..21 : CncAcquire[k] \in CannotFail \/ FailureUndone("cnc", k)
  BY <1>1, <1>5, <1>6, <1>10, Zenon DEF FailureUndone
<1> QED
  BY <1>1, <1>4, <1>7, <1>8, <1>9, <1>10, <1>11, <1>12, Zenon DEF TablesRight

\* The same of the thermal driver ...
LEMMA ThermalTables == TablesRight("thermal")
<1>1. /\ Len(ThermalAcquire) = 10 /\ Len(ThermalUnwind) = 4 /\ Len(ThermalRemove) = 9
      /\ Acquire["thermal"] = ThermalAcquire /\ Unwind["thermal"] = ThermalUnwind /\ Remove["thermal"] = ThermalRemove
  BY DEF Acquire, Unwind, Remove, ThermalAcquire, ThermalUnwind, ThermalRemove
<1>2. \A m \in 1..4 : Frees(ThermalUnwind[m]) =
        IF m = 2 THEN {"tach1", "tach2"} ELSE {ThermalUnwind[m]}
  BY SMTT(30) DEF Frees, Acts, ThermalUnwind
<1>3. \A m \in 1..9 : Frees(ThermalRemove[m]) =
        CASE m \in {1, 2} -> {}
          [] m = 8 -> {"tach1", "tach2"} [] OTHER -> {ThermalRemove[m]}
  BY SMTT(30) DEF Frees, Acts, ThermalRemove
<1>4. \A n \in 1..11 : UsersFirst("thermal", Built("thermal", n))
  <2> SUFFICES ASSUME NEW n \in 1..11 PROVE UsersFirst("thermal", Built("thermal", n))
    OBVIOUS
  <2>1. ASSUME NEW j \in 1..10, j < n, ThermalAcquire[j] \in CallsIn
        PROVE  1 < n /\ 3 < n
    BY <2>1, SMTT(30) DEF ThermalAcquire, CallsIn
  <2>2. /\ 1 < n => "data" \in Built("thermal", n)
        /\ 3 < n => "gpios" \in Built("thermal", n)
    BY <1>1, SMTT(30) DEF Built, ThermalAcquire, Acts
  <2>3. \A x \in Built("thermal", n) : \E j \in 1..10 : j < n /\ x = ThermalAcquire[j]
    BY <1>1 DEF Built
  <2>4. {"led1", "led2"} \cap Built("thermal", n) = {}
    BY <2>3, SMTT(30) DEF ThermalAcquire
  <2> QED
    BY <2>1, <2>2, <2>3, <2>4 DEF UsersFirst
<1>5. ASSUME NEW k \in 1..10, ThermalAcquire[k] \notin CannotFail, OnFailure("thermal", ThermalAcquire[k]) = "none"
      PROVE  Built("thermal", k) \subseteq ByCore
  <2>1. \A j \in 1..(k - 1) : ThermalAcquire[j] \in ByCore \cup Acts
    BY <1>5, SMTT(30) DEF ThermalAcquire, CannotFail, OnFailure, ThermalOnFailure, ByCore, Managed, Acts
  <2> QED
    BY <1>1, <2>1 DEF Built
<1>6. ASSUME NEW k \in 1..10, ThermalAcquire[k] \notin CannotFail, OnFailure("thermal", ThermalAcquire[k]) # "none",
             NEW i \in 1..4, ThermalUnwind[i] = OnFailure("thermal", ThermalAcquire[k])
      PROVE  Undoes(ThermalUnwind, i, Built("thermal", k))
  <2>0. k > 1
    BY <1>6, SMTT(30) DEF ThermalAcquire, OnFailure, ThermalOnFailure
  <2>1. ASSUME NEW j \in 1..(k - 1)
        PROVE  \/ ThermalAcquire[j] \in Acts \cup ByCore
               \/ \E m \in i..4 : ThermalAcquire[j] \in Frees(ThermalUnwind[m])
    BY <1>2, <1>6, <2>1, SMTT(60)
    DEF ThermalUnwind, ThermalAcquire, Acts, ByCore, Managed, OnFailure, ThermalOnFailure, CannotFail
  <2>2. ASSUME NEW m \in i..4, ThermalUnwind[m] \notin Checked, NEW x \in Frees(ThermalUnwind[m])
        PROVE  x \notin Acts /\ \E j \in 1..(k - 1) : ThermalAcquire[j] = x
    BY <1>2, <1>6, <2>2, SMTT(60)
    DEF ThermalUnwind, ThermalAcquire, Acts, Checked, OnFailure, ThermalOnFailure, CannotFail
  <2>3. ASSUME NEW m \in 1..(i - 1), NEW j \in 1..(k - 1),
               ThermalAcquire[j] \in Frees(ThermalUnwind[m]), ThermalAcquire[j] \notin Acts
        PROVE  ThermalAcquire[j] \in ByCore
    BY <1>2, <1>6, <2>3, SMTT(60)
    DEF ThermalUnwind, ThermalAcquire, Acts, ByCore, Managed, OnFailure, ThermalOnFailure, CannotFail
  <2>4. "data" \in Built("thermal", k)
    BY <1>1, <2>0, SMTT(30) DEF ThermalAcquire, Acts, Built
  <2> QED
    BY <1>1, <2>1, <2>2, <2>3, <2>4 DEF Undoes, Covers, Insists, Gone, Built
<1>7. Undoes(ThermalRemove, 1, Built("thermal", 11))
  <2>1. ASSUME NEW j \in 1..10
        PROVE  \/ ThermalAcquire[j] \in Acts \cup ByCore
               \/ \E m \in 1..9 : ThermalAcquire[j] \in Frees(ThermalRemove[m])
    BY <1>3, <2>1, SMTT(60) DEF ThermalRemove, ThermalAcquire, Acts, ByCore, Managed
  <2>2. ASSUME NEW m \in 1..9, ThermalRemove[m] \notin Checked, NEW x \in Frees(ThermalRemove[m])
        PROVE  x \notin Acts /\ \E j \in 1..10 : ThermalAcquire[j] = x
    BY <1>3, <2>2, SMTT(60) DEF ThermalRemove, ThermalAcquire, Acts, Checked
  <2>3. ThermalAcquire[1] = "data" /\ "data" \notin Acts
    BY DEF ThermalAcquire, Acts
  <2> QED
    BY <1>1, <2>1, <2>2, <2>3 DEF Undoes, Covers, Insists, Gone, Built
<1>8. Orderly("thermal", ThermalUnwind)
  BY <1>1, <1>2, SMTT(60) DEF Orderly, ThermalUnwind, CallsIn, Checked
<1>9. Orderly("thermal", ThermalRemove)
  BY <1>1, <1>3, SMTT(60) DEF Orderly, ThermalRemove, CallsIn, Checked
<1>10. Len(Acquire["thermal"]) = 10 /\ Len(Unwind["thermal"]) = 4
  BY <1>1, Zenon
<1>11. Len(Acquire["thermal"]) + 1 = 11 /\ Len(Acquire["thermal"]) \in Nat \ {0}
  BY <1>10
<1>12. \A k \in 1..10 : ThermalAcquire[k] \in CannotFail \/ FailureUndone("thermal", k)
  BY <1>1, <1>5, <1>6, <1>10, Zenon DEF FailureUndone
<1> QED
  BY <1>1, <1>4, <1>7, <1>8, <1>9, <1>10, <1>11, <1>12, Zenon DEF TablesRight

\* ... of the PIC, whose LEDs also need their queue ...
LEMMA PicTables == TablesRight("pic")
<1>1. /\ Len(PicAcquire) = 11 /\ Len(PicUnwind) = 4 /\ Len(PicRemove) = 7
      /\ Acquire["pic"] = PicAcquire /\ Unwind["pic"] = PicUnwind /\ Remove["pic"] = PicRemove
  BY DEF Acquire, Unwind, Remove, PicAcquire, PicUnwind, PicRemove
<1>2. \A m \in 1..4 : Frees(PicUnwind[m]) =
        IF m = 3 THEN {"led1", "led2"} ELSE {PicUnwind[m]}
  BY SMTT(30) DEF Frees, Acts, PicUnwind
<1>3. \A m \in 1..7 : Frees(PicRemove[m]) =
        CASE m = 1 -> {}
          [] m = 6 -> {"led1", "led2"} [] OTHER -> {PicRemove[m]}
  BY SMTT(30) DEF Frees, Acts, PicRemove
<1>4. \A n \in 1..12 : UsersFirst("pic", Built("pic", n))
  <2> SUFFICES ASSUME NEW n \in 1..12 PROVE UsersFirst("pic", Built("pic", n))
    OBVIOUS
  <2>1. ASSUME NEW j \in 1..11, j < n, PicAcquire[j] \in CallsIn
        PROVE  1 < n /\ (PicAcquire[j] \in {"led1", "led2"} => 5 < n)
    BY <2>1, SMTT(30) DEF PicAcquire, CallsIn
  <2>2. /\ 1 < n => "data" \in Built("pic", n)
        /\ 5 < n => "queue" \in Built("pic", n)
    BY <1>1, SMTT(30) DEF Built, PicAcquire, Acts
  <2>3. \A x \in Built("pic", n) : \E j \in 1..11 : j < n /\ x = PicAcquire[j]
    BY <1>1 DEF Built
  <2>4. {"led1", "led2"} \subseteq CallsIn
    BY DEF CallsIn
  <2> QED
    BY <2>1, <2>2, <2>3, <2>4 DEF UsersFirst
<1>5. ASSUME NEW k \in 1..11, PicAcquire[k] \notin CannotFail, OnFailure("pic", PicAcquire[k]) = "none"
      PROVE  Built("pic", k) \subseteq ByCore
  <2>1. \A j \in 1..(k - 1) : PicAcquire[j] \in ByCore \cup Acts
    BY <1>5, SMTT(30) DEF PicAcquire, CannotFail, OnFailure, PicOnFailure, ByCore, Managed, Acts
  <2> QED
    BY <1>1, <2>1 DEF Built
<1>6. ASSUME NEW k \in 1..11, PicAcquire[k] \notin CannotFail, OnFailure("pic", PicAcquire[k]) # "none",
             NEW i \in 1..4, PicUnwind[i] = OnFailure("pic", PicAcquire[k])
      PROVE  Undoes(PicUnwind, i, Built("pic", k))
  <2>0. k > 1
    BY <1>6, SMTT(30) DEF PicAcquire, OnFailure, PicOnFailure
  <2>1. ASSUME NEW j \in 1..(k - 1)
        PROVE  \/ PicAcquire[j] \in Acts \cup ByCore
               \/ \E m \in i..4 : PicAcquire[j] \in Frees(PicUnwind[m])
    BY <1>2, <1>6, <2>1, SMTT(60)
    DEF PicUnwind, PicAcquire, Acts, ByCore, Managed, OnFailure, PicOnFailure, CannotFail
  <2>2. ASSUME NEW m \in i..4, PicUnwind[m] \notin Checked, NEW x \in Frees(PicUnwind[m])
        PROVE  x \notin Acts /\ \E j \in 1..(k - 1) : PicAcquire[j] = x
    BY <1>2, <1>6, <2>2, SMTT(60)
    DEF PicUnwind, PicAcquire, Acts, Checked, OnFailure, PicOnFailure, CannotFail
  <2>3. ASSUME NEW m \in 1..(i - 1), NEW j \in 1..(k - 1),
               PicAcquire[j] \in Frees(PicUnwind[m]), PicAcquire[j] \notin Acts
        PROVE  PicAcquire[j] \in ByCore
    BY <1>2, <1>6, <2>3, SMTT(60)
    DEF PicUnwind, PicAcquire, Acts, ByCore, Managed, OnFailure, PicOnFailure, CannotFail
  <2>4. "data" \in Built("pic", k)
    BY <1>1, <2>0, SMTT(30) DEF PicAcquire, Acts, Built
  <2> QED
    BY <1>1, <2>1, <2>2, <2>3, <2>4 DEF Undoes, Covers, Insists, Gone, Built
<1>7. Undoes(PicRemove, 1, Built("pic", 12))
  <2>1. ASSUME NEW j \in 1..11
        PROVE  \/ PicAcquire[j] \in Acts \cup ByCore
               \/ \E m \in 1..7 : PicAcquire[j] \in Frees(PicRemove[m])
    BY <1>3, <2>1, SMTT(60) DEF PicRemove, PicAcquire, Acts, ByCore, Managed
  <2>2. ASSUME NEW m \in 1..7, PicRemove[m] \notin Checked, NEW x \in Frees(PicRemove[m])
        PROVE  x \notin Acts /\ \E j \in 1..11 : PicAcquire[j] = x
    BY <1>3, <2>2, SMTT(60) DEF PicRemove, PicAcquire, Acts, Checked
  <2>3. PicAcquire[1] = "data" /\ "data" \notin Acts
    BY DEF PicAcquire, Acts
  <2> QED
    BY <1>1, <2>1, <2>2, <2>3 DEF Undoes, Covers, Insists, Gone, Built
<1>8. Orderly("pic", PicUnwind)
  BY <1>1, <1>2, SMTT(60) DEF Orderly, PicUnwind, CallsIn, Checked
<1>9. Orderly("pic", PicRemove)
  BY <1>1, <1>3, SMTT(60) DEF Orderly, PicRemove, CallsIn, Checked
<1>10. Len(Acquire["pic"]) = 11 /\ Len(Unwind["pic"]) = 4
  BY <1>1, Zenon
<1>11. Len(Acquire["pic"]) + 1 = 12 /\ Len(Acquire["pic"]) \in Nat \ {0}
  BY <1>10
<1>12. \A k \in 1..11 : PicAcquire[k] \in CannotFail \/ FailureUndone("pic", k)
  BY <1>1, <1>5, <1>6, <1>10, Zenon DEF FailureUndone
<1> QED
  BY <1>1, <1>4, <1>7, <1>8, <1>9, <1>10, <1>11, <1>12, Zenon DEF TablesRight

\* ... and of the head board, which only its attributes and its link make unwind.
LEMMA HeadTables == TablesRight("head")
<1>1. /\ Len(HeadAcquire) = 7 /\ Len(HeadUnwind) = 1 /\ Len(HeadRemove) = 6
      /\ Acquire["head"] = HeadAcquire /\ Unwind["head"] = HeadUnwind /\ Remove["head"] = HeadRemove
  BY DEF Acquire, Unwind, Remove, HeadAcquire, HeadUnwind, HeadRemove
<1>2. \A m \in 1..1 : Frees(HeadUnwind[m]) =
        {HeadUnwind[m]}
  BY SMTT(30) DEF Frees, Acts, HeadUnwind
<1>3. \A m \in 1..6 : Frees(HeadRemove[m]) =
        IF m \in {1, 2, 3} THEN {} ELSE {HeadRemove[m]}
  BY SMTT(30) DEF Frees, Acts, HeadRemove
<1>4. \A n \in 1..8 : UsersFirst("head", Built("head", n))
  <2> SUFFICES ASSUME NEW n \in 1..8 PROVE UsersFirst("head", Built("head", n))
    OBVIOUS
  <2>1. ASSUME NEW j \in 1..7, j < n, HeadAcquire[j] \in CallsIn
        PROVE  1 < n
    BY <2>1, SMTT(30) DEF HeadAcquire, CallsIn
  <2>2. /\ 1 < n => "data" \in Built("head", n)
    BY <1>1, SMTT(30) DEF Built, HeadAcquire, Acts
  <2>3. \A x \in Built("head", n) : \E j \in 1..7 : j < n /\ x = HeadAcquire[j]
    BY <1>1 DEF Built
  <2>4. {"led1", "led2"} \cap Built("head", n) = {}
    BY <2>3, SMTT(30) DEF HeadAcquire
  <2> QED
    BY <2>1, <2>2, <2>3, <2>4 DEF UsersFirst
<1>5. ASSUME NEW k \in 1..7, HeadAcquire[k] \notin CannotFail, OnFailure("head", HeadAcquire[k]) = "none"
      PROVE  Built("head", k) \subseteq ByCore
  <2>1. \A j \in 1..(k - 1) : HeadAcquire[j] \in ByCore \cup Acts
    BY <1>5, SMTT(30) DEF HeadAcquire, CannotFail, OnFailure, HeadOnFailure, ByCore, Managed, Acts
  <2> QED
    BY <1>1, <2>1 DEF Built
<1>6. ASSUME NEW k \in 1..7, HeadAcquire[k] \notin CannotFail, OnFailure("head", HeadAcquire[k]) # "none",
             NEW i \in 1..1, HeadUnwind[i] = OnFailure("head", HeadAcquire[k])
      PROVE  Undoes(HeadUnwind, i, Built("head", k))
  <2>0. k > 1
    BY <1>6, SMTT(30) DEF HeadAcquire, OnFailure, HeadOnFailure
  <2>1. ASSUME NEW j \in 1..(k - 1)
        PROVE  \/ HeadAcquire[j] \in Acts \cup ByCore
               \/ \E m \in i..1 : HeadAcquire[j] \in Frees(HeadUnwind[m])
    BY <1>2, <1>6, <2>1, SMTT(60)
    DEF HeadUnwind, HeadAcquire, Acts, ByCore, Managed, OnFailure, HeadOnFailure, CannotFail
  <2>2. ASSUME NEW m \in i..1, HeadUnwind[m] \notin Checked, NEW x \in Frees(HeadUnwind[m])
        PROVE  x \notin Acts /\ \E j \in 1..(k - 1) : HeadAcquire[j] = x
    BY <1>2, <1>6, <2>2, SMTT(60)
    DEF HeadUnwind, HeadAcquire, Acts, Checked, OnFailure, HeadOnFailure, CannotFail
  <2>3. ASSUME NEW m \in 1..(i - 1), NEW j \in 1..(k - 1),
               HeadAcquire[j] \in Frees(HeadUnwind[m]), HeadAcquire[j] \notin Acts
        PROVE  HeadAcquire[j] \in ByCore
    BY <1>2, <1>6, <2>3, SMTT(60)
    DEF HeadUnwind, HeadAcquire, Acts, ByCore, Managed, OnFailure, HeadOnFailure, CannotFail
  <2>4. "data" \in Built("head", k)
    BY <1>1, <2>0, SMTT(30) DEF HeadAcquire, Acts, Built
  <2> QED
    BY <1>1, <2>1, <2>2, <2>3, <2>4 DEF Undoes, Covers, Insists, Gone, Built
<1>7. Undoes(HeadRemove, 1, Built("head", 8))
  <2>1. ASSUME NEW j \in 1..7
        PROVE  \/ HeadAcquire[j] \in Acts \cup ByCore
               \/ \E m \in 1..6 : HeadAcquire[j] \in Frees(HeadRemove[m])
    BY <1>3, <2>1, SMTT(60) DEF HeadRemove, HeadAcquire, Acts, ByCore, Managed
  <2>2. ASSUME NEW m \in 1..6, HeadRemove[m] \notin Checked, NEW x \in Frees(HeadRemove[m])
        PROVE  x \notin Acts /\ \E j \in 1..7 : HeadAcquire[j] = x
    BY <1>3, <2>2, SMTT(60) DEF HeadRemove, HeadAcquire, Acts, Checked
  <2>3. HeadAcquire[1] = "data" /\ "data" \notin Acts
    BY DEF HeadAcquire, Acts
  <2> QED
    BY <1>1, <2>1, <2>2, <2>3 DEF Undoes, Covers, Insists, Gone, Built
<1>8. Orderly("head", HeadUnwind)
  BY <1>1, <1>2, SMTT(60) DEF Orderly, HeadUnwind, CallsIn, Checked
<1>9. Orderly("head", HeadRemove)
  BY <1>1, <1>3, SMTT(60) DEF Orderly, HeadRemove, CallsIn, Checked
<1>10. Len(Acquire["head"]) = 7 /\ Len(Unwind["head"]) = 1
  BY <1>1, Zenon
<1>11. Len(Acquire["head"]) + 1 = 8 /\ Len(Acquire["head"]) \in Nat \ {0}
  BY <1>10
<1>12. \A k \in 1..7 : HeadAcquire[k] \in CannotFail \/ FailureUndone("head", k)
  BY <1>1, <1>5, <1>6, <1>10, Zenon DEF FailureUndone
<1> QED
  BY <1>1, <1>4, <1>7, <1>8, <1>9, <1>10, <1>11, <1>12, Zenon DEF TablesRight

-----------------------------------------------------------------------------
(* A driver on its ladder.                                                 *)

Things == {Acquire[d][i] : d \in DriverNames, i \in Nat}

BringTyped ==
  /\ phase \in [Drivers -> Phases] /\ at \in [Drivers -> Nat]
  /\ held \in [Drivers -> SUBSET Things]

\* What a driver holds in each phase.
OnLadder(d) ==
  /\ phase[d] = "unbound" => held[d] = {}
  /\ phase[d] = "probe" =>
       at[d] \in 1..Len(Acquire[d]) /\ held[d] = Built(d, at[d])
  /\ phase[d] = "bound" => held[d] = Built(d, Len(Acquire[d]) + 1)
  /\ phase[d] \in {"unwind", "remove"} =>
       LET plan == Plan(d, phase[d])
       IN  at[d] \in 1..Len(plan) /\ Undoes(plan, at[d], held[d])
  /\ phase[d] = "devres" => held[d] \subseteq ByCore
  /\ phase[d] = "forget" => held[d] \subseteq {"drvdata"}
  /\ UsersFirst(d, held[d])

\* A step of a teardown leaves its driver on the ladder.
LEMMA TearDown ==
  ASSUME NEW d \in Drivers, NEW plan, NEW items, NEW from \in 1..Len(plan),
         Orderly(d, plan), Undoes(plan, from, items), UsersFirst(d, items)
  PROVE  LET rest == items \ Frees(plan[from])
         IN  /\ UsersFirst(d, rest)
             /\ from < Len(plan) => Undoes(plan, from + 1, rest)
             /\ from = Len(plan) => rest \subseteq ByCore
<1> DEFINE rest == items \ Frees(plan[from])
<1>0. Len(plan) \in Nat
  BY DEF Orderly
<1>1. "data" \in rest
  BY DEF Orderly, Undoes
<1>2. ASSUME NEW x \in rest, x \notin ByCore
      PROVE  \E m \in (from + 1)..Len(plan) : x \in Frees(plan[m])
  <2>1. PICK m \in from..Len(plan) : x \in Frees(plan[m])
    BY <1>2 DEF Undoes, Covers
  <2>2. m # from
    BY <1>2, <2>1
  <2> QED
    BY <2>1, <2>2
<1>3. \A m \in (from + 1)..Len(plan) : plan[m] \in Checked \/ Frees(plan[m]) \subseteq rest
  <2> SUFFICES ASSUME NEW m \in (from + 1)..Len(plan), plan[m] \notin Checked, NEW x \in Frees(plan[m])
               PROVE  x \in rest
    OBVIOUS
  <2>1. m \in from..Len(plan)
    OBVIOUS
  <2>2. x \in items
    BY <2>1 DEF Undoes, Insists
  <2>3. x \notin Frees(plan[from])
    BY DEF Orderly
  <2> QED
    BY <2>2, <2>3
<1>4. \A m \in 1..from : Frees(plan[m]) \cap rest \subseteq ByCore
  <2> SUFFICES ASSUME NEW m \in 1..from, NEW x \in Frees(plan[m]) \cap rest PROVE x \in ByCore
    OBVIOUS
  <2>1. CASE m = from
    BY <2>1
  <2>2. CASE m # from
    <3>1. m \in 1..(from - 1)
      BY <2>2
    <3> QED
      BY <3>1 DEF Undoes, Gone
  <2> QED
    BY <2>1, <2>2
<1>5. ASSUME NEW x \in rest, x \in CallsIn, NEW y \in Frees(plan[from]),
             \A n \in (from + 1)..Len(plan) : x \in Frees(plan[n]) => \E k \in 1..from : x \in Frees(plan[k])
      PROVE  FALSE
  <2>1. x \notin ByCore
    BY <1>5 DEF CallsIn, ByCore, Managed
  <2>2. PICK k \in 1..from : x \in Frees(plan[k])
    BY <1>2, <1>5, <2>1
  <2> QED
    BY <1>4, <1>5, <2>1, <2>2
<1>6. UsersFirst(d, rest)
  <2>1. d \in {"cnc", "thermal"} /\ rest \cap CallsIn # {} => "gpios" \in rest
    <3> SUFFICES ASSUME d \in {"cnc", "thermal"}, NEW x \in rest \cap CallsIn, "gpios" \notin rest
                 PROVE  FALSE
      OBVIOUS
    <3>1. "gpios" \in Frees(plan[from])
      BY DEF UsersFirst
    <3>2. \A n \in (from + 1)..Len(plan) : x \in Frees(plan[n]) => \E k \in 1..from : x \in Frees(plan[k])
      BY <3>1 DEF Orderly
    <3> QED
      BY <1>5, <3>1, <3>2
  <2>2. rest \cap {"led1", "led2"} # {} => "queue" \in rest
    <3> SUFFICES ASSUME NEW x \in rest \cap {"led1", "led2"}, "queue" \notin rest
                 PROVE  FALSE
      OBVIOUS
    <3>1. "queue" \in Frees(plan[from])
      BY DEF UsersFirst
    <3>2. \A n \in (from + 1)..Len(plan) : x \in Frees(plan[n]) => \E k \in 1..from : x \in Frees(plan[k])
      BY <3>1 DEF Orderly
    <3>3. x \in CallsIn
      BY DEF CallsIn
    <3> QED
      BY <1>5, <3>1, <3>2, <3>3
  <2> QED
    BY <1>1, <2>1, <2>2 DEF UsersFirst
<1>7. from < Len(plan) => Undoes(plan, from + 1, rest)
  <2>1. (from + 1) - 1 = from
    OBVIOUS
  <2> QED
    BY <1>1, <1>2, <1>3, <1>4, <2>1 DEF Undoes, Covers, Insists, Gone
<1>8. from = Len(plan) => rest \subseteq ByCore
  BY <1>2
<1> QED
  BY <1>6, <1>7, <1>8

Moves(d) ==
  \/ CoreStep(d) \/ \E item : Obtain(d, item)
  \/ \E step : Undo(d, step) \/ TakeDown(d, step)

\* A step of one driver is a step of no other, and of neither module nor directory.
LEMMA MoveFrame ==
  ASSUME BringTyped, NEW d \in Drivers, TablesRight(d), Moves(d)
  PROVE  /\ BringTyped' /\ UNCHANGED <<module, root, registered>>
         /\ \A e \in Drivers \ {d} : phase'[e] = phase[e] /\ at'[e] = at[e] /\ held'[e] = held[e]
<1> USE DEF BringTyped, Phases, Enter
<1>1. CASE CoreStep(d)
  <2>1. CASE Probe(d)
    BY <2>1 DEF Probe
  <2>2. CASE FailProbe(d)
    <3>1. PICK ph \in {"devres", "unwind"}, i \in Nat : Enter(d, ph, i)
      <4>1. CASE Enter(d, "devres", 1)
        BY <4>1
      <4>2. CASE \E i \in 1..Len(Unwind[d]) : Enter(d, "unwind", i)
        <5>1. 1..Len(Unwind[d]) \subseteq Nat
          BY DEF TablesRight, Orderly
        <5> QED
          BY <4>2, <5>1
      <4> QED
        BY <2>2, <4>1, <4>2 DEF FailProbe
    <3> QED
      BY <2>2, <3>1 DEF FailProbe
  <2>3. CASE StartRemove(d)
    BY <2>3 DEF StartRemove
  <2>4. CASE FreeManaged(d)
    BY <2>4 DEF FreeManaged
  <2>5. CASE Forget(d)
    BY <2>5 DEF Forget
  <2> QED
    BY <1>1, <2>1, <2>2, <2>3, <2>4, <2>5 DEF CoreStep
<1>2. ASSUME NEW after \in Phases, Advance(d, after)
      PROVE  /\ phase' \in [Drivers -> Phases] /\ at' \in [Drivers -> Nat]
             /\ \A e \in Drivers \ {d} : phase'[e] = phase[e] /\ at'[e] = at[e]
  BY <1>2 DEF Advance
<1>3. ASSUME NEW item, Obtain(d, item) PROVE item \in Things
  <2>1. item = Acquire[d][at[d]]
    BY <1>3 DEF Obtain, Doing, Plan
  <2>2. d \in DriverNames
    BY DriversAssumption
  <2> QED
    BY <2>1, <2>2 DEF Things
<1>4. CASE \E item : Obtain(d, item)
  <2>1. PICK item \in Things : Obtain(d, item)
    BY <1>3, <1>4
  <2>2. held' = [held EXCEPT ![d] = held[d] \cup ({item} \ Acts)] /\ Advance(d, "bound")
        /\ UNCHANGED <<module, root, registered>>
    BY <2>1 DEF Obtain
  <2> QED
    BY <1>2, <2>2
<1>5. CASE \E step : Undo(d, step) \/ TakeDown(d, step)
  BY <1>2, <1>5 DEF Undo, TakeDown
<1> QED
  BY <1>1, <1>4, <1>5 DEF Moves

\* Every step of a driver's life leaves it on its ladder.
LEMMA LadderStep ==
  ASSUME BringTyped, NEW d \in Drivers, TablesRight(d), OnLadder(d), Moves(d)
  PROVE  OnLadder(d)'
<1> DEFINE n == Len(Acquire[d])
<1>0. n \in Nat \ {0}
  BY DEF TablesRight
<1>t. UsersFirst(d, {})
  BY DEF UsersFirst, ByCore, Managed, CallsIn
<1>u. \A items \in SUBSET ByCore : UsersFirst(d, items)
  BY DEF UsersFirst, ByCore, Managed, CallsIn
<1>1. CASE Probe(d)
  <2>1. phase'[d] = "probe" /\ at'[d] = 1 /\ held'[d] = {}
    BY <1>1 DEF Probe, Enter, BringTyped, OnLadder
  <2>2. Built(d, 1) = {}
    BY DEF Built
  <2> QED
    BY <1>0, <1>t, <2>1, <2>2 DEF OnLadder
<1>2. CASE FailProbe(d)
  <2>1. /\ phase[d] = "probe" /\ held' = held
        /\ Acquire[d][at[d]] \notin CannotFail
        /\ IF OnFailure(d, Acquire[d][at[d]]) = "none" THEN Enter(d, "devres", 1)
           ELSE \E i \in 1..Len(Unwind[d]) :
                  Unwind[d][i] = OnFailure(d, Acquire[d][at[d]]) /\ Enter(d, "unwind", i)
    BY <1>2 DEF FailProbe, Doing, Plan
  <2>2. at[d] \in 1..n /\ held[d] = Built(d, at[d]) /\ UsersFirst(d, held[d])
    BY <2>1 DEF OnLadder
  <2>3. FailureUndone(d, at[d])
    BY <2>1, <2>2 DEF TablesRight
  <2>4. CASE OnFailure(d, Acquire[d][at[d]]) = "none"
    <3>1. phase'[d] = "devres" /\ held'[d] \subseteq ByCore
      BY <2>1, <2>2, <2>3, <2>4 DEF Enter, BringTyped, FailureUndone
    <3> QED
      BY <2>1, <2>2, <3>1 DEF OnLadder
  <2>5. CASE OnFailure(d, Acquire[d][at[d]]) # "none"
    <3>1. PICK i \in 1..Len(Unwind[d]) :
            Unwind[d][i] = OnFailure(d, Acquire[d][at[d]]) /\ Enter(d, "unwind", i)
      BY <2>1, <2>5
    <3>2. phase'[d] = "unwind" /\ at'[d] = i /\ Undoes(Unwind[d], i, held[d])
      BY <2>2, <2>3, <2>5, <3>1 DEF Enter, BringTyped, FailureUndone
    <3>3. Plan(d, "unwind") = Unwind[d]
      BY DEF Plan
    <3> QED
      BY <2>1, <2>2, <3>2, <3>3 DEF OnLadder, Plan
  <2> QED
    BY <2>4, <2>5
<1>3. CASE StartRemove(d)
  <2>1. phase'[d] = "remove" /\ at'[d] = 1 /\ held' = held /\ held[d] = Built(d, n + 1)
    BY <1>3 DEF StartRemove, Enter, BringTyped, OnLadder
  <2>2. Undoes(Remove[d], 1, held[d]) /\ 1 \in 1..Len(Remove[d])
    BY <2>1 DEF TablesRight, Orderly
  <2> QED
    BY <2>1, <2>2 DEF OnLadder, Plan
<1>4. CASE FreeManaged(d)
  <2>1. phase'[d] = "forget" /\ held'[d] = held[d] \ Managed /\ held[d] \subseteq ByCore
    BY <1>4 DEF FreeManaged, Enter, BringTyped, OnLadder
  <2>2. held'[d] \subseteq {"drvdata"}
    BY <2>1 DEF ByCore
  <2>3. UsersFirst(d, held'[d])
    BY <1>u, <2>1
  <2> QED
    BY <2>1, <2>2, <2>3 DEF OnLadder
<1>5. CASE Forget(d)
  <2>1. phase'[d] = "unbound" /\ held'[d] = {}
    BY <1>5 DEF Forget, Enter, BringTyped, OnLadder
  <2> QED
    BY <1>t, <2>1 DEF OnLadder
<1>6. ASSUME NEW item, Obtain(d, item) PROVE OnLadder(d)'
  <2>1. phase[d] = "probe" /\ item = Acquire[d][at[d]]
    BY <1>6 DEF Obtain, Doing, Plan
  <2>2. at[d] \in 1..n /\ held[d] = Built(d, at[d])
    BY <2>1 DEF OnLadder
  <2>3. held'[d] = Built(d, at[d] + 1)
    <3>1. held'[d] = held[d] \cup ({item} \ Acts)
      BY <1>6 DEF Obtain, BringTyped
    <3>2. 1..((at[d] + 1) - 1) = 1..(at[d] - 1) \cup {at[d]}
      BY <2>2
    <3> QED
      BY <2>1, <2>2, <3>1, <3>2 DEF Built
  <2>4. UsersFirst(d, held'[d])
    BY <1>0, <2>2, <2>3 DEF TablesRight
  <2>5. Len(Plan(d, phase[d])) = n
    BY <2>1 DEF Plan
  <2>6. CASE at[d] < n
    <3>1. phase'[d] = "probe" /\ at'[d] = at[d] + 1
      BY <1>6, <2>1, <2>5, <2>6 DEF Obtain, Advance, BringTyped
    <3> QED
      BY <2>2, <2>3, <2>4, <2>6, <3>1 DEF OnLadder
  <2>7. CASE at[d] = n
    <3>1. phase'[d] = "bound"
      BY <1>6, <2>5, <2>7 DEF Obtain, Advance, Enter, BringTyped
    <3> QED
      BY <2>3, <2>4, <2>7, <3>1 DEF OnLadder
  <2> QED
    BY <1>0, <2>2, <2>6, <2>7
<1>7. ASSUME NEW step, Undo(d, step) \/ TakeDown(d, step) PROVE OnLadder(d)'
  <2> DEFINE plan == Plan(d, phase[d])
  <2>1. /\ phase[d] \in {"unwind", "remove"} /\ step = plan[at[d]]
        /\ held'[d] = held[d] \ Frees(step) /\ Advance(d, "devres")
    BY <1>7 DEF Undo, TakeDown, Doing, BringTyped
  <2>2. plan \in {Unwind[d], Remove[d]}
    BY <2>1 DEF Plan
  <2>3. Orderly(d, plan)
    BY <2>2 DEF TablesRight
  <2>4. at[d] \in 1..Len(plan) /\ Undoes(plan, at[d], held[d]) /\ UsersFirst(d, held[d])
    BY <2>1 DEF OnLadder
  <2> HIDE DEF plan
  <2>5. /\ UsersFirst(d, held'[d])
        /\ at[d] < Len(plan) => Undoes(plan, at[d] + 1, held'[d])
        /\ at[d] = Len(plan) => held'[d] \subseteq ByCore
    <3> DEFINE rest == held[d] \ Frees(plan[at[d]])
    <3>1. /\ UsersFirst(d, rest)
          /\ at[d] < Len(plan) => Undoes(plan, at[d] + 1, rest)
          /\ at[d] = Len(plan) => rest \subseteq ByCore
      BY <2>3, <2>4, TearDown, Zenon
    <3> QED
      BY <2>1, <3>1, Zenon
  <2>6. Len(plan) \in Nat
    BY <2>3 DEF Orderly
  <2>7. CASE at[d] < Len(plan)
    <3>1. phase' = phase /\ at'[d] = at[d] + 1
      BY <2>1, <2>7 DEF Advance, BringTyped, plan
    <3>2. plan = Plan(d, phase'[d])
      BY <3>1 DEF plan
    <3>3. at'[d] \in 1..Len(plan) /\ Undoes(plan, at'[d], held'[d])
      BY <2>4, <2>5, <2>6, <2>7, <3>1
    <3> QED
      BY <2>1, <2>5, <3>1, <3>2, <3>3 DEF OnLadder, Plan
  <2>8. CASE at[d] = Len(plan)
    <3>1. phase'[d] = "devres"
      BY <2>1, <2>6, <2>8 DEF Advance, Enter, BringTyped, plan
    <3> QED
      BY <2>5, <2>8, <3>1 DEF OnLadder
  <2> QED
    BY <2>4, <2>6, <2>7, <2>8
<1> QED
  BY <1>1, <1>2, <1>3, <1>4, <1>5, <1>6, <1>7 DEF Moves, CoreStep
-----------------------------------------------------------------------------
(* All drivers, the module and its directory.                              *)

\* The four drivers have their places, ...
LEMMA Places ==
  Place("pic") = 1 /\ Place("head") = 2 /\ Place("thermal") = 3 /\ Place("cnc") = 4
  BY DEF Place, AllDrivers

\* ... so there is a first and a last one of any that are left.
LEMMA Ends ==
  ASSUME NEW S, S \subseteq DriverNames, S # {}
  PROVE  /\ \E d \in S : \A e \in S : Place(d) <= Place(e)
         /\ \E d \in S : \A e \in S : Place(e) <= Place(d)
<1>1. DriverNames = {"pic", "head", "thermal", "cnc"}
  BY DEF DriverNames, AllDrivers
<1>2. \A e \in S : e \in {"pic", "head", "thermal", "cnc"}
  BY <1>1
<1> QED
  BY <1>2, Places

\* The directory is there while the core knows a driver, and it knows those that move.
RootStands ==
  /\ root = (module # "out") /\ (module = "out" => registered = {})
  /\ \A d \in Drivers \ registered : phase[d] = "unbound"

BringSafe ==
  /\ BringTypeOK /\ BringTyped /\ RootStands
  /\ \A d \in Drivers : OnLadder(d)

\* Nothing is there before the module is loaded.
LEMMA BringSafeInit == BringInit => BringSafe
<1> SUFFICES ASSUME BringInit PROVE BringSafe
  OBVIOUS
<1>1. BringTyped
  BY DEF BringInit, BringTyped, Phases
<1>t. BringTypeOK
  <2>1. 0 \in 0..MaxTries
    BY DriversAssumption
  <2>2. tries \in [Drivers -> 0..MaxTries]
    BY <2>1 DEF BringInit
  <2>3. module = "out" /\ root \in BOOLEAN /\ registered \subseteq Drivers
    BY DEF BringInit
  <2> QED
    BY <1>1, <2>2, <2>3 DEF BringTypeOK, BringTyped, Phases
<1>2. \A d \in Drivers : OnLadder(d)
  BY DEF BringInit, OnLadder, UsersFirst
<1>3. RootStands
  BY DEF BringInit, RootStands
<1> QED
  BY <1>1, <1>t, <1>2, <1>3 DEF BringSafe

\* Loading and unloading move no driver.
LEMMA ModuleKeeps ==
  ASSUME BringSafe, ModuleStep \/ UNCHANGED bringVars PROVE BringSafe'
<1>1. UNCHANGED <<phase, at, held, tries>>
  BY DEF ModuleStep, LoadModule, Register, Loaded, FailLoad, Unload, Unregister, DropRoot,
         bringVars
<1>2. BringTyped' /\ \A d \in Drivers : OnLadder(d)'
  BY <1>1 DEF BringSafe, BringTyped, OnLadder
<1>3. registered' \subseteq Drivers
  <2>1. CASE Register
    <3>1. Drivers \ registered # {} /\ Drivers \ registered \subseteq DriverNames
      BY <2>1, DriversAssumption DEF Register, BringSafe, BringTypeOK
    <3>2. NextDriver \in Drivers \ registered
      BY <3>1, Ends DEF NextDriver
    <3> QED
      BY <2>1, <3>2 DEF Register, BringSafe, BringTypeOK
  <2>2. CASE ~Register
    BY <2>2 DEF ModuleStep, LoadModule, Loaded, FailLoad, Unload, Unregister, DropRoot,
                bringVars, BringSafe, BringTypeOK
  <2> QED
    BY <2>1, <2>2
<1>4. BringTypeOK'
  <2>1. module' \in {"out", "loading", "live", "failed", "unloading"} /\ root' \in BOOLEAN
    BY DEF ModuleStep, LoadModule, Register, Loaded, FailLoad, Unload, Unregister, DropRoot,
           bringVars, BringSafe, BringTypeOK
  <2> QED
    BY <1>1, <1>3, <2>1 DEF BringSafe, BringTypeOK
<1>5. RootStands'
  <2>1. root' = (module' # "out") /\ (module' = "out" => registered' = {})
    BY DEF ModuleStep, LoadModule, Register, Loaded, FailLoad, Unload, Unregister, DropRoot,
           bringVars, BringSafe, BringTypeOK, RootStands
  <2>2. \A d \in Drivers \ registered' : d \notin registered \/ phase[d] = "unbound"
    BY DEF ModuleStep, LoadModule, Register, Loaded, FailLoad, Unload, Unregister, DropRoot,
           bringVars
  <2> QED
    BY <1>1, <2>1, <2>2 DEF BringSafe, RootStands
<1> QED
  BY <1>2, <1>4, <1>5 DEF BringSafe

\* A driver that moves stays on its ladder, and moves only while it is registered.
LEMMA MoveKeeps ==
  ASSUME BringSafe, NEW d \in Drivers, TablesRight(d), Moves(d) PROVE BringSafe'
<1>1. /\ BringTyped' /\ UNCHANGED <<module, root, registered>>
      /\ \A e \in Drivers \ {d} : phase'[e] = phase[e] /\ at'[e] = at[e] /\ held'[e] = held[e]
  BY MoveFrame DEF BringSafe
<1>2. ASSUME NEW e \in Drivers PROVE OnLadder(e)'
  <2>1. CASE e = d
    BY <2>1, LadderStep DEF BringSafe
  <2>2. CASE e # d
    BY <1>1, <2>2 DEF BringSafe, OnLadder
  <2> QED
    BY <2>1, <2>2
<1>3. d \in registered
  <2>1. phase[d] # "unbound" \/ d \in registered
    BY DEF Moves, CoreStep, Probe, FailProbe, StartRemove, FreeManaged, Forget, Obtain, Undo,
           TakeDown, Doing
  <2> QED
    BY <2>1 DEF BringSafe, RootStands
<1>4. RootStands'
  BY <1>1, <1>3 DEF BringSafe, RootStands
<1>5. BringTypeOK'
  <2>1. tries' \in [Drivers -> 0..MaxTries]
    <3>1. \/ tries' = tries
          \/ tries[d] < MaxTries /\ tries' = [tries EXCEPT ![d] = @ + 1]
      BY DEF Moves, CoreStep, Probe, FailProbe, StartRemove, FreeManaged, Forget, Obtain, Undo,
             TakeDown
    <3> QED
      BY <3>1, DriversAssumption DEF BringSafe, BringTypeOK
  <2>2. phase' \in [Drivers -> Phases] /\ at' \in [Drivers -> Nat]
    BY <1>1 DEF BringTyped
  <2> QED
    BY <1>1, <2>1, <2>2 DEF BringSafe, BringTypeOK, Phases
<1> QED
  BY <1>1, <1>2, <1>4, <1>5 DEF BringSafe

\* What the ladders are for.
LEMMA LaddersExact == BringSafe => LadderExact
<1> SUFFICES ASSUME BringSafe, NEW d \in Drivers
             PROVE  /\ phase[d] = "unbound" => held[d] = {}
                    /\ phase[d] \in {"unwind", "remove"} =>
                          LET step == Plan(d, phase[d])[at[d]]
                          IN  step \in Checked \/ Frees(step) \subseteq held[d]
                    /\ UsersFirst(d, held[d])
                    /\ d \in registered \/ "link" \in held[d] => root
  BY DEF LadderExact, NothingLeft, ReleasesOnlyHeld, UsersGoFirst, RootOutlivesLinks
<1>1. OnLadder(d)
  BY DEF BringSafe
<1>2. ASSUME phase[d] \in {"unwind", "remove"}, NEW plan, plan = Plan(d, phase[d])
      PROVE  plan[at[d]] \in Checked \/ Frees(plan[at[d]]) \subseteq held[d]
  <2>1. at[d] \in 1..Len(plan) /\ Insists(plan, at[d], held[d])
    BY <1>1, <1>2 DEF OnLadder, Undoes
  <2>2. at[d] \in at[d]..Len(plan)
    BY <2>1 DEF BringSafe, BringTyped
  <2> QED
    BY <2>1, <2>2 DEF Insists
<1>3. d \in registered \/ "link" \in held[d] => root
  <2>1. "link" \in held[d] => d \in registered
    BY <1>1 DEF BringSafe, OnLadder, RootStands
  <2> QED
    BY <2>1 DEF BringSafe, RootStands
<1> QED
  BY <1>1, <1>2, <1>3 DEF OnLadder

\* The module and its drivers by themselves.
BringNext == ModuleStep \/ \E d \in Drivers : Moves(d)
BringSpec == BringInit /\ [][BringNext]_bringVars

\* Any of the module's four drivers, in any interleaving of their probes, failures,
\* deferrals, unbinds and of loading and unloading, give back what they obtained, all of
\* it, once, and after its users.
THEOREM Ladders == BringSpec => []LadderExact
<1>1. \A d \in Drivers : TablesRight(d)
  <2>1. DriverNames = {"pic", "head", "thermal", "cnc"}
    BY DEF DriverNames, AllDrivers
  <2> QED
    BY <2>1, DriversAssumption, CncTables, ThermalTables, PicTables, HeadTables
<1>2. BringSafe /\ [BringNext]_bringVars => BringSafe'
  BY <1>1, ModuleKeeps, MoveKeeps DEF BringNext
<1> QED
  BY <1>2, BringSafeInit, LaddersExact, PTL DEF BringSpec
=============================================================================
