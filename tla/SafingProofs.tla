---------------------------- MODULE SafingProofs ------------------------------
(***************************************************************************)
(* What the dead man's switch leaves behind, for every set of duty cycles  *)
(* and values and any number of trips: first for the heat sources, the     *)
(* head board and the PIC bus by themselves, then for their composition    *)
(* with the chain, the probes and the removes, each step of which is a     *)
(* step of the component or leaves it alone; and last for the drivers'     *)
(* lives, around which the chain's walks go on one step at a time, and for *)
(* the walks, which end.                                                   *)
(***************************************************************************)
EXTENDS Safing, BringupProofs, SequenceTheorems

-----------------------------------------------------------------------------
(* The heat sources.                                                       *)

\* Between the two steps of a make-safe the duty cycle stays at zero, so whatever
\* the timer does to the pin before it is cleared it does not do after.
HeatInv ==
  /\ ThermalTypeOK
  /\ \A c \in Callers : thermal_at[c] = "pins" =>
       (duty # 0 => "heater" \in thermal_excused[c])
  /\ HeatStaysOff

\* The inductive invariant of the heat sources holds when the module is loaded.
LEMMA HeatInvInit == ThermalInit => HeatInv
  BY DutyAssumption, SMT DEF ThermalInit, HeatInv, ThermalTypeOK, HeatStaysOff, Sources

\* Every store, timer callback and make-safe step of the heat sources keeps the
\* invariant.
LEMMA HeatInvStep == HeatInv /\ [ThermalNext]_thermalVars => HeatInv'
<1> SUFFICES ASSUME HeatInv, [ThermalNext]_thermalVars PROVE HeatInv'
  OBVIOUS
<1> USE DutyAssumption DEF HeatInv, ThermalTypeOK, HeatStaysOff, Sources
<1>1. CASE HeaterPwmStore
  BY <1>1, SMT DEF HeaterPwmStore, Excuse
<1>2. CASE TecStore
  BY <1>2, SMT DEF TecStore, Excuse
<1>3. CASE HeaterTimer
  <2>1. heater' \in 0..1
    BY <1>3, SMT DEF HeaterTimer, NewLevel
  <2>2. heater' = 1 => duty # 0
    BY <1>3, SMT DEF HeaterTimer, NewLevel
  <2> QED
    BY <1>3, <2>1, <2>2, SMT DEF HeaterTimer
<1>4. ASSUME NEW c \in Callers, SafeDuty(c) PROVE HeatInv'
  BY <1>4, SMT DEF SafeDuty
<1>5. ASSUME NEW c \in Callers, SafePins(c) PROVE HeatInv'
  BY <1>5, SMT DEF SafePins
<1>6. CASE UNCHANGED thermalVars
  BY <1>6, SMT DEF thermalVars
<1>7. CASE FreshDuty \/ ClaimPins
  BY <1>7, SMT DEF FreshDuty, ClaimPins
<1> QED
  BY <1>1, <1>2, <1>3, <1>4, <1>5, <1>6, <1>7 DEF ThermalNext

\* Once made safe, the heater and the TEC stay off until a store turns one on,
\* for every duty cycle and every phase of the software PWM (thermal_make_safe()).
THEOREM HeatSafety == ThermalSpec => []HeatStaysOff
<1>1. HeatInv => HeatStaysOff
  BY DEF HeatInv
<1> QED
  BY HeatInvInit, HeatInvStep, <1>1, PTL DEF ThermalSpec

-----------------------------------------------------------------------------
(* The head board.                                                         *)

\* The outputs a make-safe has already dealt with when it comes to write o.
Behind(o) == CASE o = "motor" -> {}
               [] o = "laser" -> {"motor"}
               [] o = "uv" -> {"motor", "laser"}
               [] o = "done" -> Outputs
               [] OTHER -> {}

HeadInv ==
  /\ HeadTypeOK
  /\ \A c \in Callers : Behind(head_at[c]) \cap energized \subseteq head_excused[c]

\* The invariant of the head board holds when the module is loaded.
LEMMA HeadInvInit == HeadInit => HeadInv
<1> SUFFICES ASSUME HeadInit PROVE HeadInv
  OBVIOUS
<1>1. HeadTypeOK
  <2>1. energized \subseteq Outputs
    BY DEF HeadInit
  <2>2. head_at \in [Callers -> {"idle", "motor", "laser", "uv", "done"}]
    BY DEF HeadInit
  <2>3. head_excused \in [Callers -> SUBSET Outputs]
    BY DEF HeadInit
  <2> QED
    BY <2>1, <2>2, <2>3 DEF HeadTypeOK
<1>2. energized = {}
  BY DEF HeadInit
<1> QED
  BY <1>1, <1>2 DEF HeadInv

\* Every store and every write of a make-safe keeps the invariant.
LEMMA HeadInvStep == HeadInv /\ [HeadNext]_headVars => HeadInv'
<1> SUFFICES ASSUME HeadInv, [HeadNext]_headVars PROVE HeadInv'
  OBVIOUS
<1> USE DEF HeadInv, HeadTypeOK, Outputs
<1>1. ASSUME NEW o \in Outputs, HeadStore(o) PROVE HeadInv'
  <2>1. HeadTypeOK'
    <3>1. energized' \subseteq Outputs /\ head_at' = head_at
      BY <1>1 DEF HeadStore
    <3>2. head_excused' \in [Callers -> SUBSET Outputs]
      <4>1. \A c \in Callers : head_excused[c] \cup {o} \in SUBSET Outputs
        BY HeadInv
      <4>2. CASE head_excused' = [c \in Callers |-> head_excused[c] \cup {o}]
        BY <4>1, <4>2
      <4> QED
        BY <1>1, <4>2 DEF HeadStore
    <3> QED
      BY <3>1, <3>2
  <2>2. ASSUME NEW c \in Callers
        PROVE  (Behind(head_at[c]) \cap energized \subseteq head_excused[c])'
    <3>1. head_at' = head_at
      BY <1>1 DEF HeadStore
    <3>2. \/ energized' = energized \cup {o} /\ head_excused'[c] = head_excused[c] \cup {o}
          \/ energized' = energized \ {o} /\ head_excused' = head_excused
      BY <1>1 DEF HeadStore
    <3> HIDE DEF Outputs
    <3> QED
      BY <3>1, <3>2, Behind(head_at[c]) \cap energized \subseteq head_excused[c]
  <2> QED
    BY <2>1, <2>2
<1>2. ASSUME NEW c \in Callers, SafeStart(c) PROVE HeadInv'
  BY <1>2, SMT DEF SafeStart, Behind
<1>3. ASSUME NEW c \in Callers, NEW o \in Outputs, SafeWrite(c, o) PROVE HeadInv'
  <2>1. /\ Following[o] \in {"laser", "uv", "done"}
        /\ Behind(Following[o]) = Behind(o) \cup {o}
    BY SMT DEF Following, Behind
  <2>2. HeadTypeOK'
    <3>1. energized' \subseteq Outputs
      BY <1>3 DEF SafeWrite
    <3>2. head_at' \in [Callers -> {"idle", "motor", "laser", "uv", "done"}]
      BY <1>3, <2>1 DEF SafeWrite
    <3>3. head_excused' \in [Callers -> SUBSET Outputs]
      <4>1. head_excused[c] \cup (energized \cap {o}) \in SUBSET Outputs
        BY HeadInv
      <4> QED
        BY <1>3, <4>1 DEF SafeWrite
    <3> QED
      BY <3>1, <3>2, <3>3
  <2>3. ASSUME NEW d \in Callers, d # c
        PROVE  (Behind(head_at[d]) \cap energized \subseteq head_excused[d])'
    BY <1>3, <2>3, SMT DEF SafeWrite
  <2>4. (Behind(head_at[c]) \cap energized \subseteq head_excused[c])'
    BY <1>3, <2>1, SMT DEF SafeWrite
  <2> QED
    BY <2>2, <2>3, <2>4
<1>4. CASE UNCHANGED headVars
  BY <1>4, SMT DEF headVars
<1> QED
  BY <1>1, <1>2, <1>3, <1>4 DEF HeadNext

\* One failing transfer keeps no other output energised: after a make-safe an output
\* is on only if its own write failed or a store turned it on (head_make_safe()).
THEOREM HeadSafety == HeadSpec => []HeadStaysOff
<1>1. HeadInv => HeadStaysOff
  BY SMT DEF HeadInv, HeadTypeOK, HeadStaysOff, Behind
<1> QED
  BY HeadInvInit, HeadInvStep, <1>1, PTL DEF HeadSpec

-----------------------------------------------------------------------------
(* The PIC bus.                                                            *)

\* What a request may hold: a register value or nothing to write.
Requests == [dac : Nat \cup {Keep}, led : Nat \cup {Keep}, verify : BOOLEAN]

BusTyped == PicTypeOK /\ asked \in [Users -> Requests]

\* Whoever is inside an exchange holds the mutex, so the transmit buffer has his
\* commands, and what he has read back is what the registers hold.
Owns(u) ==
  /\ stage[u] = "idle" <=> asked[u] = Nothing
  /\ asked[u] # Nothing => lock = u
  /\ stage[u] = "filled" =>
       \A s \in 1..Length(asked[u]) : txbuf[s] = Command(asked[u], s)
  /\ stage[u] = "sent" /\ asked[u].verify =>
       \A i \in 1..Count(asked[u]) :
         rxbuf[Count(asked[u]) + i] = outputs[Nth(asked[u], i)]

LockGuards == \A u \in Users : Owns(u)

BusInv == BusTyped /\ LockGuards /\ PicStaysZero

\* Every request that is handed in is one.
LEMMA RequestsTyped ==
  /\ Exchanges \subseteq Requests /\ Nothing \in Requests /\ Zeros \in Requests
  /\ \A v \in Values : InitialValues(v) \in Requests
  /\ \A v \in Nat : [Nothing EXCEPT !.led = v] \in Requests
  /\ Requests \subseteq [dac : Int, led : Int, verify : BOOLEAN]
<1>1. Values \subseteq Nat
  BY PicAssumption
<1>2. Exchanges \subseteq Requests
  BY <1>1 DEF Exchanges, Requests
<1>3. Nothing \in Requests /\ Zeros \in Requests
  BY DEF Nothing, Zeros, Requests
<1>4. \A v \in Values : InitialValues(v) \in Requests
  BY <1>1 DEF InitialValues, Requests
<1>5. \A v \in Nat : [Nothing EXCEPT !.led = v] \in Requests
  BY DEF Nothing, Requests
<1>6. Requests \subseteq [dac : Int, led : Int, verify : BOOLEAN]
  BY DEF Requests, Keep
<1> QED
  BY <1>2, <1>3, <1>4, <1>5, <1>6

\* What the requests write, said once so that the steps need not look into the records.
LEMMA RequestFacts ==
  /\ Writes(Zeros) = Registers /\ Zeros # Nothing
  /\ \A r \in Registers : Zeros[r] = 0
  /\ Zeros.verify = TRUE
  /\ \A v \in Values : InitialValues(v) # Nothing
  /\ \A v \in Nat : /\ [Nothing EXCEPT !.led = v] # Nothing
                     /\ [Nothing EXCEPT !.led = v].led = v
<1>1. Zeros["dac"] = 0 /\ Zeros["led"] = 0 /\ 0 # Keep
  BY DEF Zeros, Keep
<1>2. Writes(Zeros) = Registers
  BY <1>1 DEF Writes, Registers
<1>3. Zeros # Nothing
  BY <1>1 DEF Nothing
<1>4. \A r \in Registers : Zeros[r] = 0
  BY <1>1 DEF Registers
<1>5. Zeros.verify = TRUE
  BY DEF Zeros
<1>6. \A v \in Values : InitialValues(v) # Nothing
  <2>1. ASSUME NEW v \in Values PROVE InitialValues(v).verify # Nothing.verify
    BY DEF InitialValues, Nothing
  <2> QED
    BY <2>1
<1>7. \A v \in Nat : [Nothing EXCEPT !.led = v].led = v /\ v # Keep
  BY DEF Nothing, Keep
<1>8. Nothing.led = Keep
  BY DEF Nothing
<1> QED
  BY <1>2, <1>3, <1>4, <1>5, <1>6, <1>7, <1>8

\* The commands of a request: the writes it names, and to verify them a read of each.
LEMMA CommandFacts ==
  ASSUME NEW x \in Requests
  PROVE  /\ Count(x) \in 0..2
         /\ Length(x) = IF x.verify THEN 2 * Count(x) ELSE Count(x)
         /\ 1..Length(x) \subseteq Slots
         /\ \A r \in Writes(x) : \E i \in 1..Count(x) : Nth(x, i) = r
         /\ \A i \in 1..Count(x) : Nth(x, i) \in Writes(x)
<1>1. x.dac \in Int /\ x.led \in Int /\ x["dac"] = x.dac /\ x["led"] = x.led
  BY DEF Requests, Keep
<1>2. Count(x) \in 0..2
  BY DEF Count
<1>3. 1..Length(x) \subseteq Slots
  BY <1>2, SMT DEF Length, Slots
<1>4. \A r \in Writes(x) : \E i \in 1..Count(x) : Nth(x, i) = r
  <2>1. ASSUME "dac" \in Writes(x) PROVE Nth(x, 1) = "dac" /\ 1 \in 1..Count(x)
    BY <1>1, <2>1 DEF Writes, Nth, Count
  <2>2. ASSUME "led" \in Writes(x) PROVE Nth(x, Count(x)) = "led" /\ Count(x) \in 1..Count(x)
    BY <1>1, <2>2 DEF Writes, Nth, Count
  <2> QED
    BY <2>1, <2>2 DEF Writes, Registers
<1>5. \A i \in 1..Count(x) : Nth(x, i) \in Writes(x)
  BY <1>1 DEF Writes, Nth, Count, Registers
<1> QED
  BY <1>2, <1>3, <1>4, <1>5 DEF Length

\* A command of a request is well formed; what it writes is what the request says, and
\* the second half of a verified one reads the registers of the first.
LEMMA CommandShape ==
  ASSUME NEW x \in Requests, NEW s \in 1..Length(x)
  PROVE  /\ Command(x, s) \in [reg : Registers, value : Int]
         /\ Command(x, s).value # Keep =>
              /\ Command(x, s).reg \in Writes(x)
              /\ Command(x, s).value = x[Command(x, s).reg]
         /\ s > Count(x) => Command(x, s) = [reg |-> Nth(x, s - Count(x)), value |-> Keep]
<1>0. /\ Count(x) \in 0..2 /\ Keep \in Int
      /\ Length(x) = IF x.verify THEN 2 * Count(x) ELSE Count(x)
      /\ \A i \in 1..Count(x) : Nth(x, i) \in Writes(x)
      /\ Writes(x) \subseteq Registers
      /\ s \in Int
  BY CommandFacts DEF Writes, Keep
<1>1. CASE s <= Count(x)
  <2>1. Command(x, s) = [reg |-> Nth(x, s), value |-> x[Nth(x, s)]]
    BY <1>1 DEF Command
  <2>2. s \in 1..Count(x)
    BY <1>0, <1>1
  <2>3. \A r \in Registers : x[r] \in Int
    BY DEF Requests, Registers, Keep
  <2> QED
    BY <1>0, <1>1, <2>1, <2>2, <2>3
<1>2. CASE ~(s <= Count(x))
  <2>1. Command(x, s) = [reg |-> Nth(x, s - Count(x)), value |-> Keep]
    BY <1>2 DEF Command
  <2>2. s - Count(x) \in 1..Count(x)
    BY <1>0, <1>2
  <2> QED
    BY <1>0, <2>1, <2>2
<1> QED
  BY <1>1, <1>2

\* Nobody else is inside the exchange of the user who holds the mutex.
LEMMA OneInside ==
  ASSUME LockGuards, NEW u \in Users, asked[u] # Nothing, NEW w \in Users \ {u}
  PROVE  asked[w] = Nothing /\ stage[w] = "idle"
  BY DEF LockGuards, Owns

\* Filling the buffer for a request takes the free mutex.
LEMMA FillEffect ==
  ASSUME BusTyped, LockGuards, NEW u \in Users, NEW x \in Requests, x # Nothing,
         Fill(u, x), UNCHANGED outputs
  PROVE  /\ lock' \in Users \cup {Free} /\ rxbuf' = rxbuf
         /\ txbuf' \in [Slots -> [reg : Registers, value : Int]]
         /\ asked' \in [Users -> Requests]
         /\ stage' \in [Users -> {"idle", "filled", "sent", "failed"}]
         /\ asked[u] = Nothing /\ asked'[u] = x /\ stage'[u] = "filled"
         /\ \A w \in Users \ {u} : asked'[w] = asked[w] /\ stage'[w] = stage[w]
         /\ LockGuards'
<1>1. /\ asked' = [asked EXCEPT ![u] = x] /\ stage' = [stage EXCEPT ![u] = "filled"]
      /\ lock' = u /\ lock = Free /\ rxbuf' = rxbuf /\ asked[u] = Nothing
      /\ txbuf' = [s \in Slots |-> IF s <= Length(x) THEN Command(x, s) ELSE txbuf[s]]
  BY DEF Fill
<1>2. Count(x) \in 0..2 /\ Length(x) \in Int /\ 1..Length(x) \subseteq Slots
  BY CommandFacts
<1>3. /\ asked \in [Users -> Requests]
      /\ stage \in [Users -> {"idle", "filled", "sent", "failed"}]
      /\ txbuf \in [Slots -> [reg : Registers, value : Int]]
  BY DEF BusTyped, PicTypeOK
<1>4. txbuf' \in [Slots -> [reg : Registers, value : Int]]
  <2>1. ASSUME NEW s \in Slots
        PROVE  (IF s <= Length(x) THEN Command(x, s) ELSE txbuf[s])
                 \in [reg : Registers, value : Int]
    <3>1. s <= Length(x) => s \in 1..Length(x)
      BY <1>2 DEF Slots
    <3> QED
      BY <1>3, <3>1, CommandShape
  <2> QED
    BY <1>1, <2>1
<1>5. \A s \in 1..Length(x) : txbuf'[s] = Command(x, s)
  BY <1>1, <1>2
<1>6. /\ asked' \in [Users -> Requests]
      /\ stage' \in [Users -> {"idle", "filled", "sent", "failed"}]
      /\ asked'[u] = x /\ stage'[u] = "filled"
      /\ \A w \in Users \ {u} : asked'[w] = asked[w] /\ stage'[w] = stage[w]
  BY <1>1, <1>3
<1>7. Owns(u)'
  BY <1>1, <1>5, <1>6, Zenon DEF Owns
<1>8. ASSUME NEW w \in Users \ {u} PROVE Owns(w)'
  <2>1. Free \notin Users
    BY PicAssumption DEF Users, Free
  <2>2. asked[w] = Nothing /\ stage[w] = "idle"
    BY <1>1, <2>1 DEF LockGuards, Owns
  <2>3. asked'[w] = Nothing /\ stage'[w] = "idle"
    BY <1>6, <2>2
  <2> QED
    BY <2>3, Zenon DEF Owns
<1> QED
  BY <1>1, <1>4, <1>6, <1>7, <1>8 DEF LockGuards

\* A transfer changes only registers the request writes, to what it says, and fills
\* the slots of the reads with what it leaves in them.
LEMMA TransferEffect ==
  ASSUME BusTyped, LockGuards, NEW u \in Users, Transfer(u)
  PROVE  /\ \A r \in Registers \ Writes(asked[u]) : outputs'[r] = outputs[r]
         /\ \A r \in Writes(asked[u]) : outputs'[r] \in {outputs[r], asked[u][r]}
         /\ outputs' \in [Registers -> Values \cup {0}] /\ rxbuf' \in [Slots -> Int]
         /\ stage' \in [Users -> {"idle", "filled", "sent", "failed"}]
         /\ asked[u] # Nothing /\ stage'[u] \in {"sent", "failed"}
         /\ \A w \in Users \ {u} : asked[w] = Nothing /\ stage'[w] = stage[w]
         /\ LockGuards'
<1> DEFINE x == asked[u]
<1>0. /\ asked \in [Users -> Requests] /\ x \in Requests
      /\ stage \in [Users -> {"idle", "filled", "sent", "failed"}]
      /\ rxbuf \in [Slots -> Int] /\ txbuf \in [Slots -> [reg : Registers, value : Int]]
  BY DEF BusTyped, PicTypeOK
<1>1. x # Nothing /\ lock = u /\ \A s \in 1..Length(x) : txbuf[s] = Command(x, s)
  BY DEF Transfer, LockGuards, Owns
<1>2. /\ outputs' \in [Registers -> Values \cup {0}]
      /\ \A r \in Registers : outputs'[r] # outputs[r] =>
           \E s \in 1..Length(x) : txbuf[s] = [reg |-> r, value |-> outputs'[r]]
  BY DEF Transfer, Landing
<1>k. \A v \in Values \cup {0} : v \in Int /\ v # Keep
  BY PicAssumption DEF Keep
<1>c. /\ Count(x) \in 0..2 /\ Length(x) \in Int /\ 1..Length(x) \subseteq Slots
      /\ Length(x) = IF x.verify THEN 2 * Count(x) ELSE Count(x)
      /\ \A i \in 1..Count(x) : Nth(x, i) \in Writes(x)
      /\ Writes(x) \subseteq Registers
  BY <1>0, CommandFacts DEF Writes
<1>3. ASSUME NEW r \in Registers, outputs'[r] # outputs[r]
      PROVE  r \in Writes(x) /\ outputs'[r] = x[r]
  <2>1. PICK s \in 1..Length(x) : Command(x, s) = [reg |-> r, value |-> outputs'[r]]
    BY <1>1, <1>2, <1>3
  <2>2. Command(x, s).reg = r /\ Command(x, s).value = outputs'[r] /\ outputs'[r] # Keep
    BY <1>2, <1>k, <2>1
  <2> QED
    BY <1>0, <2>2, CommandShape
<1>4. \/ stage' = [stage EXCEPT ![u] = "sent"]
         /\ rxbuf' = [s \in Slots |-> IF s <= Length(x) /\ txbuf[s].value = Keep
                                      THEN outputs'[txbuf[s].reg] ELSE rxbuf[s]]
      \/ stage' = [stage EXCEPT ![u] = "failed"] /\ rxbuf' = rxbuf
  BY DEF Transfer
<1>5. rxbuf' \in [Slots -> Int]
  <2>1. ASSUME NEW s \in Slots
        PROVE  (IF s <= Length(x) /\ txbuf[s].value = Keep
                THEN outputs'[txbuf[s].reg] ELSE rxbuf[s]) \in Int
    BY <1>0, <1>2, <1>k
  <2> HIDE DEF x
  <2> QED
    BY <1>0, <1>4, <2>1
<1>6. /\ stage' \in [Users -> {"idle", "filled", "sent", "failed"}]
      /\ stage'[u] \in {"sent", "failed"}
      /\ \A w \in Users \ {u} : stage'[w] = stage[w]
  BY <1>0, <1>4
<1>7. \A w \in Users \ {u} : asked[w] = Nothing /\ stage[w] = "idle"
  BY <1>1, OneInside
<1>8. UNCHANGED <<lock, asked>>
  BY DEF Transfer
<1>9. ASSUME stage'[u] = "sent", x.verify, NEW i \in 1..Count(x)
      PROVE  rxbuf'[Count(x) + i] = outputs'[Nth(x, i)]
  <2>1. Count(x) + i \in 1..Length(x) /\ Count(x) + i > Count(x) /\ (Count(x) + i) - Count(x) = i
    BY <1>9, <1>c
  <2>2. Command(x, Count(x) + i) = [reg |-> Nth(x, i), value |-> Keep]
    BY <1>0, <2>1, CommandShape
  <2>3. txbuf[Count(x) + i] = [reg |-> Nth(x, i), value |-> Keep] /\ Count(x) + i \in Slots
        /\ Count(x) + i <= Length(x)
    BY <1>1, <1>c, <2>1, <2>2
  <2>4. rxbuf' = [s \in Slots |-> IF s <= Length(x) /\ txbuf[s].value = Keep
                                   THEN outputs'[txbuf[s].reg] ELSE rxbuf[s]]
    BY <1>0, <1>4, <1>9
  <2> HIDE DEF x
  <2> QED
    BY <2>3, <2>4
<1>10. Owns(u)'
  BY <1>1, <1>6, <1>8, <1>9, Zenon DEF Owns
<1>11. ASSUME NEW w \in Users \ {u} PROVE Owns(w)'
  <2>1. asked'[w] = Nothing /\ stage'[w] = "idle"
    BY <1>6, <1>7, <1>8, <1>11
  <2> QED
    BY <2>1, Zenon DEF Owns
<1>12. LockGuards'
  BY <1>10, <1>11, Zenon DEF LockGuards
<1>13. \A r \in Writes(x) : outputs'[r] \in {outputs[r], x[r]}
  BY <1>3, <1>c
<1>14. \A r \in Registers \ Writes(x) : outputs'[r] = outputs[r]
  BY <1>3
<1> QED
  BY <1>1, <1>2, <1>5, <1>6, <1>7, <1>12, <1>13, <1>14

\* The end of an exchange returns success of a verified one only if every register it
\* writes holds what it says.
LEMMA FinishEffect ==
  ASSUME BusTyped, LockGuards, NEW u \in Users, Finish(u), UNCHANGED outputs
  PROVE  /\ verdict' = "ok" /\ asked[u].verify =>
              \A r \in Writes(asked[u]) : outputs'[r] = asked[u][r]
         /\ lock' \in Users \cup {Free} /\ verdict' \in {"ok", "error"}
         /\ txbuf' \in [Slots -> [reg : Registers, value : Int]]
         /\ rxbuf' \in [Slots -> Int] /\ asked' \in [Users -> Requests]
         /\ stage' \in [Users -> {"idle", "filled", "sent", "failed"}]
         /\ asked[u] # Nothing /\ asked'[u] = Nothing /\ stage'[u] = "idle"
         /\ \A w \in Users \ {u} : asked'[w] = asked[w] /\ stage'[w] = stage[w]
         /\ LockGuards'
<1> DEFINE x == asked[u]
<1>0. /\ asked \in [Users -> Requests] /\ x \in Requests
      /\ stage \in [Users -> {"idle", "filled", "sent", "failed"}]
  BY DEF BusTyped, PicTypeOK
<1>1. /\ stage[u] \in {"sent", "failed"} /\ verdict' = Verdict(u) /\ lock' = Free
      /\ asked' = [asked EXCEPT ![u] = Nothing] /\ stage' = [stage EXCEPT ![u] = "idle"]
      /\ txbuf' = [s \in Slots |-> Blank] /\ rxbuf' = [s \in Slots |-> 0]
  BY DEF Finish
<1>2. x # Nothing
  BY <1>1 DEF LockGuards, Owns
<1>3. ASSUME verdict' = "ok", x.verify, NEW r \in Writes(x) PROVE outputs'[r] = x[r]
  <2>1. stage[u] = "sent" /\ ReadBack(x)
    BY <1>1, <1>3 DEF Verdict
  <2>2. PICK i \in 1..Count(x) : Nth(x, i) = r
    BY <1>0, <1>3, CommandFacts
  <2>3. rxbuf[Count(x) + i] = outputs[r]
    BY <1>3, <2>1, <2>2 DEF LockGuards, Owns
  <2>4. rxbuf[Count(x) + i] = x[r]
    BY <2>1, <2>2 DEF ReadBack
  <2> QED
    BY <2>3, <2>4
<1>4. /\ asked' \in [Users -> Requests]
      /\ stage' \in [Users -> {"idle", "filled", "sent", "failed"}]
      /\ asked'[u] = Nothing /\ stage'[u] = "idle"
      /\ \A w \in Users \ {u} : asked'[w] = asked[w] /\ stage'[w] = stage[w]
  BY <1>0, <1>1, RequestsTyped
<1>5. \A w \in Users : asked'[w] = Nothing /\ stage'[w] = "idle"
  BY <1>2, <1>4, OneInside
<1>6. LockGuards'
  BY <1>5, Zenon DEF LockGuards, Owns
<1>7. /\ txbuf' \in [Slots -> [reg : Registers, value : Int]] /\ rxbuf' \in [Slots -> Int]
  <2>1. Blank \in [reg : Registers, value : Int]
    BY DEF Blank, Registers, Keep
  <2> QED
    BY <1>1, <2>1
<1>8. verdict' \in {"ok", "error"}
  BY <1>1 DEF Verdict
<1> QED
  BY <1>1, <1>2, <1>3, <1>4, <1>6, <1>7, <1>8

\* The invariant of the bus holds when the module is loaded.
LEMMA BusInvInit == PicInit => BusInv
<1> SUFFICES ASSUME PicInit PROVE BusInv
  OBVIOUS
<1>1. asked \in [Users -> Requests] /\ Requests \subseteq [dac : Int, led : Int, verify : BOOLEAN]
  BY RequestsTyped DEF PicInit
<1>2. txbuf \in [Slots -> [reg : Registers, value : Int]] /\ rxbuf \in [Slots -> Int]
  <2>1. Blank \in [reg : Registers, value : Int]
    BY DEF Blank, Registers, Keep
  <2> QED
    BY <2>1 DEF PicInit
<1>3. /\ outputs \in [Registers -> Values \cup {0}]
      /\ stage \in [Users -> {"idle", "filled", "sent", "failed"}]
      /\ pic_done \in [Callers -> BOOLEAN] /\ pic_excused \in [Callers -> SUBSET Registers]
  BY DEF PicInit
<1>4. led_wq \in Seq(Values \cup {0}) /\ led_asked = 0 /\ led_excused = FALSE
      /\ lock = Free /\ verdict = "ok"
  BY EmptySeq DEF PicInit
<1>5. PicTypeOK
  <2>1. asked \in [Users -> [dac : Int, led : Int, verify : BOOLEAN]]
    BY <1>1
  <2> QED
    BY <1>2, <1>3, <1>4, <2>1 DEF PicTypeOK
<1>6. LockGuards
  BY Zenon DEF PicInit, LockGuards, Owns
<1>7. PicStaysZero
  BY DEF PicInit, PicStaysZero
<1> QED
  BY <1>1, <1>5, <1>6, <1>7 DEF BusInv, BusTyped

\* The types of the parts that an exchange does not touch.
LEMMA BusTypes ==
  ASSUME BusTyped
  PROVE  /\ outputs \in [Registers -> Values \cup {0}]
         /\ lock \in Users \cup {Free}
         /\ txbuf \in [Slots -> [reg : Registers, value : Int]]
         /\ rxbuf \in [Slots -> Int]
         /\ asked \in [Users -> Requests]
         /\ stage \in [Users -> {"idle", "filled", "sent", "failed"}]
         /\ verdict \in {"ok", "error"}
         /\ led_wq \in Seq(Values \cup {0}) /\ led_asked \in Values \cup {0}
         /\ led_excused \in BOOLEAN
         /\ pic_done \in [Callers -> BOOLEAN]
         /\ pic_excused \in [Callers -> SUBSET Registers]
  BY DEF BusTyped, PicTypeOK

\* The same after a step.
LEMMA TypesBus ==
  ASSUME /\ outputs' \in [Registers -> Values \cup {0}]
         /\ lock' \in Users \cup {Free}
         /\ txbuf' \in [Slots -> [reg : Registers, value : Int]]
         /\ rxbuf' \in [Slots -> Int]
         /\ asked' \in [Users -> Requests]
         /\ stage' \in [Users -> {"idle", "filled", "sent", "failed"}]
         /\ verdict' \in {"ok", "error"}
         /\ led_wq' \in Seq(Values \cup {0}) /\ led_asked' \in Values \cup {0}
         /\ led_excused' \in BOOLEAN
         /\ pic_done' \in [Callers -> BOOLEAN]
         /\ pic_excused' \in [Callers -> SUBSET Registers]
  PROVE  BusTyped'
<1>1. asked' \in [Users -> [dac : Int, led : Int, verify : BOOLEAN]]
  BY RequestsTyped
<1> QED
  BY <1>1 DEF BusTyped, PicTypeOK

\* A step that only fills the buffer keeps the invariant.
LEMMA BeginKeeps ==
  ASSUME BusInv, NEW u \in Users, NEW x \in Requests, x # Nothing, Fill(u, x),
         UNCHANGED <<outputs, verdict, led_asked, led_excused, pic_excused>>,
         pic_done' \in [Callers -> BOOLEAN], led_wq' \in Seq(Values \cup {0}),
         \A c \in Callers : pic_done'[c] => pic_done[c]
  PROVE  BusInv'
<1>1. BusTyped'
  BY BusTypes, TypesBus, FillEffect DEF BusInv
<1>2. LockGuards'
  BY FillEffect DEF BusInv
<1>3. PicStaysZero'
  BY Zenon DEF BusInv, PicStaysZero
<1> QED
  BY <1>1, <1>2, <1>3 DEF BusInv

\* A transfer excuses the registers on which it may leave more than zero.
LEMMA TransferKeeps ==
  ASSUME BusInv, NEW u \in Users, Transfer(u)
  PROVE  BusInv'
<1> DEFINE Left == {r \in Writes(asked[u]) : asked[u][r] # 0}
<1>1. /\ UNCHANGED <<lock, txbuf, asked, verdict, led_wq, led_asked, pic_done>>
      /\ pic_excused' = [c \in Callers |-> pic_excused[c] \cup Left]
      /\ led_excused' \in BOOLEAN
  BY BusTypes DEF Transfer, Disturb, BusInv
<1>2. pic_excused' \in [Callers -> SUBSET Registers]
  <2>1. \A c \in Callers : pic_excused[c] \cup Left \in SUBSET Registers
    BY BusTypes DEF BusInv, Writes
  <2> HIDE DEF Left
  <2> QED
    BY <1>1, <2>1
<1>3. BusTyped'
  BY <1>1, <1>2, BusTypes, TypesBus, TransferEffect DEF BusInv
<1>4. ASSUME NEW c \in Callers, pic_done'[c], NEW r \in Registers \ pic_excused'[c]
      PROVE  outputs'[r] = 0
  <2>1. r \notin pic_excused[c] /\ r \notin Left
    BY <1>1, <1>4
  <2>2. outputs[r] = 0
    BY <1>1, <1>4, <2>1, Zenon DEF BusInv, PicStaysZero
  <2>3. CASE r \in Writes(asked[u])
    <3>1. asked[u][r] = 0
      BY <2>1, <2>3
    <3>2. outputs'[r] \in {outputs[r], asked[u][r]}
      BY <2>3, TransferEffect DEF BusInv
    <3> QED
      BY <2>2, <3>1, <3>2
  <2>4. CASE r \notin Writes(asked[u])
    <3>1. outputs'[r] = outputs[r]
      BY <2>4, TransferEffect DEF BusInv
    <3> QED
      BY <2>2, <3>1
  <2> QED
    BY <2>3, <2>4
<1>5. PicStaysZero'
  BY <1>4, Zenon DEF PicStaysZero
<1> QED
  BY <1>3, <1>5, TransferEffect DEF BusInv

\* The end of an exchange, but for a make-safe's.
LEMMA FinishKeeps ==
  ASSUME BusInv, NEW u \in Users, Finish(u),
         UNCHANGED <<outputs, ledVars, pic_done, pic_excused>>
  PROVE  BusInv'
<1>1. UNCHANGED <<led_wq, led_asked, led_excused>>
  BY DEF ledVars
<1>2. BusTyped' /\ LockGuards'
  BY <1>1, BusTypes, TypesBus, FinishEffect DEF BusInv
<1>3. PicStaysZero'
  BY Zenon DEF BusInv, PicStaysZero
<1> QED
  BY <1>2, <1>3 DEF BusInv

\* The end of a make-safe: success means that every register is at zero.
LEMMA SafeEndKeeps ==
  ASSUME BusInv, NEW c \in Callers, MakeSafeEnd(c)
  PROVE  BusInv'
<1>1. /\ c \in Users /\ Finish(c) /\ asked[c] = Zeros
      /\ UNCHANGED <<outputs, led_wq, led_asked, led_excused>>
      /\ pic_done' = [pic_done EXCEPT ![c] = TRUE]
      /\ pic_excused' = [pic_excused EXCEPT ![c] =
                           IF verdict' = "ok" THEN {} ELSE {r \in Registers : outputs[r] # 0}]
  BY DEF MakeSafeEnd, Users, ledVars
<1>2. verdict' = "ok" => \A r \in Registers : outputs'[r] = 0
  BY <1>1, RequestFacts, FinishEffect DEF BusInv
<1>3. /\ pic_done \in [Callers -> BOOLEAN] /\ pic_excused \in [Callers -> SUBSET Registers]
  BY BusTypes DEF BusInv
<1>4. pic_done' \in [Callers -> BOOLEAN] /\ pic_excused' \in [Callers -> SUBSET Registers]
  BY <1>1, <1>3
<1>5. BusTyped' /\ LockGuards'
  BY <1>1, <1>4, BusTypes, TypesBus, FinishEffect DEF BusInv
<1>6. ASSUME NEW d \in Callers, pic_done'[d], NEW r \in Registers \ pic_excused'[d]
      PROVE  outputs'[r] = 0
  <2>1. CASE d = c
    <3>1. pic_excused'[c] = IF verdict' = "ok" THEN {} ELSE {q \in Registers : outputs[q] # 0}
      BY <1>1, <1>3
    <3> QED
      BY <1>1, <1>2, <1>6, <2>1, <3>1
  <2>2. CASE d # c
    <3>1. pic_excused'[d] = pic_excused[d] /\ pic_done'[d] = pic_done[d]
      BY <1>1, <1>3, <2>2
    <3>2. outputs[r] = 0
      BY <1>6, <3>1, Zenon DEF BusInv, PicStaysZero
    <3> QED
      BY <1>1, <3>2
  <2> QED
    BY <2>1, <2>2
<1> QED
  BY <1>5, <1>6, Zenon DEF BusInv, PicStaysZero

\* The names of the users differ.
LEMMA UserNames ==
  /\ {"task", "worker"} \subseteq Users /\ Callers \subseteq Users
  /\ "task" # "worker" /\ \A c \in Callers : c # "task" /\ c # "worker"
  BY PicAssumption DEF Users

\* Every store, brightness write, piece of work and make-safe keeps the invariant.
LEMMA BusInvStep == BusInv /\ [PicNext]_picVars => BusInv'
<1> SUFFICES ASSUME BusInv, [PicNext]_picVars PROVE BusInv'
  OBVIOUS
<1>t. BusTyped
  BY DEF BusInv
<1>b. ASSUME NEW u \in Users, NEW x \in Requests, x # Nothing, Fill(u, x),
             UNCHANGED <<outputs, verdict, led_asked, led_excused, pic_excused, pic_done>>,
             led_wq' \in Seq(Values \cup {0})
      PROVE  BusInv'
  <2>1. pic_done' \in [Callers -> BOOLEAN] /\ \A c \in Callers : pic_done'[c] => pic_done[c]
    BY <1>b, <1>t, BusTypes
  <2> QED
    BY <1>b, <2>1, BeginKeeps
<1>1. ASSUME NEW x \in Exchanges, StoreBegin(x) PROVE BusInv'
  <2>1. /\ x # Nothing /\ Fill("task", x)
        /\ UNCHANGED <<outputs, verdict, led_wq, led_asked, led_excused, pic_excused, pic_done>>
    BY <1>1 DEF StoreBegin, ledVars
  <2>2. x \in Requests /\ led_wq' \in Seq(Values \cup {0})
    BY <1>t, <2>1, RequestsTyped, BusTypes
  <2> QED
    BY <1>b, <2>1, <2>2, UserNames
<1>2. CASE StoreEnd
  BY <1>2, UserNames, FinishKeeps DEF StoreEnd
<1>3. CASE WorkEnd
  BY <1>3, UserNames, FinishKeeps DEF WorkEnd
<1>4. ASSUME NEW v \in Values \cup {0}, LedSet(v) PROVE BusInv'
  <2>1. UNCHANGED <<outputs, lock, txbuf, rxbuf, asked, stage, verdict, pic_done, pic_excused>>
    BY <1>4 DEF LedSet, busVars
  <2>2. led_wq' \in Seq(Values \cup {0}) /\ led_asked' = v /\ led_excused' \in BOOLEAN
    <3>1. Append(led_wq, v) \in Seq(Values \cup {0})
      BY <1>t, BusTypes, AppendProperties
    <3> QED
      BY <1>4, <1>t, <3>1, BusTypes DEF LedSet
  <2>3. BusTyped'
    BY <1>t, <2>1, <2>2, BusTypes, TypesBus
  <2>4. LockGuards' /\ PicStaysZero'
    BY <2>1, Zenon DEF BusInv, LockGuards, Owns, PicStaysZero
  <2> QED
    BY <2>3, <2>4 DEF BusInv
<1>5. ASSUME NEW c \in Callers, MakeSafeBegin(c) PROVE BusInv'
  <2>1. /\ Fill(c, Zeros) /\ pic_done' = [pic_done EXCEPT ![c] = FALSE]
        /\ UNCHANGED <<outputs, verdict, led_wq, led_asked, led_excused, pic_excused>>
    BY <1>5 DEF MakeSafeBegin, ledVars
  <2>2. pic_done' \in [Callers -> BOOLEAN] /\ \A d \in Callers : pic_done'[d] => pic_done[d]
    BY <1>t, <2>1, BusTypes
  <2>3. led_wq' \in Seq(Values \cup {0})
    BY <1>t, <2>1, BusTypes
  <2> QED
    BY <2>1, <2>2, <2>3, UserNames, RequestFacts, RequestsTyped, BeginKeeps
<1>6. ASSUME NEW c \in Callers, MakeSafeEnd(c) PROVE BusInv'
  BY <1>6, SafeEndKeeps
<1>7. ASSUME NEW c \in Callers, NEW v \in Values, ValuesBegin(c, v) PROVE BusInv'
  <2>1. /\ Fill(c, InitialValues(v))
        /\ UNCHANGED <<outputs, verdict, led_wq, led_asked, led_excused, pic_excused, pic_done>>
    BY <1>7 DEF ValuesBegin, ledVars
  <2>2. led_wq' \in Seq(Values \cup {0})
    BY <1>t, <2>1, BusTypes
  <2> QED
    BY <1>b, <2>1, <2>2, UserNames, RequestFacts, RequestsTyped
<1>8. ASSUME NEW c \in Callers, ValuesEnd(c) PROVE BusInv'
  BY <1>8, UserNames, FinishKeeps DEF ValuesEnd
<1>9. CASE UNCHANGED picVars
  <2>1. UNCHANGED <<outputs, lock, txbuf, rxbuf, asked, stage, verdict, led_wq, led_asked,
                    led_excused, pic_done, pic_excused>>
    BY <1>9 DEF picVars, busVars, ledVars
  <2>2. BusTyped'
    BY <1>t, <2>1, BusTypes, TypesBus
  <2>3. LockGuards' /\ PicStaysZero'
    BY <2>1, Zenon DEF BusInv, LockGuards, Owns, PicStaysZero
  <2> QED
    BY <2>2, <2>3 DEF BusInv
<1>10. CASE WorkBegin
  <2>1. /\ led_wq # <<>> /\ led_wq' = Tail(led_wq)
        /\ Fill("worker", [Nothing EXCEPT !.led = Head(led_wq)])
        /\ UNCHANGED <<outputs, verdict, led_asked, led_excused, pic_excused, pic_done>>
    BY <1>10 DEF WorkBegin
  <2>2. Head(led_wq) \in Nat /\ led_wq' \in Seq(Values \cup {0})
    BY <1>t, <2>1, BusTypes, PicAssumption
  <2> QED
    BY <1>b, <2>1, <2>2, UserNames, RequestFacts, RequestsTyped
<1>11. ASSUME NEW u \in Users, Transfer(u) PROVE BusInv'
  BY <1>11, TransferKeeps
<1> QED
  BY <1>1, <1>2, <1>3, <1>4, <1>5, <1>6, <1>7, <1>8, <1>9, <1>10, <1>11 DEF PicNext

\* Registers the PIC was made safe on stay at zero, however many callers, stores and
\* queued brightness writes meet at the bus, but for those written since
\* (pic_make_safe()).
THEOREM PicSafety == PicSpec => []PicStaysZero
<1>1. BusInv => PicStaysZero
  BY DEF BusInv
<1> QED
  BY BusInvInit, BusInvStep, <1>1, PTL DEF PicSpec

\* The property of a step that WriteTruth asks for.
TruthfulStep ==
  \A u \in Users :
    asked[u] # Nothing /\ asked'[u] = Nothing /\ verdict' = "ok" /\ asked[u].verify
      => \A r \in Writes(asked[u]) : outputs'[r] = asked[u][r]

\* Only the end of an exchange takes a user out of it, and only its own user.
LEMMA TruthfulSteps == BusInv /\ [PicNext]_picVars => [TruthfulStep]_picVars
<1> SUFFICES ASSUME BusInv, PicNext PROVE TruthfulStep
  OBVIOUS
<1>t. BusTyped /\ LockGuards
  BY DEF BusInv
<1>e. ASSUME NEW u \in Users, Finish(u), UNCHANGED outputs PROVE TruthfulStep
  <2>1. ASSUME NEW w \in Users, asked[w] # Nothing, asked'[w] = Nothing PROVE w = u
    BY <1>e, <1>t, <2>1, FinishEffect
  <2>2. verdict' = "ok" /\ asked[u].verify =>
          \A r \in Writes(asked[u]) : outputs'[r] = asked[u][r]
    BY <1>e, <1>t, FinishEffect
  <2> QED
    BY <2>1, <2>2, Zenon DEF TruthfulStep
<1>b. ASSUME NEW u \in Users, NEW x, Fill(u, x) PROVE TruthfulStep
  <2>1. \A w \in Users : asked[w] # Nothing => asked'[w] = asked[w]
    BY <1>b, <1>t, BusTypes DEF Fill
  <2> QED
    BY <2>1, Zenon DEF TruthfulStep
<1>1. ASSUME NEW x \in Exchanges, StoreBegin(x) PROVE TruthfulStep
  BY <1>1, <1>b, UserNames DEF StoreBegin
<1>2. CASE StoreEnd \/ WorkEnd
  BY <1>2, <1>e, UserNames DEF StoreEnd, WorkEnd
<1>3. CASE WorkBegin
  BY <1>3, <1>b, UserNames DEF WorkBegin
<1>4. ASSUME NEW v \in Values \cup {0}, LedSet(v) PROVE TruthfulStep
  BY <1>4, Zenon DEF LedSet, busVars, TruthfulStep
<1>5. ASSUME NEW c \in Callers, MakeSafeBegin(c) PROVE TruthfulStep
  BY <1>5, <1>b, UserNames DEF MakeSafeBegin
<1>6. ASSUME NEW c \in Callers, MakeSafeEnd(c) \/ ValuesEnd(c) PROVE TruthfulStep
  BY <1>6, <1>e, UserNames DEF MakeSafeEnd, ValuesEnd
<1>7. ASSUME NEW c \in Callers, NEW v \in Values, ValuesBegin(c, v) PROVE TruthfulStep
  BY <1>7, <1>b, UserNames DEF ValuesBegin
<1>8. ASSUME NEW u \in Users, Transfer(u) PROVE TruthfulStep
  BY <1>8, Zenon DEF Transfer, TruthfulStep
<1> QED
  BY <1>1, <1>2, <1>3, <1>4, <1>5, <1>6, <1>7, <1>8 DEF PicNext

\* A verified write that returns success has reached every register it names and still
\* holds it when it returns: the mutex keeps the two buffers and the registers with one
\* user, from the first command filled in to the comparison, whatever the PIC misses
\* (pic_write_register_range()).
THEOREM PicTruth == PicSpec => WriteTruth
<1>1. WriteTruth <=> [][TruthfulStep]_picVars
  BY DEF WriteTruth, TruthfulStep
<1> QED
  BY BusInvInit, BusInvStep, TruthfulSteps, <1>1, PTL DEF PicSpec

-----------------------------------------------------------------------------
(* Brightness writes.                                                      *)

\* The last brightness asked for is at the end of the queue, or with the worker once
\* the queue is empty, or in the register once the worker has sent it.
LedPath ==
  ~led_excused =>
    /\ led_wq # <<>> => led_wq[Len(led_wq)] = led_asked
    /\ led_wq = <<>> /\ asked["worker"] # Nothing => asked["worker"].led = led_asked
    /\ led_wq = <<>> /\ stage["worker"] # "filled" => outputs["led"] = led_asked

LedInv == BusInv /\ LedPath

\* Nothing on its way is a special case of it.
LEMMA PathShows == LedInv => LedShowsLast
<1> SUFFICES ASSUME LedInv, LedIdle, ~led_excused PROVE outputs["led"] = led_asked
  BY Zenon DEF LedShowsLast
<1>1. asked["worker"] = Nothing /\ led_wq = <<>>
  BY DEF LedIdle
<1>2. stage["worker"] = "idle"
  BY <1>1, UserNames DEF LedInv, BusInv, LockGuards, Owns
<1> QED
  BY <1>1, <1>2 DEF LedInv, LedPath

\* A step that leaves the brightness register, the queue and the worker alone.
LEMMA LedAside ==
  ASSUME LedInv, UNCHANGED <<led_wq, led_asked>>,
         asked'["worker"] = asked["worker"], stage'["worker"] = stage["worker"],
         ~led_excused' => outputs'["led"] = outputs["led"] /\ ~led_excused
  PROVE  LedPath'
  BY Zenon DEF LedInv, LedPath

\* A register that the request does not write is one it keeps.
LEMMA LedUnwritten ==
  ASSUME NEW x
  PROVE  "led" \in Registers /\ (x.led = Keep => "led" \notin Writes(x))
<1>1. x["led"] = x.led
  OBVIOUS
<1> QED
  BY <1>1 DEF Registers, Writes

\* The invariant holds when the module is loaded.
LEMMA LedInvInit == PicInit => LedInv
<1> SUFFICES ASSUME PicInit PROVE LedInv
  OBVIOUS
<1>1. led_wq = <<>> /\ \A u \in Users : asked[u] = Nothing
  BY DEF PicInit
<1>2. outputs["led"] = 0 /\ led_asked = 0
  BY DEF PicInit, Registers
<1> QED
  BY <1>1, <1>2, UserNames, BusInvInit DEF LedInv, LedPath

\* A brightness request goes to the end of the queue, or is dropped and excused.
LEMMA LedSetKeeps ==
  ASSUME LedInv, NEW v \in Values \cup {0}, LedSet(v)
  PROVE  LedPath'
<1>1. CASE led_wq' = led_wq /\ led_excused' = TRUE
  BY <1>1, Zenon DEF LedPath
<1>2. CASE led_wq' = Append(led_wq, v) /\ led_excused' = FALSE
  <2>1. led_asked' = v /\ led_wq \in Seq(Values \cup {0})
    BY BusTypes DEF LedSet, LedInv, BusInv
  <2>2. led_wq' # <<>> /\ led_wq'[Len(led_wq')] = led_asked'
    BY <1>2, <2>1
  <2> QED
    BY <2>2, Zenon DEF LedPath
<1> QED
  BY <1>1, <1>2 DEF LedSet

\* The worker takes from the front, so the last one asked for comes last.
LEMMA WorkBeginKeeps ==
  ASSUME LedInv, WorkBegin
  PROVE  LedPath'
<1> DEFINE x == [Nothing EXCEPT !.led = Head(led_wq)]
<1>1. /\ led_wq # <<>> /\ led_wq \in Seq(Values \cup {0}) /\ led_wq' = Tail(led_wq)
      /\ Fill("worker", x) /\ UNCHANGED <<outputs, led_asked, led_excused>>
  BY BusTypes DEF WorkBegin, LedInv, BusInv
<1>2. Head(led_wq) \in Nat
  BY <1>1, PicAssumption
<1>3. x # Nothing /\ x.led = Head(led_wq) /\ x \in Requests
  BY <1>2, RequestFacts, RequestsTyped
<1> HIDE DEF x
<1>4. asked'["worker"] = x /\ stage'["worker"] = "filled"
  BY <1>1, <1>3, FillEffect, UserNames DEF LedInv, BusInv
<1>5. ~led_excused /\ led_wq' # <<>> => led_wq'[Len(led_wq')] = led_asked'
  BY <1>1 DEF LedInv, LedPath
<1>6. ~led_excused /\ led_wq' = <<>> => Head(led_wq) = led_asked'
  <2>1. Len(led_wq') = Len(led_wq) - 1 /\ Head(led_wq) = led_wq[1]
    BY <1>1
  <2>2. led_wq' = <<>> => Len(led_wq) = 1
    <3>1. Len(led_wq) \in Nat
      BY <1>1
    <3>2. led_wq' = <<>> => Len(led_wq') = 0
      OBVIOUS
    <3> QED
      BY <2>1, <3>1, <3>2
  <2> QED
    BY <1>1, <2>1, <2>2 DEF LedInv, LedPath
<1>7. led_excused' = led_excused
  BY <1>1
<1> QED
  BY <1>3, <1>4, <1>5, <1>6, <1>7, Zenon DEF LedPath

\* A transfer of the worker leaves its value in the register or is excused; one of
\* somebody else keeps the register or is.
LEMMA TransferPath ==
  ASSUME LedInv, NEW u \in Users, Transfer(u)
  PROVE  LedPath'
<1>1. /\ UNCHANGED <<asked, led_wq, led_asked>>
      /\ led_excused' = (led_excused \/ /\ asked[u].led # Keep
                                        /\ u = "worker" => outputs'["led"] # asked[u].led)
  BY DEF Transfer, Disturb
<1>2. asked[u].led = Keep => outputs'["led"] = outputs["led"]
  <2>1. \A r \in Registers \ Writes(asked[u]) : outputs'[r] = outputs[r]
    BY TransferEffect DEF LedInv, BusInv
  <2> QED
    BY <2>1, LedUnwritten
<1>3. CASE u # "worker"
  <2>1. stage'["worker"] = stage["worker"] /\ asked'["worker"] = asked["worker"]
    BY <1>1, <1>3, TransferEffect, UserNames DEF LedInv, BusInv
  <2>2. ~led_excused' => outputs'["led"] = outputs["led"] /\ ~led_excused
    BY <1>1, <1>2, <1>3, Zenon
  <2> QED
    BY <1>1, <2>1, <2>2, LedAside
<1>4. CASE u = "worker"
  <2>1. asked["worker"] # Nothing
    BY <1>4, TransferEffect DEF LedInv, BusInv
  <2>2. led_asked # Keep
    BY BusTypes, PicAssumption DEF LedInv, BusInv, Keep
  <2>3. ASSUME ~led_excused', led_wq = <<>>
        PROVE  asked["worker"].led = led_asked /\ outputs'["led"] = led_asked
    <3>1. ~led_excused
      BY <1>1, <2>3, Zenon
    <3>2. asked["worker"].led = led_asked
      BY <2>1, <2>3, <3>1 DEF LedInv, LedPath
    <3> QED
      BY <1>1, <1>4, <2>2, <2>3, <3>2, Zenon
  <2>4. ~led_excused' /\ led_wq # <<>> => led_wq[Len(led_wq)] = led_asked
    BY <1>1, Zenon DEF LedInv, LedPath
  <2> QED
    BY <1>1, <2>3, <2>4, Zenon DEF LedPath
<1> QED
  BY <1>3, <1>4

\* The end of an exchange: what the worker has sent is in the register.
LEMMA FinishPath ==
  ASSUME LedInv, NEW u \in Users, Finish(u), UNCHANGED <<outputs, ledVars>>
  PROVE  LedPath'
<1>1. UNCHANGED <<led_wq, led_asked, led_excused>>
  BY DEF ledVars
<1>2. /\ stage[u] \in {"sent", "failed"} /\ asked'[u] = Nothing /\ stage'[u] = "idle"
      /\ \A w \in Users \ {u} : asked'[w] = asked[w] /\ stage'[w] = stage[w]
  BY FinishEffect DEF LedInv, BusInv, Finish
<1>3. CASE u = "worker"
  <2>1. stage["worker"] # "filled" /\ asked'["worker"] = Nothing
    BY <1>2, <1>3
  <2> QED
    BY <1>1, <2>1, Zenon DEF LedInv, LedPath
<1>4. CASE u # "worker"
  <2>1. stage'["worker"] = stage["worker"] /\ asked'["worker"] = asked["worker"]
    BY <1>2, <1>4, UserNames
  <2> QED
    BY <1>1, <2>1, LedAside
<1> QED
  BY <1>3, <1>4

\* Every step of the bus keeps the invariant.
LEMMA LedInvStep == LedInv /\ [PicNext]_picVars => LedInv'
<1> SUFFICES ASSUME LedInv, [PicNext]_picVars PROVE LedInv'
  OBVIOUS
<1>0. BusInv'
  BY BusInvStep DEF LedInv
<1> SUFFICES LedPath'
  BY <1>0 DEF LedInv
<1>f. ASSUME NEW u \in Users \ {"worker"}, NEW x \in Requests, x # Nothing, Fill(u, x),
             UNCHANGED <<outputs, ledVars>>
      PROVE  LedPath'
  <2>1. UNCHANGED <<led_wq, led_asked, led_excused>>
    BY <1>f DEF ledVars
  <2>2. asked'["worker"] = asked["worker"] /\ stage'["worker"] = stage["worker"]
    BY <1>f, FillEffect, UserNames DEF LedInv, BusInv
  <2> QED
    BY <1>f, <2>1, <2>2, LedAside
<1>1. ASSUME NEW x \in Exchanges, StoreBegin(x) PROVE LedPath'
  BY <1>1, <1>f, UserNames, RequestsTyped DEF StoreBegin
<1>2. CASE StoreEnd \/ WorkEnd
  BY <1>2, FinishPath, UserNames DEF StoreEnd, WorkEnd
<1>3. CASE WorkBegin
  BY <1>3, WorkBeginKeeps
<1>4. ASSUME NEW u \in Users, Transfer(u) PROVE LedPath'
  BY <1>4, TransferPath
<1>5. ASSUME NEW v \in Values \cup {0}, LedSet(v) PROVE LedPath'
  BY <1>5, LedSetKeeps
<1>6. ASSUME NEW c \in Callers, MakeSafeBegin(c) PROVE LedPath'
  BY <1>6, <1>f, UserNames, RequestFacts, RequestsTyped DEF MakeSafeBegin
<1>7. ASSUME NEW c \in Callers, MakeSafeEnd(c) \/ ValuesEnd(c) PROVE LedPath'
  BY <1>7, FinishPath, UserNames DEF MakeSafeEnd, ValuesEnd
<1>8. ASSUME NEW c \in Callers, NEW v \in Values, ValuesBegin(c, v) PROVE LedPath'
  BY <1>8, <1>f, UserNames, RequestFacts, RequestsTyped DEF ValuesBegin
<1>9. CASE UNCHANGED picVars
  <2>1. UNCHANGED <<led_wq, led_asked, led_excused, asked, stage, outputs>>
    BY <1>9 DEF picVars, busVars, ledVars
  <2> QED
    BY <2>1, LedAside
<1> QED
  BY <1>1, <1>2, <1>3, <1>4, <1>5, <1>6, <1>7, <1>8, <1>9 DEF PicNext

\* Once no brightness write is on its way the LED shows the last one asked for, for a
\* burst of any length, unless the code dropped it for want of memory, the PIC missed
\* it or somebody else wrote the register (pic_led_set() and its work function).
THEOREM LedOrder == PicSpec => []LedShowsLast
<1> QED
  BY LedInvInit, LedInvStep, PathShows, PTL DEF PicSpec

-----------------------------------------------------------------------------
(* The three behind the switch.                                            *)

\* What a step is to each of the three.
PartSteps ==
  [ThermalNext]_thermalVars /\ [HeadNext]_headVars /\ [PicNext]_picVars

\* Every step of the composition - a store, a handler of the chain, a step of a probe,
\* of an unwinding or of a remove - is a step of each component or leaves it alone.
LEMMA StepsOfParts == Next => PartSteps
<1> SUFFICES ASSUME Next PROVE PartSteps
  OBVIOUS
<1>c. Chain \in Callers /\ Core \in Callers
  BY SafingAssumption
<1>1. CASE Manage \/ \E d \in Drivers : EnterStore(d)
  BY <1>1 DEF Manage, EnterStore, PartSteps
<1>2. CASE RemovePic
  <2>1. UNCHANGED thermalVars /\ UNCHANGED headVars
    BY <1>2 DEF RemovePic
  <2>2. \/ MakeSafeBegin(Core) \/ MakeSafeEnd(Core) \/ LedSet(0)
        \/ UNCHANGED picVars
    BY <1>2 DEF RemovePic, LedsOff
  <2> QED
    BY <1>c, <2>1, <2>2 DEF PartSteps, PicNext
<1>3. CASE RemoveHead
  <2>1. UNCHANGED thermalVars /\ UNCHANGED picVars
    BY <1>3 DEF RemoveHead
  <2>2. \/ SafeStart(Core) \/ \E o \in Outputs : SafeWrite(Core, o)
        \/ UNCHANGED headVars
    BY <1>3 DEF RemoveHead, Outputs
  <2> QED
    BY <1>c, <2>1, <2>2 DEF PartSteps, HeadNext
<1>4. CASE RemoveThermal
  <2>1. UNCHANGED headVars /\ UNCHANGED picVars
    BY <1>4 DEF RemoveThermal
  <2>2. SafeDuty(Core) \/ SafePins(Core) \/ UNCHANGED thermalVars
    BY <1>4 DEF RemoveThermal
  <2> QED
    BY <1>c, <2>1, <2>2 DEF PartSteps, ThermalNext
<1>5. ASSUME NEW d \in Drivers, ProbeStep(d) PROVE PartSteps
  <2>1. UNCHANGED headVars /\ (FreshDuty \/ ClaimPins \/ UNCHANGED thermalVars)
    BY <1>5 DEF ProbeStep
  <2>2. (\E v \in Values : ValuesBegin(Core, v)) \/ ValuesEnd(Core) \/ UNCHANGED picVars
    BY <1>5 DEF ProbeStep
  <2> QED
    BY <1>c, <2>1, <2>2 DEF PartSteps, PicNext, ThermalNext
<1>6. ASSUME NEW d \in Drivers, AbortStep(d) PROVE PartSteps
  <2>1. UNCHANGED thermalVars /\ UNCHANGED headVars
    BY <1>6 DEF AbortStep
  <2>2. LedSet(0) \/ UNCHANGED picVars
    BY <1>6 DEF AbortStep, LedsOff
  <2> QED
    BY <2>1, <2>2 DEF PartSteps, PicNext
<1>7. CASE ThermalStore \/ Heater
  BY <1>7 DEF ThermalStore, Heater, PartSteps, ThermalNext
<1>8. CASE HeadStores
  BY <1>8 DEF HeadStores, PartSteps, HeadNext
<1>9. CASE PicStoreBegin \/ PicStoreEnd \/ Brightness \/ BusTransfer \/ Work
  <2>1. UNCHANGED thermalVars /\ UNCHANGED headVars
    BY <1>9 DEF PicStoreBegin, PicStoreEnd, Brightness, BusTransfer, Work
  <2>2. PicNext
    BY <1>9 DEF PicStoreBegin, PicStoreEnd, Brightness, BusTransfer, Work, PicNext
  <2> QED
    BY <2>1, <2>2 DEF PartSteps
<1>10. CASE Trip
  BY <1>10 DEF Trip, PartSteps
<1>11. CASE HandlePic
  BY <1>11, <1>c DEF HandlePic, PartSteps, PicNext
<1>12. CASE HandleHead
  BY <1>12, <1>c DEF HandleHead, PartSteps, HeadNext
<1>13. CASE HandleThermal
  BY <1>13, <1>c DEF HandleThermal, PartSteps, ThermalNext
<1> QED
  BY <1>1, <1>2, <1>3, <1>4, <1>5, <1>6, <1>7, <1>8, <1>9, <1>10, <1>11, <1>12,
     <1>13 DEF Next

\* A step that changes nothing changes no component.
LEMMA StutterOfParts == UNCHANGED vars => PartSteps
  BY DEF vars, PartSteps

\* What is proved of the heat sources, the head board and the PIC by themselves holds
\* with the three drivers coming and going behind the switch.
THEOREM SafingSafety ==
  Spec => []StaysSafe /\ []LedShowsLast /\ WriteTruth
<1>1. Init => ThermalInit /\ HeadInit /\ PicInit
  BY DEF Init
<1>2. [Next]_vars => PartSteps
  BY StepsOfParts, StutterOfParts
<1>3. PartSteps => [ThermalNext]_thermalVars /\ [HeadNext]_headVars /\ [PicNext]_picVars
  BY DEF PartSteps
<1>4. HeatInv => HeatStaysOff
  BY DEF HeatInv
<1>5. HeadInv => HeadStaysOff
  BY SMT DEF HeadInv, HeadTypeOK, HeadStaysOff, Behind
<1>6. LedInv => PicStaysZero /\ LedShowsLast /\ BusInv
  BY PathShows DEF LedInv, BusInv
<1>7. WriteTruth <=> [][TruthfulStep]_picVars
  BY DEF WriteTruth, TruthfulStep
<1>8. HeatInv /\ HeadInv /\ LedInv => StaysSafe
  BY <1>4, <1>5, <1>6 DEF StaysSafe
<1> QED
  BY <1>1, <1>2, <1>3, <1>6, <1>7, <1>8, HeatInvInit, HeatInvStep, HeadInvInit,
     HeadInvStep, LedInvInit, LedInvStep, TruthfulSteps, PTL DEF Spec

-----------------------------------------------------------------------------
(* The three come and go with the chain at work.                           *)

\* Who is on the chain.
Listed == {d \in Drivers : Has(d, "chain")}

\* A walk calls members only, and who is a member has its driver data pointer.
WalkInv == walk \in Seq(Listed)
PointerKept == \A d \in Drivers : Has(d, "chain") => Has(d, "drvdata")

ComingInv ==
  /\ BringSafe /\ WalkInv /\ PointerKept
  /\ inside \subseteq Drivers /\ stores \in 0..MaxStores /\ trips \in 0..MaxTrips

\* The tables of the three are right.
LEMMA ThreeTables ==
  \A d \in Drivers : TablesRight(d)
  BY SafingAssumption, PicTables, HeadTables, ThermalTables

\* The chain and the pointer go with their own steps.
LEMMA ChainFreed ==
  \A step : /\ "chain" \in Frees(step) => step = "chain"
            /\ "drvdata" \in Frees(step) => step = "drvdata"
  BY DEF Frees, Acts

\* No teardown of the three gives the driver data pointer back; it is the second thing
\* they obtain, and joining the chain comes later.
LEMMA PointerSecond ==
  ASSUME NEW d \in Drivers
  PROVE  /\ Acquire[d][2] = "drvdata" /\ Acquire[d][1] # "chain" /\ Acquire[d][2] # "chain"
         /\ \A i \in 1..Len(Unwind[d]) : Unwind[d][i] # "drvdata"
         /\ \A i \in 1..Len(Remove[d]) : Remove[d][i] # "drvdata"
<1>1. CASE d = "pic"
  BY <1>1 DEF Acquire, Unwind, Remove, PicAcquire, PicUnwind, PicRemove
<1>2. CASE d = "head"
  BY <1>2 DEF Acquire, Unwind, Remove, HeadAcquire, HeadUnwind, HeadRemove
<1>3. CASE d = "thermal"
  BY <1>3 DEF Acquire, Unwind, Remove, ThermalAcquire, ThermalUnwind, ThermalRemove
<1> QED
  BY SafingAssumption, <1>1, <1>2, <1>3

\* A step of a driver's life is kept with who is on the chain: nobody joins without the
\* pointer, and nobody leaves in a walk.
LEMMA MoveKeepsChain ==
  ASSUME BringSafe, PointerKept, NEW d \in Drivers, Moves(d)
  PROVE  /\ PointerKept'
         /\ ("chain" \in held[d] /\ "chain" \notin held'[d]) =>
               \/ Undo(d, "chain") \/ TakeDown(d, "chain")
         /\ \A e \in Drivers \ {d} : held'[e] = held[e]
<1>1. /\ held \in [Drivers -> SUBSET Things] /\ at \in [Drivers -> Nat] /\ OnLadder(d)
  BY DEF BringSafe, BringTyped
<1>2. \A e \in Drivers \ {d} : held'[e] = held[e]
  BY MoveFrame, ThreeTables DEF BringSafe
<1>3. ASSUME Has(d, "chain")' => Has(d, "drvdata")' PROVE PointerKept'
  BY <1>2, <1>3 DEF PointerKept, Has
<1>4. CASE CoreStep(d)
  <2>1. CASE FreeManaged(d)
    <3>1. held'[d] = held[d] \ Managed
      BY <1>1, <2>1 DEF FreeManaged
    <3> QED
      BY <1>2, <1>3, <3>1 DEF Managed, PointerKept, Has
  <2>2. CASE Forget(d)
    <3>1. held'[d] = held[d] \ {"drvdata"} /\ held[d] \subseteq {"drvdata"}
      BY <1>1, <2>2 DEF Forget, OnLadder
    <3> QED
      BY <1>2, <1>3, <3>1 DEF Has
  <2>3. CASE Probe(d) \/ FailProbe(d) \/ StartRemove(d)
    <3>1. held' = held
      BY <2>3 DEF Probe, FailProbe, StartRemove
    <3> QED
      BY <1>2, <1>3, <3>1 DEF PointerKept, Has
  <2> QED
    BY <1>4, <2>1, <2>2, <2>3 DEF CoreStep
<1>5. ASSUME NEW item, Obtain(d, item)
      PROVE  held[d] \subseteq held'[d] /\ (Has(d, "chain")' => Has(d, "drvdata")')
  <2>1. held'[d] = held[d] \cup ({item} \ Acts)
    BY <1>1, <1>5 DEF Obtain
  <2>2. item = Acquire[d][at[d]] /\ phase[d] = "probe"
    BY <1>5 DEF Obtain, Doing, Plan
  <2>3. at[d] \in Nat \ {0} /\ held[d] = Built(d, at[d])
    BY <1>1, <2>2 DEF OnLadder
  <2>4. item = "chain" => at[d] > 2
    <3>1. at[d] = 1 \/ at[d] = 2 \/ at[d] > 2
      BY <2>3
    <3>2. Acquire[d][1] # "chain" /\ Acquire[d][2] # "chain"
      BY PointerSecond
    <3> QED
      BY <2>2, <3>1, <3>2
  <2>5. at[d] > 2 => "drvdata" \in held[d]
    <3>1. at[d] > 2 => 2 \in 1..(at[d] - 1)
      BY <2>3
    <3>2. "drvdata" \notin Acts /\ Acquire[d][2] = "drvdata"
      BY PointerSecond DEF Acts
    <3> QED
      BY <2>3, <3>1, <3>2 DEF Built
  <2> QED
    BY <2>1, <2>4, <2>5 DEF PointerKept, Has
<1>6. ASSUME NEW step, Undo(d, step) \/ TakeDown(d, step)
      PROVE  /\ Has(d, "chain")' => Has(d, "drvdata")'
             /\ "chain" \in held[d] /\ "chain" \notin held'[d] => step = "chain"
  <2>1. held'[d] = held[d] \ Frees(step)
    BY <1>1, <1>6 DEF Undo, TakeDown
  <2>2. step # "drvdata"
    <3>1. /\ phase[d] = "unwind" \/ phase[d] = "remove"
          /\ step = IF phase[d] = "unwind" THEN Unwind[d][at[d]] ELSE Remove[d][at[d]]
      BY <1>6 DEF Undo, TakeDown, Doing, Plan
    <3>2. at[d] \in 1..Len(IF phase[d] = "unwind" THEN Unwind[d] ELSE Remove[d])
      BY <1>1, <3>1 DEF OnLadder, Plan
    <3> QED
      BY <3>1, <3>2, PointerSecond
  <2> QED
    BY <2>1, <2>2, ChainFreed DEF PointerKept, Has
<1> QED
  BY <1>2, <1>3, <1>4, <1>5, <1>6 DEF Moves

\* A driver moves, and leaves the chain only when no walk is under way.
MovesOffWalk(d) ==
  /\ Moves(d) /\ UNCHANGED walk
  /\ Undo(d, "chain") \/ TakeDown(d, "chain") => walk = <<>>

\* No driver moves, and a walk may begin, with all that are on the chain, or go on.
WalksOn ==
  /\ UNCHANGED bringVars
  /\ walk' = walk \/ walk' = Members \/ (walk # <<>> /\ walk' = Tail(walk))

\* A teardown step that waits for what it has to wait for.
LEMMA TeardownWaits ==
  ASSUME NEW d, NEW step, MayPass(d, step), Undo(d, step) \/ TakeDown(d, step), UNCHANGED walk
  PROVE  MovesOffWalk(d)
<1>1. Undo(d, "chain") \/ TakeDown(d, "chain") => step = "chain"
  BY DEF Undo, TakeDown, Doing, Plan
<1> QED
  BY <1>1 DEF MayPass, MovesOffWalk, Moves

\* Every step of the composition is one of the module, of one driver, or of neither.
LEMMA LivesAndWalks ==
  ASSUME Next \/ UNCHANGED vars
  PROVE  \/ ModuleStep /\ UNCHANGED walk
         \/ \E d \in Drivers : MovesOffWalk(d)
         \/ WalksOn
<1>d. {"pic", "head", "thermal"} \subseteq Drivers
  BY SafingAssumption
<1>1. CASE Manage
  <2>1. ASSUME NEW d \in Drivers, CoreStep(d), UNCHANGED walk PROVE MovesOffWalk(d)
    <3>1. phase[d] \notin {"unwind", "remove"}
      BY <2>1 DEF CoreStep, Probe, FailProbe, StartRemove, FreeManaged, Forget, Doing
    <3>2. ~Undo(d, "chain") /\ ~TakeDown(d, "chain")
      BY <3>1 DEF Undo, TakeDown, Doing
    <3> QED
      BY <2>1, <3>2 DEF MovesOffWalk, Moves
  <2>2. UNCHANGED walk /\ (ModuleStep \/ \E d \in Drivers : CoreStep(d))
    BY <1>1 DEF Manage, CoreStep
  <2> QED
    BY <2>1, <2>2
<1>2. CASE RemovePic
  <2>1. PICK step : MayPass("pic", step) /\ (TakeDown("pic", step) \/ UNCHANGED bringVars)
    BY <1>2 DEF RemovePic
  <2>2. UNCHANGED walk
    BY <1>2 DEF RemovePic
  <2> QED
    BY <1>d, <2>1, <2>2, TeardownWaits DEF WalksOn
<1>3. CASE RemoveHead
  <2>1. PICK step : MayPass("head", step) /\ (TakeDown("head", step) \/ UNCHANGED bringVars)
    BY <1>3 DEF RemoveHead
  <2>2. UNCHANGED walk
    BY <1>3 DEF RemoveHead
  <2> QED
    BY <1>d, <2>1, <2>2, TeardownWaits DEF WalksOn
<1>4. CASE RemoveThermal
  <2>1. PICK step : MayPass("thermal", step) /\ TakeDown("thermal", step)
    BY <1>4 DEF RemoveThermal
  <2>2. UNCHANGED walk
    BY <1>4 DEF RemoveThermal
  <2> QED
    BY <1>d, <2>1, <2>2, TeardownWaits
<1>5. ASSUME NEW d \in Drivers, ProbeStep(d) PROVE MovesOffWalk(d) \/ WalksOn
  <2>1. PICK item : Obtain(d, item) \/ UNCHANGED bringVars
    BY <1>5 DEF ProbeStep
  <2>2. UNCHANGED walk
    BY <1>5 DEF ProbeStep
  <2>3. CASE Obtain(d, item)
    <3>1. ~Undo(d, "chain") /\ ~TakeDown(d, "chain")
      BY <2>3 DEF Obtain, Undo, TakeDown, Doing
    <3> QED
      BY <2>2, <2>3, <3>1 DEF MovesOffWalk, Moves
  <2> QED
    BY <2>1, <2>2, <2>3 DEF WalksOn
<1>6. ASSUME NEW d \in Drivers, AbortStep(d) PROVE MovesOffWalk(d)
  <2>1. PICK step : MayPass(d, step) /\ Undo(d, step)
    BY <1>6 DEF AbortStep
  <2>2. UNCHANGED walk
    BY <1>6 DEF AbortStep
  <2> QED
    BY <2>1, <2>2, TeardownWaits
<1>7. CASE \/ \E d \in Drivers : EnterStore(d)
           \/ ThermalStore \/ HeadStores \/ PicStoreBegin \/ PicStoreEnd
           \/ Brightness \/ BusTransfer \/ Work \/ Heater \/ UNCHANGED vars
  BY <1>7 DEF EnterStore, ThermalStore, HeadStores, PicStoreBegin, PicStoreEnd, LeaveStore,
              Brightness, BusTransfer, Work, Heater, vars, WalksOn
<1>8. CASE Trip
  BY <1>8 DEF Trip, WalksOn
<1>9. CASE HandlePic \/ HandleHead \/ HandleThermal
  <2>1. PICK d, last : Handle(d, last)
    BY <1>9 DEF HandlePic, HandleHead, HandleThermal
  <2> QED
    BY <2>1 DEF Handle, Called, WalksOn
<1> QED
  BY <1>1, <1>2, <1>3, <1>4, <1>5, <1>6, <1>7, <1>8, <1>9 DEF Next

\* The chain's members, in whatever order, are on the chain.
LEMMA MembersListed == Members \in Seq(Listed)
<1>1. ASSUME NEW d \in Drivers PROVE Joined(d) \in Seq(Listed)
  <2>1. CASE Has(d, "chain")
    <3>1. d \in Listed
      BY <2>1 DEF Listed
    <3>2. <<d>> \in Seq(Listed)
      BY <3>1
    <3> QED
      BY <2>1, <3>2 DEF Joined
  <2>2. CASE ~Has(d, "chain")
    BY <2>2, EmptySeq DEF Joined
  <2> QED
    BY <2>1, <2>2
<1>2. Joined("pic") \in Seq(Listed) /\ Joined("head") \in Seq(Listed) /\ Joined("thermal") \in Seq(Listed)
  BY <1>1, SafingAssumption
<1>3. Joined("pic") \o Joined("head") \in Seq(Listed)
  BY <1>2, ConcatProperties
<1> QED
  BY <1>2, <1>3, ConcatProperties DEF Members

\* The counters and the stores inside keep their bounds.
LEMMA CountsKept ==
  ASSUME inside \subseteq Drivers, stores \in 0..MaxStores, trips \in 0..MaxTrips,
         Next \/ UNCHANGED vars
  PROVE  inside' \subseteq Drivers /\ stores' \in 0..MaxStores /\ trips' \in 0..MaxTrips
<1>1. inside' \subseteq inside \/ \E d \in Drivers : inside' = inside \cup {d}
  <2>1. ASSUME NEW d \in Drivers, EnterStore(d) PROVE inside' = inside \cup {d}
    BY <2>1 DEF EnterStore
  <2>2. ASSUME NEW d, LeaveStore(d) PROVE inside' \subseteq inside
    BY <2>2 DEF LeaveStore
  <2>3. CASE ThermalStore \/ HeadStores \/ PicStoreEnd
    BY <2>2, <2>3 DEF ThermalStore, HeadStores, PicStoreEnd
  <2>4. CASE \/ Manage \/ RemovePic \/ RemoveHead \/ RemoveThermal
             \/ \E d \in Drivers : ProbeStep(d) \/ AbortStep(d)
             \/ PicStoreBegin \/ Brightness \/ BusTransfer \/ Work \/ Heater
             \/ Trip \/ HandlePic \/ HandleHead \/ HandleThermal \/ UNCHANGED vars
    <3>1. inside' = inside
      BY <2>4 DEF vars, Manage, RemovePic, RemoveHead, RemoveThermal, ProbeStep, AbortStep,
        PicStoreBegin, Brightness, BusTransfer, Work, Heater, Trip, HandlePic, HandleHead, HandleThermal, Handle
    <3> QED
      BY <3>1
  <2> QED
    BY <2>1, <2>3, <2>4 DEF Next
<1>2. stores' = stores \/ (stores < MaxStores /\ stores' = stores + 1)
  BY DEF Next, vars, Manage, RemovePic, RemoveHead, RemoveThermal, ProbeStep, AbortStep, EnterStore,
         LeaveStore, ThermalStore, HeadStores, PicStoreBegin, PicStoreEnd, Brightness, BusTransfer, Work,
         Heater,
         Trip, HandlePic, HandleHead, HandleThermal, Handle
<1>3. trips' = trips \/ (trips < MaxTrips /\ trips' = trips + 1)
  BY DEF Next, vars, Manage, RemovePic, RemoveHead, RemoveThermal, ProbeStep, AbortStep, EnterStore,
         LeaveStore, ThermalStore, HeadStores, PicStoreBegin, PicStoreEnd, Brightness, BusTransfer, Work,
         Heater,
         Trip, HandlePic, HandleHead, HandleThermal, Handle
<1>4. inside' \subseteq Drivers
  BY <1>1
<1>5. stores' \in 0..MaxStores /\ trips' \in 0..MaxTrips
  BY <1>2, <1>3, SafingAssumption
<1> QED
  BY <1>4, <1>5

\* Nobody is on the chain when the module is loaded, ...
LEMMA ComingInit == Init => ComingInv
<1> SUFFICES ASSUME Init PROVE ComingInv
  OBVIOUS
<1>1. BringSafe
  BY BringSafeInit DEF Init
<1>2. WalkInv
  BY EmptySeq DEF Init, WalkInv
<1>3. PointerKept
  BY DEF Init, BringInit, PointerKept, Has
<1>4. inside \subseteq Drivers /\ stores \in 0..MaxStores /\ trips \in 0..MaxTrips
  <2>1. inside = {} /\ stores = 0 /\ trips = 0
    BY DEF Init
  <2> QED
    BY <2>1, SafingAssumption
<1> QED
  BY <1>1, <1>2, <1>3, <1>4 DEF ComingInv

\* ... and every step keeps what is known of the drivers and the chain.
LEMMA ComingStep == ComingInv /\ [Next]_vars => ComingInv'
<1> SUFFICES ASSUME ComingInv, [Next]_vars PROVE ComingInv'
  OBVIOUS
<1>0. BringSafe /\ WalkInv /\ PointerKept
  BY DEF ComingInv
<1>1. inside' \subseteq Drivers /\ stores' \in 0..MaxStores /\ trips' \in 0..MaxTrips
  BY CountsKept DEF ComingInv
<1>2. CASE ModuleStep /\ UNCHANGED walk
  <2>1. held' = held
    BY <1>2 DEF ModuleStep, LoadModule, Register, Loaded, FailLoad, Unload, Unregister, DropRoot
  <2>2. Listed' = Listed
    BY <2>1 DEF Listed, Has
  <2> QED
    BY <1>0, <1>1, <1>2, <2>1, <2>2, ModuleKeeps DEF ComingInv, WalkInv, PointerKept, Has
<1>3. ASSUME NEW d \in Drivers, MovesOffWalk(d) PROVE ComingInv'
  <2>1. Moves(d) /\ UNCHANGED walk
    BY <1>3 DEF MovesOffWalk
  <2>2. BringSafe' /\ PointerKept'
    BY <1>0, <2>1, MoveKeeps, ThreeTables, MoveKeepsChain
  <2>3. WalkInv'
    <3>1. CASE walk = <<>>
      BY <2>1, <3>1, EmptySeq DEF WalkInv
    <3>2. CASE walk # <<>>
      <4>1. ~("chain" \in held[d] /\ "chain" \notin held'[d])
        BY <1>0, <1>3, <2>1, <3>2, MoveKeepsChain DEF MovesOffWalk
      <4>2. Listed \subseteq Listed'
        BY <1>0, <2>1, <4>1, MoveKeepsChain DEF Listed, Has
      <4>3. walk \in Seq(Listed')
        BY <1>0, <4>2 DEF WalkInv
      <4> QED
        BY <2>1, <4>3 DEF WalkInv
    <3> QED
      BY <3>1, <3>2
  <2> QED
    BY <1>1, <2>2, <2>3 DEF ComingInv
<1>4. CASE WalksOn
  <2>1. held' = held /\ Listed' = Listed
    BY <1>4 DEF WalksOn, bringVars, Listed, Has
  <2>2. BringSafe' /\ PointerKept'
    BY <1>0, <1>4, <2>1, ModuleKeeps DEF WalksOn, PointerKept, Has
  <2>3. walk' \in Seq(Listed)
    <3>1. walk # <<>> => Tail(walk) \in Seq(Listed)
      BY <1>0 DEF WalkInv
    <3> QED
      BY <1>0, <1>4, <3>1, MembersListed DEF WalksOn, WalkInv
  <2> QED
    BY <1>1, <2>1, <2>2, <2>3 DEF ComingInv, WalkInv
<1> QED
  BY <1>2, <1>3, <1>4, LivesAndWalks

\* The drivers behind the switch come and go without a loss, with the chain and their
\* stores at work, for any number of each (the probes, their labels and the removes of
\* pic.c, head.c and thermal.c).
THEOREM SafingInvariance == Spec => []Inv
<1>1. Init => ThermalInit /\ HeadInit /\ PicInit
  BY DEF Init
<1>2. [Next]_vars => [ThermalNext]_thermalVars /\ [HeadNext]_headVars /\ [PicNext]_picVars
  BY StepsOfParts, StutterOfParts DEF PartSteps
<1>3. HeatInv /\ HeadInv /\ BusInv /\ ComingInv => Inv
  BY LaddersExact
  DEF HeatInv, HeadInv, BusInv, BusTyped, ComingInv, BringSafe, Inv, TypeOK
<1> QED
  BY <1>1, <1>2, <1>3, HeatInvInit, HeatInvStep, HeadInvInit, HeadInvStep, BusInvInit,
     BusInvStep, ComingInit, ComingStep, PTL DEF Spec

\* The chain calls a handler only on a driver that has its data, its driver data pointer
\* and, for the heat sources, its pins: whoever leaves waits for the walk, and leaves the
\* chain before it lets go of what its handler uses (the removes, src/notifiers.h).
THEOREM LiveHandlers == Spec => []HandlersOnLiveDrivers
<1>1. ComingInv => HandlersOnLiveDrivers
  <2> SUFFICES ASSUME ComingInv, NEW d \in Drivers, Called(d)
               PROVE  /\ Has(d, "data") /\ Has(d, "drvdata")
                      /\ d = "thermal" => Has(d, "gpios")
    BY DEF HandlersOnLiveDrivers
  <2>1. walk \in Seq(Listed) /\ walk # <<>> /\ walk[1] = d
    BY DEF ComingInv, WalkInv, Called
  <2>2. Has(d, "chain")
    BY <2>1 DEF Listed
  <2>3. UsersFirst(d, held[d])
    BY DEF ComingInv, BringSafe, OnLadder
  <2>4. "chain" \in held[d] \cap CallsIn
    BY <2>2 DEF CallsIn, Has
  <2>5. "data" \in held[d] /\ (d = "thermal" => "gpios" \in held[d])
    BY <2>3, <2>4 DEF UsersFirst
  <2> QED
    BY <2>2, <2>5 DEF ComingInv, PointerKept, Has
<1> QED
  BY ComingInit, ComingStep, <1>1, PTL DEF Spec

-----------------------------------------------------------------------------
(* A trip ends.  Fairness is stated with a guard in the place of ENABLED,  *)
(* which no prover takes.  For the head and the heat sources the guard is  *)
(* exact: a handler that is called can always take its next step.  The     *)
(* PIC's waits for the mutex of the bus and for its own transfer, and what *)
(* is assumed is that both come; Fairness has instead that the bus carries *)
(* out its transfers and the holders of the mutex finish, and TLC checks   *)
(* TripsEnd from that.                                                     *)

ChainRuns ==
  /\ []([]Called("pic") => <><<HandlePic>>_vars)
  /\ []([]Called("head") => <><<HandleHead>>_vars)
  /\ []([]Called("thermal") => <><<HandleThermal>>_vars)

\* A walk goes through the members in the order they joined.
Walks == {<<"pic", "head", "thermal">>, <<"pic", "head">>, <<"pic", "thermal">>,
          <<"pic">>, <<"head", "thermal">>, <<"head">>, <<"thermal">>, <<>>}

\* Where a walk is, and where it gets once the first handler has returned.
OnPic == Called("pic")
OnHead == Called("head")
OnThermal == Called("thermal")
Over == walk = <<>>

\* What is left of a walk when its first handler has returned.
LEMMA WalkTails ==
  /\ Tail(<<"pic", "head", "thermal">>) = <<"head", "thermal">>
  /\ Tail(<<"pic", "head">>) = <<"head">>
  /\ Tail(<<"pic", "thermal">>) = <<"thermal">>
  /\ Tail(<<"head", "thermal">>) = <<"thermal">>
  /\ Tail(<<"pic">>) = <<>> /\ Tail(<<"head">>) = <<>> /\ Tail(<<"thermal">>) = <<>>
<1>1. Tail(<<"pic", "head", "thermal">>) = <<"head", "thermal">>
  OBVIOUS
<1>2. Tail(<<"pic", "head">>) = <<"head">>
  OBVIOUS
<1>3. Tail(<<"pic", "thermal">>) = <<"thermal">>
  OBVIOUS
<1>4. Tail(<<"head", "thermal">>) = <<"thermal">>
  OBVIOUS
<1>5. Tail(<<"pic">>) = <<>> /\ Tail(<<"head">>) = <<>> /\ Tail(<<"thermal">>) = <<>>
  OBVIOUS
<1> QED
  BY <1>1, <1>2, <1>3, <1>4, <1>5

LEMMA WalkOrder ==
  ASSUME NEW w \in Walks, w # <<>>
  PROVE  /\ Tail(w) \in Walks
         /\ w[1] \in {"pic", "head", "thermal"}
         /\ w[1] = "pic" => Tail(w) = <<>> \/ Tail(w)[1] \in {"head", "thermal"}
         /\ w[1] = "head" => Tail(w) = <<>> \/ Tail(w)[1] = "thermal"
         /\ w[1] = "thermal" => Tail(w) = <<>>
<1>1. CASE w = <<"pic", "head", "thermal">>
  BY <1>1, WalkTails DEF Walks
<1>2. CASE w = <<"pic", "head">>
  BY <1>2, WalkTails DEF Walks
<1>3. CASE w = <<"pic", "thermal">>
  BY <1>3, WalkTails DEF Walks
<1>4. CASE w = <<"head", "thermal">>
  BY <1>4, WalkTails DEF Walks
<1>5. CASE w = <<"pic">>
  BY <1>5, WalkTails DEF Walks
<1>6. CASE w = <<"head">>
  BY <1>6, WalkTails DEF Walks
<1>7. CASE w = <<"thermal">>
  BY <1>7, WalkTails DEF Walks
<1> QED
  BY <1>1, <1>2, <1>3, <1>4, <1>5, <1>6, <1>7 DEF Walks

\* A longer list, told by its items.
LEMMA OneMore ==
  ASSUME NEW S, NEW s \in Seq(S), NEW d \in S, NEW t \in Seq(S), Len(t) = Len(s) + 1,
         \A i \in 1..Len(s) : t[i] = s[i], t[Len(s) + 1] = d
  PROVE  s \o <<d>> = t
<1>1. /\ Append(s, d) \in Seq(S) /\ Len(Append(s, d)) = Len(s) + 1
      /\ \A i \in 1..Len(s) : Append(s, d)[i] = s[i]
      /\ Append(s, d)[Len(s) + 1] = d
  BY AppendProperties
<1>2. \A i \in 1..Len(t) : Append(s, d)[i] = t[i]
  <2>1. Len(s) \in Nat /\ 1..Len(t) = (1..Len(s)) \cup {Len(s) + 1}
    BY LenProperties
  <2> QED
    BY <1>1, <2>1
<1>3. Append(s, d) = t
  BY <1>1, <1>2, SeqEqual
<1> QED
  BY <1>3, AppendIsConcat

\* Whoever is on the chain, the members are one of these.
LEMMA MembersInOrder == Members \in Walks
<1>1. /\ Joined("pic") = <<"pic">> \/ Joined("pic") = <<>>
      /\ Joined("head") = <<"head">> \/ Joined("head") = <<>>
      /\ Joined("thermal") = <<"thermal">> \/ Joined("thermal") = <<>>
  BY DEF Joined
<1> DEFINE Names == {"pic", "head", "thermal"}
<1>2. /\ <<>> \in Seq(Names) /\ <<"pic">> \in Seq(Names) /\ <<"head">> \in Seq(Names)
      /\ <<"thermal">> \in Seq(Names) /\ <<"pic", "head">> \in Seq(Names)
      /\ <<"pic", "thermal">> \in Seq(Names) /\ <<"head", "thermal">> \in Seq(Names)
      /\ <<"pic", "head", "thermal">> \in Seq(Names)
  OBVIOUS
<1>3. "head" \in Names /\ "thermal" \in Names
  OBVIOUS
<1> HIDE DEF Names
<1>4. \A s \in Seq(Names) : s \o <<>> = s /\ <<>> \o s = s
  BY ConcatEmptySeq
<1>o. \A s \in Seq(Names), t \in Seq(Names), d \in Names :
        /\ Len(t) = Len(s) + 1
        /\ \A i \in 1..Len(s) : t[i] = s[i]
        /\ t[Len(s) + 1] = d
        => s \o <<d>> = t
  BY OneMore
<1>5. <<"pic">> \o <<"head">> = <<"pic", "head">>
  <2>1. Len(<<"pic", "head">>) = Len(<<"pic">>) + 1
    OBVIOUS
  <2>2. \A i \in 1..Len(<<"pic">>) : <<"pic", "head">>[i] = <<"pic">>[i]
    OBVIOUS
  <2>3. <<"pic", "head">>[Len(<<"pic">>) + 1] = "head"
    OBVIOUS
  <2> QED
    BY <1>2, <1>3, <1>o, <2>1, <2>2, <2>3
<1>6. <<"pic">> \o <<"thermal">> = <<"pic", "thermal">>
  <2>1. Len(<<"pic", "thermal">>) = Len(<<"pic">>) + 1
    OBVIOUS
  <2>2. \A i \in 1..Len(<<"pic">>) : <<"pic", "thermal">>[i] = <<"pic">>[i]
    OBVIOUS
  <2>3. <<"pic", "thermal">>[Len(<<"pic">>) + 1] = "thermal"
    OBVIOUS
  <2> QED
    BY <1>2, <1>3, <1>o, <2>1, <2>2, <2>3
<1>7. <<"head">> \o <<"thermal">> = <<"head", "thermal">>
  <2>1. Len(<<"head", "thermal">>) = Len(<<"head">>) + 1
    OBVIOUS
  <2>2. \A i \in 1..Len(<<"head">>) : <<"head", "thermal">>[i] = <<"head">>[i]
    OBVIOUS
  <2>3. <<"head", "thermal">>[Len(<<"head">>) + 1] = "thermal"
    OBVIOUS
  <2> QED
    BY <1>2, <1>3, <1>o, <2>1, <2>2, <2>3
<1>8. <<"pic", "head">> \o <<"thermal">> = <<"pic", "head", "thermal">>
  <2>1. Len(<<"pic", "head", "thermal">>) = Len(<<"pic", "head">>) + 1
    OBVIOUS
  <2>2. \A i \in 1..Len(<<"pic", "head">>) : <<"pic", "head", "thermal">>[i] = <<"pic", "head">>[i]
    OBVIOUS
  <2>3. <<"pic", "head", "thermal">>[Len(<<"pic", "head">>) + 1] = "thermal"
    OBVIOUS
  <2> QED
    BY <1>2, <1>3, <1>o, <2>1, <2>2, <2>3
<1>9. Joined("pic") \o Joined("head") \in {<<"pic", "head">>, <<"pic">>, <<"head">>, <<>>}
  BY <1>1, <1>2, <1>4, <1>5
<1>10. \A s \in {<<"pic", "head">>, <<"pic">>, <<"head">>, <<>>} :
         s \o <<"thermal">> \in Walks /\ s \o <<>> \in Walks
  BY <1>2, <1>4, <1>6, <1>7, <1>8 DEF Walks
<1> QED
  BY <1>1, <1>9, <1>10 DEF Members

\* The chain's semaphore is held for the walk and its handlers are called in turn.
LEMMA WalkKeepsOrder ==
  ASSUME walk \in Walks, [Next]_vars
  PROVE  walk' \in Walks
<1>1. walk' = walk \/ walk' = Members \/ (walk # <<>> /\ walk' = Tail(walk))
  BY LivesAndWalks DEF MovesOffWalk, WalksOn
<1> QED
  BY <1>1, MembersInOrder, WalkOrder

\* During a walk nobody but the called handler moves the chain's caller.
LEMMA ChainWaits ==
  ASSUME Inv, walk # <<>>, [Next]_vars
  PROVE  \/ HandlePic \/ HandleHead \/ HandleThermal
         \/ /\ walk' = walk /\ asked'[Chain] = asked[Chain]
            /\ head_at'[Chain] = head_at[Chain] /\ thermal_at'[Chain] = thermal_at[Chain]
<1>0. /\ asked \in [Users -> [dac : Int, led : Int, verify : BOOLEAN]]
      /\ head_at \in [Callers -> {"idle", "motor", "laser", "uv", "done"}]
      /\ thermal_at \in [Callers -> {"idle", "pins", "done"}]
      /\ Chain \in Users \ {Core, "task", "worker"} /\ Chain \in Callers
  BY SafingAssumption
  DEF Inv, TypeOK, PicTypeOK, HeadTypeOK, ThermalTypeOK, Users, Chain, Core
<1>1. ASSUME NEW u, u # Chain,
             (\E x : Fill(u, x)) \/ Finish(u) \/ UNCHANGED asked
      PROVE  asked'[Chain] = asked[Chain]
  BY <1>0, <1>1 DEF Fill, Finish
<1>2. CASE Manage \/ \E d \in Drivers : EnterStore(d)
  BY <1>2 DEF Manage, EnterStore, picVars, busVars, headVars, thermalVars
<1>3. CASE RemovePic \/ \E d \in Drivers : ProbeStep(d)
  <2>1. UNCHANGED <<headVars, walk>> /\ thermal_at' = thermal_at
    BY <1>3 DEF RemovePic, ProbeStep, FreshDuty, ClaimPins, thermalVars
  <2>2. (\E x : Fill(Core, x)) \/ Finish(Core) \/ UNCHANGED asked
    BY <1>3 DEF RemovePic, ProbeStep, MakeSafeBegin, MakeSafeEnd, ValuesBegin,
                ValuesEnd, LedsOff, LedSet, picVars, busVars
  <2> QED
    BY <1>0, <1>1, <2>1, <2>2 DEF thermalVars, headVars
<1>4. CASE RemoveHead
  <2>1. UNCHANGED <<thermalVars, picVars, walk>>
    BY <1>4 DEF RemoveHead
  <2>2. SafeStart(Core) \/ (\E o \in Outputs : SafeWrite(Core, o)) \/ UNCHANGED headVars
    BY <1>4 DEF RemoveHead, Outputs
  <2>3. head_at'[Chain] = head_at[Chain]
    BY <1>0, <2>2 DEF SafeStart, SafeWrite, headVars
  <2> QED
    BY <2>1, <2>3 DEF thermalVars, picVars, busVars
<1>5. CASE RemoveThermal
  <2>1. UNCHANGED <<headVars, picVars, walk>>
    BY <1>5 DEF RemoveThermal
  <2>2. SafeDuty(Core) \/ SafePins(Core) \/ UNCHANGED thermalVars
    BY <1>5 DEF RemoveThermal
  <2>3. thermal_at'[Chain] = thermal_at[Chain]
    BY <1>0, <2>2 DEF SafeDuty, SafePins, thermalVars
  <2> QED
    BY <2>1, <2>3 DEF headVars, picVars, busVars
<1>6. CASE \E d \in Drivers : AbortStep(d)
  BY <1>6 DEF AbortStep, LedsOff, LedSet, thermalVars, headVars, picVars, busVars
<1>7. CASE ThermalStore \/ HeadStores \/ Heater
  BY <1>7
  DEF ThermalStore, HeadStores, Heater, LeaveStore, HeaterPwmStore, TecStore, HeaterTimer,
      HeadStore, thermalVars, headVars, picVars, busVars
<1>8. CASE PicStoreBegin \/ PicStoreEnd \/ Brightness \/ BusTransfer \/ Work
  <2>1. UNCHANGED <<thermalVars, headVars, walk>>
    BY <1>8 DEF PicStoreBegin, PicStoreEnd, Brightness, BusTransfer, Work, LeaveStore
  <2>2. \E u \in {"task", "worker"} :
          (\E x : Fill(u, x)) \/ Finish(u) \/ UNCHANGED asked
    BY <1>8 DEF PicStoreBegin, PicStoreEnd, Brightness, BusTransfer, Work, StoreBegin,
                StoreEnd, WorkBegin, WorkEnd, Transfer, LedSet, busVars
  <2> QED
    BY <1>0, <1>1, <2>1, <2>2 DEF thermalVars, headVars
<1>9. CASE UNCHANGED vars
  BY <1>9 DEF vars, thermalVars, headVars, picVars, busVars
<1>10. ~Trip
  BY DEF Trip
<1> QED
  BY <1>2, <1>3, <1>4, <1>5, <1>6, <1>7, <1>8, <1>9, <1>10 DEF Next

\* The PIC's handler: the exchange begins, and its end is the handler's.
LEMMA PicReturns ==
  ASSUME Inv, walk \in Walks, OnPic, HandlePic
  PROVE  IF asked[Chain] = Nothing THEN OnPic' /\ asked'[Chain] # Nothing
                                   ELSE OnHead' \/ OnThermal' \/ Over'
<1>1. asked \in [Users -> [dac : Int, led : Int, verify : BOOLEAN]] /\ Chain \in Users
  BY SafingAssumption DEF Inv, TypeOK, PicTypeOK, Users
<1>2. CASE Handle("pic", FALSE) /\ MakeSafeBegin(Chain)
  BY <1>1, <1>2, RequestFacts DEF Handle, MakeSafeBegin, Fill, OnPic, Called
<1>3. CASE Handle("pic", TRUE) /\ MakeSafeEnd(Chain)
  <2>1. asked[Chain] # Nothing /\ walk' = Tail(walk)
    BY <1>3, RequestFacts DEF MakeSafeEnd, Handle
  <2>2. walk # <<>> /\ walk[1] = "pic"
    BY DEF OnPic, Called
  <2>3. Tail(walk) = <<>> \/ Tail(walk)[1] \in {"head", "thermal"}
    BY <2>2, WalkOrder
  <2> QED
    BY <2>1, <2>3 DEF OnHead, OnThermal, Over, Called
<1> QED
  BY <1>2, <1>3 DEF HandlePic

\* The head's handler: from the start of head_make_safe() through its three writes.
HeadLeft == [idle |-> 4, done |-> 4, motor |-> 3, laser |-> 2, uv |-> 1]
OnHeadAt(k) == OnHead /\ HeadLeft[head_at[Chain]] = k

LEMMA HeadReturns ==
  ASSUME Inv, walk \in Walks, NEW k \in 1..4, OnHeadAt(k), HandleHead
  PROVE  IF k = 1 THEN OnThermal' \/ Over' ELSE OnHeadAt(k - 1)'
<1>0. /\ head_at \in [Callers -> {"idle", "motor", "laser", "uv", "done"}]
      /\ Chain \in Callers
  BY SafingAssumption DEF Inv, TypeOK, HeadTypeOK
<1>1. OnHead /\ HeadLeft[head_at[Chain]] = k
  BY DEF OnHeadAt
<1>2. CASE Handle("head", FALSE) /\ SafeStart(Chain)
  <2>1. head_at[Chain] \in {"idle", "done"} /\ head_at'[Chain] = "motor"
    BY <1>0, <1>2 DEF SafeStart
  <2>2. k = 4
    BY <1>1, <2>1 DEF HeadLeft
  <2> QED
    BY <1>1, <1>2, <2>1, <2>2 DEF Handle, OnHeadAt, OnHead, Called, HeadLeft
<1>3. ASSUME NEW o \in Outputs, SafeWrite(Chain, o),
             Handle("head", head_at'[Chain] = "done")
      PROVE  IF k = 1 THEN OnThermal' \/ Over' ELSE OnHeadAt(k - 1)'
  <2>1. head_at[Chain] = o /\ head_at'[Chain] = Following[o]
    BY <1>0, <1>3 DEF SafeWrite
  <2>2. CASE o = "uv"
    <3>1. k = 1 /\ walk' = Tail(walk)
      BY <1>1, <1>3, <2>1, <2>2 DEF HeadLeft, Following, Handle
    <3>2. walk # <<>> /\ walk[1] = "head"
      BY <1>1 DEF OnHead, Called
    <3>3. Tail(walk) = <<>> \/ Tail(walk)[1] = "thermal"
      BY <3>2, WalkOrder
    <3> QED
      BY <3>1, <3>3 DEF OnThermal, Over, Called
  <2>3. CASE o # "uv"
    <3>1. o = "motor" \/ o = "laser"
      BY <2>3 DEF Outputs
    <3>2. k = HeadLeft[o] /\ k # 1 /\ HeadLeft[head_at'[Chain]] = k - 1
      BY <1>1, <2>1, <3>1 DEF HeadLeft, Following
    <3>3. walk' = walk
      BY <1>3, <2>1, <3>1 DEF Handle, Following
    <3> QED
      BY <1>1, <3>2, <3>3 DEF OnHeadAt, OnHead, Called
  <2> QED
    BY <2>2, <2>3
<1> QED
  BY <1>2, <1>3 DEF HandleHead

\* The heat sources' handler: the duty cycle, then the pins.
LEMMA ThermalReturns ==
  ASSUME Inv, walk \in Walks, OnThermal, HandleThermal
  PROVE  IF thermal_at[Chain] = "pins" THEN Over'
                                       ELSE OnThermal' /\ thermal_at'[Chain] = "pins"
<1>0. thermal_at \in [Callers -> {"idle", "pins", "done"}] /\ Chain \in Callers
  BY SafingAssumption DEF Inv, TypeOK, ThermalTypeOK
<1>1. walk # <<>> /\ walk[1] = "thermal"
  BY DEF OnThermal, Called
<1>2. CASE Handle("thermal", FALSE) /\ SafeDuty(Chain)
  BY <1>0, <1>1, <1>2 DEF Handle, SafeDuty, OnThermal, Called
<1>3. CASE Handle("thermal", TRUE) /\ SafePins(Chain)
  BY <1>1, <1>3, WalkOrder DEF Handle, SafePins, Over
<1> QED
  BY <1>2, <1>3 DEF HandleThermal

\* A trip reaches the end of the chain: each handler called goes through its steps and
\* returns, whatever stores, probes, removes and failing transfers come in between, and
\* the next one is called (src/notifiers.h, the make-safe functions).
THEOREM TripsReachTheEnd == Spec /\ ChainRuns => TripsEnd
<1> DEFINE Kept == Inv /\ walk \in Walks
           Pic1 == OnPic /\ asked[Chain] = Nothing
           Pic2 == OnPic /\ asked[Chain] # Nothing
           Head4 == OnHeadAt(4)
           Head3 == OnHeadAt(3)
           Head2 == OnHeadAt(2)
           Head1 == OnHeadAt(1)
           Heat1 == OnThermal /\ thermal_at[Chain] # "pins"
           Heat2 == OnThermal /\ thermal_at[Chain] = "pins"
<1>1. Spec => []Kept
  <2>1. Init => walk \in Walks
    BY DEF Init, Walks
  <2>2. walk \in Walks /\ [Next]_vars => (walk \in Walks)'
    BY WalkKeepsOrder
  <2> QED
    BY <2>1, <2>2, SafingInvariance, PTL DEF Spec
<1>2. Kept /\ OnHead => Head1 \/ Head2 \/ Head3 \/ Head4
  <2>1. Kept => head_at[Chain] \in {"idle", "motor", "laser", "uv", "done"}
    BY SafingAssumption DEF Inv, TypeOK, HeadTypeOK
  <2> QED
    BY <2>1 DEF OnHeadAt, HeadLeft
<1>3. Kept => \/ Over \/ Pic1 \/ Pic2 \/ OnHead \/ Heat1 \/ Heat2
  BY WalkOrder DEF Over, OnPic, OnHead, OnThermal, Called
<1>4. ASSUME Kept, walk # <<>>, [Next]_vars
      PROVE  /\ ~HandlePic /\ OnPic => OnPic' /\ asked'[Chain] = asked[Chain]
             /\ ~HandleHead /\ OnHead =>
                  OnHead' /\ head_at'[Chain] = head_at[Chain]
             /\ ~HandleThermal /\ OnThermal =>
                  OnThermal' /\ thermal_at'[Chain] = thermal_at[Chain]
  <2>1. /\ HandlePic => OnPic
        /\ HandleHead => OnHead
        /\ HandleThermal => OnThermal
    BY DEF HandlePic, HandleHead, HandleThermal, Handle, OnPic, OnHead, OnThermal
  <2> QED
    BY <1>4, <2>1, ChainWaits DEF OnPic, OnHead, OnThermal, Called
<1>5. /\ Kept /\ Pic1 /\ [Next]_vars => Pic1' \/ Pic2'
      /\ Kept /\ Pic2 /\ [Next]_vars => Pic2' \/ OnHead' \/ OnThermal' \/ Over'
      /\ Kept /\ Pic1 /\ <<HandlePic>>_vars => Pic2'
      /\ Kept /\ Pic2 /\ <<HandlePic>>_vars => OnHead' \/ OnThermal' \/ Over'
  BY <1>4, PicReturns DEF OnPic, Called
<1>6. /\ Kept /\ Head4 /\ [Next]_vars => Head4' \/ Head3'
      /\ Kept /\ Head3 /\ [Next]_vars => Head3' \/ Head2'
      /\ Kept /\ Head2 /\ [Next]_vars => Head2' \/ Head1'
      /\ Kept /\ Head1 /\ [Next]_vars => Head1' \/ OnThermal' \/ Over'
      /\ Kept /\ Head4 /\ <<HandleHead>>_vars => Head3'
      /\ Kept /\ Head3 /\ <<HandleHead>>_vars => Head2'
      /\ Kept /\ Head2 /\ <<HandleHead>>_vars => Head1'
      /\ Kept /\ Head1 /\ <<HandleHead>>_vars => OnThermal' \/ Over'
  <2>1. ASSUME NEW k \in 1..4, Kept, OnHeadAt(k), [Next]_vars, ~HandleHead
        PROVE  OnHeadAt(k)'
    BY <1>4, <2>1 DEF OnHeadAt, OnHead, Called
  <2>2. ASSUME NEW k \in 2..4, Kept, OnHeadAt(k), HandleHead PROVE OnHeadAt(k - 1)'
    BY <2>2, HeadReturns
  <2>3. ASSUME Kept, OnHeadAt(1), HandleHead PROVE OnThermal' \/ Over'
    BY <2>3, HeadReturns
  <2>4. \A k \in 2..4 : Kept /\ OnHeadAt(k) /\ HandleHead => OnHeadAt(k - 1)'
    BY <2>2
  <2>5. \A k \in 1..4 : Kept /\ OnHeadAt(k) /\ [Next]_vars => OnHeadAt(k)' \/ HandleHead
    BY <2>1
  <2>6. /\ Kept /\ OnHeadAt(4) /\ HandleHead => OnHeadAt(3)'
        /\ Kept /\ OnHeadAt(3) /\ HandleHead => OnHeadAt(2)'
        /\ Kept /\ OnHeadAt(2) /\ HandleHead => OnHeadAt(1)'
    <3> HIDE DEF Kept
    <3>1. 4 - 1 = 3 /\ 3 - 1 = 2 /\ 2 - 1 = 1
      OBVIOUS
    <3> QED
      BY <2>4, <3>1
  <2> QED
    BY <2>3, <2>5, <2>6
<1>7. /\ Kept /\ Heat1 /\ [Next]_vars => Heat1' \/ Heat2'
      /\ Kept /\ Heat2 /\ [Next]_vars => Heat2' \/ Over'
      /\ Kept /\ Heat1 /\ <<HandleThermal>>_vars => Heat2'
      /\ Kept /\ Heat2 /\ <<HandleThermal>>_vars => Over'
  BY <1>4, ThermalReturns DEF OnThermal, Called
<1>8. /\ Pic1 \/ Pic2 => Called("pic")
      /\ Head1 \/ Head2 \/ Head3 \/ Head4 => Called("head")
      /\ Heat1 \/ Heat2 => Called("thermal")
  BY DEF OnPic, OnHeadAt, OnHead, OnThermal
<1>9. OnThermal => Heat1 \/ Heat2
  OBVIOUS
<1> HIDE DEF Kept, Pic1, Pic2, Head1, Head2, Head3, Head4, Heat1, Heat2
<1>10. Spec /\ ChainRuns => (Heat1 ~> Over) /\ (Heat2 ~> Over)
  BY <1>1, <1>7, <1>8, PTL DEF Spec, ChainRuns
<1>11. Spec /\ ChainRuns => (OnThermal ~> Over)
  BY <1>9, <1>10, PTL
<1>12. Spec /\ ChainRuns => /\ Head1 ~> (OnThermal \/ Over)
                            /\ Head2 ~> Head1
                            /\ Head3 ~> Head2
                            /\ Head4 ~> Head3
  BY <1>1, <1>6, <1>8, PTL DEF Spec, ChainRuns
<1>13. Spec /\ ChainRuns => (OnHead ~> Over)
  BY <1>1, <1>2, <1>11, <1>12, PTL
<1>14. Spec /\ ChainRuns => (Pic1 ~> Pic2) /\ (Pic2 ~> (OnHead \/ OnThermal \/ Over))
  BY <1>1, <1>5, <1>8, PTL DEF Spec, ChainRuns
<1>15. Spec /\ ChainRuns => (walk # <<>> ~> Over)
  BY <1>1, <1>3, <1>10, <1>11, <1>13, <1>14, PTL
<1> QED
  BY <1>15, PTL DEF Over, TripsEnd
=============================================================================
