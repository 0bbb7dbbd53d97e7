--------------------------- MODULE LedSmoothProofs ----------------------------
(***************************************************************************)
(* The smooth trigger for every set-point, speed and pulse period and any  *)
(* number of writers: the teardown order, the wake-ups, where an LED comes *)
(* to rest and where the pulse counter may be.  The spring itself is       *)
(* opaque here: all that is used of it is that a spring at rest stays.     *)
(***************************************************************************)
EXTENDS LedSmooth, TLAPS

Records == [target : Int, c : Int, on : Nat, off : Nat,
            value : Int, velocity : Int, accel : Int, counter : Int]

InRange(s) == -s.off <= s.counter /\ s.counter <= s.on
AtRest(s) == s.target = s.value /\ s.velocity = 0 /\ s.accel = 0

\* The set-point is the one asked for, or an arrival has replaced it by its own value,
\* which is near the one asked for, and nothing has moved since.
Near(s, w) == \/ s.target = Fixed(w)
              \/ AtRest(s) /\ Within(Fixed(w), s.value)

Good(s, w) == s \in Records /\ w \in Int /\ InRange(s) /\ Near(s, w)

-----------------------------------------------------------------------------
(* Fixed point.                                                            *)

\* A product with zero is zero, and every product is an integer.
LEMMA FixMulFacts ==
  /\ \A x \in Int, y \in Int : FixMul(x, y) \in Int
  /\ \A y \in Int : FixMul(0, y) = 0
  /\ \A x \in Int : FixMul(x, 0) = 0
<1>1. ASSUME NEW x \in Int, NEW y \in Int PROVE FixMul(x, y) \in Int
  <2>1. /\ x \div One \in Int /\ x % One \in Int
        /\ y \div One \in Int /\ y % One \in Int
    BY SMT DEF One
  <2>2. ASSUME NEW a \in Int, NEW b \in Int PROVE a * b \in Int
    OBVIOUS
  <2>3. ((x % One) * (y % One)) \div One \in Int
    BY <2>1, <2>2, SMT DEF One
  <2> QED
    BY <2>1, <2>2, <2>3 DEF FixMul
<1>2. 0 \div One = 0 /\ 0 % One = 0
  BY SMT DEF One
<1>3. ASSUME NEW y \in Int PROVE FixMul(0, y) = 0
  <2>1. y \div One \in Int /\ y % One \in Int
    BY SMT DEF One
  <2> QED
    BY <1>2, <2>1, SMT DEF FixMul
<1>4. ASSUME NEW x \in Int PROVE FixMul(x, 0) = 0
  <2>1. x \div One \in Int /\ x % One \in Int
    BY SMT DEF One
  <2> QED
    BY <1>2, <2>1, SMT DEF FixMul
<1> QED
  BY <1>1, <1>3, <1>4

\* The integer part of a set-point is the number that was written.
LEMMA FixedFacts ==
  /\ \A w \in Int : Fixed(w) \in Int /\ IPart(Fixed(w)) = w
  /\ Fixed(0) = 0
  /\ \A x \in Int : IPart(x) \in Int
  BY SMT DEF Fixed, IPart, One

-----------------------------------------------------------------------------
(* One step of the simulation.                                             *)

\* The pulser moves the counter within its range, and a set-point it sets is one the
\* history knows of.
LEMMA PulserKeeps ==
  ASSUME NEW s, NEW w, Good(s, w), NEW p, p = UpdatePulser(s)
  PROVE  Good(p, IF p.target # s.target THEN IPart(p.target) ELSE w)
<1>1. s.on \in Nat /\ s.off \in Nat /\ s.counter \in Int /\ s \in Records
  BY DEF Good, Records
<1>2. CASE ~Pulsing(s)
  BY <1>2 DEF UpdatePulser, Good
<1>3. ASSUME Pulsing(s) PROVE s.on >= 1 /\ s.off >= 1
  BY <1>1, <1>3 DEF Pulsing
<1>4. CASE Pulsing(s) /\ s.counter = 0
  <2>0. PICK t \in Int : t = Fixed(255)
    BY FixedFacts
  <2>1. p = [s EXCEPT !.target = t, !.counter = 1]
    BY <1>4, <2>0 DEF UpdatePulser
  <2>2. /\ p \in Records /\ p.target = Fixed(255) /\ p.counter = 1 /\ p.on = s.on
        /\ p.off = s.off /\ p.value = s.value /\ p.velocity = s.velocity /\ p.accel = s.accel
    <3>1. t \in Int /\ 1 \in Int
      BY <2>0
    <3>2. p \in Records
      BY <1>1, <2>1, <3>1 DEF Records
    <3>3. p.target = t /\ p.counter = 1
      BY <1>1, <2>1 DEF Records
    <3>4. p.on = s.on /\ p.off = s.off
      BY <1>1, <2>1 DEF Records
    <3>5. p.value = s.value /\ p.velocity = s.velocity /\ p.accel = s.accel
      BY <1>1, <2>1 DEF Records
    <3> QED
      BY <2>0, <3>2, <3>3, <3>4, <3>5
  <2>3. InRange(p)
    BY <1>1, <1>3, <1>4, <2>2 DEF InRange
  <2>4. IPart(p.target) = 255 /\ p.target = Fixed(IPart(p.target))
    BY <2>2, FixedFacts
  <2>5. p.target = s.target => Near(p, w)
    BY <2>2 DEF Good, Near, AtRest
  <2> QED
    BY <2>2, <2>3, <2>4, <2>5 DEF Good, Near
<1>5. CASE Pulsing(s) /\ s.counter # 0 /\ s.counter = s.on
  <2>1. p = [s EXCEPT !.target = 0, !.counter = 1 - s.off]
    BY <1>5 DEF UpdatePulser
  <2>2. /\ p \in Records /\ p.target = 0 /\ p.counter = 1 - s.off /\ p.on = s.on
        /\ p.off = s.off /\ p.value = s.value /\ p.velocity = s.velocity /\ p.accel = s.accel
    <3>1. 0 \in Int /\ 1 - s.off \in Int
      BY <1>1, FixedFacts
    <3>2. p \in Records
      BY <1>1, <2>1, <3>1 DEF Records
    <3>3. p.target = 0 /\ p.counter = 1 - s.off
      BY <1>1, <2>1 DEF Records
    <3>4. p.on = s.on /\ p.off = s.off
      BY <1>1, <2>1 DEF Records
    <3>5. p.value = s.value /\ p.velocity = s.velocity /\ p.accel = s.accel
      BY <1>1, <2>1 DEF Records
    <3> QED
      BY <3>2, <3>3, <3>4, <3>5
  <2>3. InRange(p)
    BY <1>1, <1>3, <1>5, <2>2 DEF InRange
  <2>4. IPart(p.target) = 0 /\ p.target = Fixed(IPart(p.target))
    BY <2>2, FixedFacts
  <2>5. p.target = s.target => Near(p, w)
    BY <2>2 DEF Good, Near, AtRest
  <2> QED
    BY <2>2, <2>3, <2>4, <2>5 DEF Good, Near
<1>6. CASE Pulsing(s) /\ s.counter # 0 /\ s.counter # s.on
  <2>1. p = [s EXCEPT !.counter = @ + 1]
    BY <1>6 DEF UpdatePulser
  <2>2. /\ p \in Records /\ p.target = s.target /\ p.counter = s.counter + 1 /\ p.on = s.on
        /\ p.off = s.off /\ p.value = s.value /\ p.velocity = s.velocity /\ p.accel = s.accel
    BY <1>1, <2>1 DEF Records
  <2>3. InRange(p)
    BY <1>1, <1>3, <1>6, <2>2 DEF InRange, Good
  <2> QED
    BY <2>2, <2>3 DEF Good, Near, AtRest
<1> QED
  BY <1>2, <1>4, <1>5, <1>6

\* The spring moves value, velocity and acceleration only, and not when at rest.
LEMMA IntegrateKeeps ==
  ASSUME NEW s \in Records
  PROVE  LET m == Integrate(s)
         IN  /\ m \in Records /\ m.target = s.target
             /\ m.on = s.on /\ m.off = s.off /\ m.counter = s.counter
             /\ AtRest(s) => AtRest(m) /\ m.value = s.value
<1> DEFINE k     == FixMul(s.c, s.c) \div 4
           accel == FixMul(s.target - s.value, k) - FixMul(s.c, s.velocity)
           half  == s.velocity + FixMul(Half(s.accel), dt)
           m     == Integrate(s)
<1>1. /\ s.c \in Int /\ s.target \in Int /\ s.value \in Int /\ s.velocity \in Int
      /\ s.accel \in Int
  BY DEF Records
<1>f. ASSUME NEW x \in Int, NEW y \in Int
      PROVE  FixMul(x, y) \in Int /\ (x = 0 \/ y = 0 => FixMul(x, y) = 0)
  BY FixMulFacts, Zenon
<1>2. k \in Int
  <2>1. FixMul(s.c, s.c) \in Int
    BY <1>1, <1>f, Zenon
  <2> QED
    BY <2>1
<1>3. accel \in Int
  <2>1. FixMul(s.target - s.value, k) \in Int
    <3>1. s.target - s.value \in Int
      BY <1>1
    <3> HIDE DEF k
    <3> QED
      BY <3>1, <1>2, <1>f, Zenon
  <2>2. FixMul(s.c, s.velocity) \in Int
    BY <1>1, <1>f, Zenon
  <2> HIDE DEF k
  <2> QED
    BY <2>1, <2>2
<1> HIDE DEF k
<1>4. Half(s.accel) \in Int /\ Half(accel) \in Int /\ dt \in Int
  <2> HIDE DEF accel
  <2> QED
    BY <1>1, <1>3 DEF Half, dt
<1>5. half \in Int
  <2>1. FixMul(Half(s.accel), dt) \in Int
    BY <1>4, <1>f, Zenon
  <2> QED
    BY <1>1, <2>1
<1>6. /\ s.value + FixMul(half, dt) \in Int
      /\ half + FixMul(Half(accel), dt) \in Int
  <2> HIDE DEF half, accel
  <2>1. FixMul(half, dt) \in Int /\ FixMul(Half(accel), dt) \in Int
    BY <1>4, <1>5, <1>f, Zenon
  <2> QED
    BY <1>1, <1>5, <2>1
<1>7. m = [s EXCEPT !.value = s.value + FixMul(half, dt),
                    !.velocity = half + FixMul(Half(accel), dt),
                    !.accel = accel]
  BY DEF Integrate, Spring, k
<1>8. AtRest(s) => accel = 0 /\ half = 0
  <2>1. ASSUME AtRest(s) PROVE accel = 0 /\ half = 0
    <3>1. s.target - s.value = 0 /\ s.velocity = 0 /\ Half(s.accel) = 0
      BY <1>1, <2>1 DEF AtRest, Half
    <3>2. FixMul(s.target - s.value, k) = 0 /\ FixMul(s.c, s.velocity) = 0
      <4>1. s.target - s.value \in Int
        BY <1>1
      <4> QED
        BY <1>1, <1>2, <3>1, <4>1, <1>f, Zenon
    <3>3. FixMul(Half(s.accel), dt) = 0
      BY <1>4, <3>1, <1>f, Zenon
    <3> QED
      BY <3>1, <3>2, <3>3
  <2> QED
    BY <2>1
<1>9. AtRest(s) => Half(accel) = 0
  BY <1>8 DEF Half
<1> HIDE DEF k, accel, half
<1>10. /\ m \in Records /\ m.target = s.target
       /\ m.on = s.on /\ m.off = s.off /\ m.counter = s.counter
       /\ m.value = s.value + FixMul(half, dt)
       /\ m.velocity = half + FixMul(Half(accel), dt) /\ m.accel = accel
  BY <1>3, <1>6, <1>7 DEF Records
<1>11. AtRest(s) => AtRest(m) /\ m.value = s.value
  <2>1. ASSUME AtRest(s) PROVE FixMul(half, dt) = 0 /\ FixMul(Half(accel), dt) = 0
    BY <1>4, <1>5, <1>8, <1>9, <1>f, <2>1, Zenon
  <2> QED
    BY <1>1, <1>5, <1>8, <1>10, <2>1 DEF AtRest
<1> QED
  BY <1>10, <1>11
\* An arrival stops the spring where it is and leaves the pulsing alone.
LEMMA RestKeeps ==
  ASSUME NEW m \in Records, NEW n, n = Rest(m)
  PROVE  /\ n \in Records /\ AtRest(n) /\ n.value = m.value
         /\ n.on = m.on /\ n.off = m.off /\ n.counter = m.counter
<1>1. n = [m EXCEPT !.target = m.value, !.velocity = 0, !.accel = 0]
  BY DEF Rest
<1>2. /\ m.value \in Int /\ m.c \in Int /\ m.on \in Nat /\ m.off \in Nat
      /\ m.counter \in Int
  BY DEF Records
<1>3. n \in Records
  <2>1. n = [target |-> m.value, c |-> m.c, on |-> m.on, off |-> m.off, value |-> m.value,
             velocity |-> 0, accel |-> 0, counter |-> m.counter]
    BY <1>1 DEF Records
  <2> QED
    BY <1>2, <2>1 DEF Records
<1>4. /\ n.target = m.value /\ n.value = m.value
      /\ n.velocity = 0 /\ n.accel = 0
  BY <1>1 DEF Records
<1>5. n.on = m.on /\ n.off = m.off /\ n.counter = m.counter
  BY <1>1 DEF Records
<1> QED
  BY <1>3, <1>4, <1>5 DEF AtRest

\* A step keeps the simulation good; one that leaves the timer unarmed leaves the spring
\* at rest and nothing pulsing.
LEMMA StepKeeps ==
  ASSUME NEW s, NEW w, Good(s, w), StepFrom(s, w)
  PROVE  /\ Good(sim', wanted')
         /\ pending \/ (AtRest(sim') /\ ~Pulsing(sim')) \/ pending'
         /\ pending => pending'
<1>1. PICK pulsed, moved :
        /\ pulsed = UpdatePulser(s) /\ moved = Integrate(pulsed)
        /\ sim' = IF Arrived(moved) THEN Rest(moved) ELSE moved
        /\ pending' = (pending \/ ~Arrived(moved))
        /\ wanted' = IF pulsed.target # s.target THEN IPart(pulsed.target) ELSE w
  <2>1. PICK pulsed \in {UpdatePulser(s)} : \E moved \in {Integrate(pulsed)} :
          /\ sim' = IF Arrived(moved) THEN Rest(moved) ELSE moved
          /\ pending' = (pending \/ ~Arrived(moved))
          /\ wanted' = IF pulsed.target # s.target THEN IPart(pulsed.target) ELSE w
    BY Zenon DEF StepFrom
  <2> QED
    BY <2>1, Zenon
<1>2. Good(pulsed, wanted')
  BY <1>1, PulserKeeps
<1>3. /\ moved \in Records /\ moved.target = pulsed.target
      /\ moved.on = pulsed.on /\ moved.off = pulsed.off /\ moved.counter = pulsed.counter
      /\ AtRest(pulsed) => AtRest(moved) /\ moved.value = pulsed.value
  BY <1>1, <1>2, IntegrateKeeps DEF Good
<1>4. Good(moved, wanted')
  BY <1>2, <1>3 DEF Good, InRange, Near
<1>5. CASE ~Arrived(moved)
  <2>1. sim' = moved /\ pending'
    BY <1>1, <1>5, Zenon
  <2> QED
    BY <1>4, <2>1
<1>6. CASE Arrived(moved)
  <2>1. sim' = Rest(moved)
    BY <1>1, <1>6
  <2>2. /\ sim' \in Records /\ AtRest(sim') /\ sim'.value = moved.value
        /\ sim'.on = moved.on /\ sim'.off = moved.off /\ sim'.counter = moved.counter
    BY <1>3, <2>1, RestKeeps
  <2>3. ~Pulsing(sim')
    BY <1>6, <2>2 DEF Arrived, Pulsing
  <2>4. Within(Fixed(wanted'), moved.value)
    <3>1. CASE moved.target = Fixed(wanted')
      BY <1>6, <3>1 DEF Arrived
    <3>2. CASE AtRest(moved) /\ Within(Fixed(wanted'), moved.value)
      BY <3>2
    <3> QED
      BY <1>4, <3>1, <3>2 DEF Good, Near
  <2>5. Good(sim', wanted')
    BY <1>4, <2>2, <2>4 DEF Good, InRange, Near
  <2>6. pending => pending'
    BY <1>1, Zenon
  <2> QED
    BY <2>2, <2>3, <2>5, <2>6
<1> QED
  BY <1>5, <1>6

SameSpring(n, s) == /\ n.target = s.target /\ n.value = s.value
                    /\ n.velocity = s.velocity /\ n.accel = s.accel

\* Setting a pulse period pulls the counter back into its range.
LEMMA PeriodsKeep ==
  ASSUME NEW s, NEW w, Good(s, w), NEW on \in Nat, NEW off \in Nat,
         NEW n, n = SetPulsePeriods(s, on, off)
  PROVE  Good(n, w) /\ SameSpring(n, s)
<1> DEFINE held == IF on # 0 /\ s.counter > on THEN on
                   ELSE IF off # 0 /\ s.counter < -off THEN 1 - off
                   ELSE s.counter
           counter == IF on = 0 \/ off = 0 THEN 0 ELSE held
<1>1. s \in Records /\ s.counter \in Int
  BY DEF Good, Records
<1>2. counter \in Int /\ -off <= counter /\ counter <= on
  BY <1>1
<1>3. n = [s EXCEPT !.on = on, !.off = off, !.counter = counter]
  BY DEF SetPulsePeriods
<1> HIDE DEF counter
<1>4. /\ n \in Records /\ n.target = s.target /\ n.value = s.value
      /\ n.velocity = s.velocity /\ n.accel = s.accel
  BY <1>1, <1>2, <1>3 DEF Records
<1>5. n.on = on /\ n.off = off /\ n.counter = counter
  BY <1>1, <1>3 DEF Records
<1> QED
  BY <1>2, <1>4, <1>5 DEF Good, InRange, Near, AtRest, SameSpring

-----------------------------------------------------------------------------
(* The trigger.                                                            *)

\* How far the deactivation has come says who may still be at the data.
LifeInv ==
  /\ life \in {"off", "on", "no attributes", "drained", "no timer"}
  /\ life \in {"drained", "no timer", "off"} => inflight = {}
  /\ life \in {"no timer", "off"} => ~pending /\ ~firing

\* With neither a queued timer nor a callback nothing is left to move.
WakeInv == life = "on" /\ ~pending /\ ~firing => AtRest(sim) /\ ~Pulsing(sim)

LedInv == LifeInv /\ WakeInv /\ Good(sim, wanted)

\* The data of a new trigger are good, and at rest.
LEMMA NewDataGood ==
  ASSUME NEW raw, ValueFromRaw(raw) \in Int, NEW n, n = NewData(raw)
  PROVE  Good(n, IPart(n.target)) /\ AtRest(n) /\ ~Pulsing(n)
<1> DEFINE v == Fixed(ValueFromRaw(raw))
<1>1. v \in Int /\ IPart(v) = ValueFromRaw(raw) /\ Fixed(16) \in Int
  BY FixedFacts
<1>2. n = [target |-> v, c |-> Fixed(16), on |-> 0, off |-> 0,
           value |-> v, velocity |-> 0, accel |-> 0, counter |-> 0]
  BY DEF NewData
<1> HIDE DEF v
<1>3. n \in Records
  BY <1>1, <1>2 DEF Records
<1>4. /\ n.target = v /\ n.value = v /\ n.velocity = 0 /\ n.accel = 0
      /\ n.on = 0 /\ n.off = 0 /\ n.counter = 0
  BY <1>2
<1>5. Fixed(IPart(v)) = v
  BY <1>1 DEF v
<1> QED
  BY <1>1, <1>3, <1>4, <1>5 DEF Good, InRange, Near, AtRest, Pulsing
\* The invariant holds when the trigger has just been registered.
LEMMA LedInvInit == Init => LedInv
<1> SUFFICES ASSUME Init PROVE LedInv
  OBVIOUS
<1>1. LifeInv
  BY Zenon DEF Init, LifeInv
<1>2. ValueFromRaw(led) \in Int
  <2>1. led \in RawLevels
    BY SMT DEF Init, RawLevels
  <2>2. ValueFromRaw(led) \in Brightness
    BY <2>1, TableAssumption, Zenon
  <2>3. Brightness \subseteq Int
    BY SMT DEF Brightness
  <2> QED
    BY <2>2, <2>3, Zenon
<1>3. sim = NewData(led) /\ wanted = IPart(sim.target)
  BY DEF Init
<1>4. Good(sim, wanted) /\ AtRest(sim) /\ ~Pulsing(sim)
  BY <1>2, <1>3, NewDataGood
<1> QED
  BY <1>1, <1>4, Zenon DEF LedInv, WakeInv

\* A step from good data wakes the timer or leaves nothing to move.
LEMMA StepWakes ==
  ASSUME NEW s, NEW w, Good(s, w), StepFrom(s, w)
  PROVE  Good(sim', wanted') /\ WakeInv'
<1>1. /\ Good(sim', wanted')
      /\ pending \/ (AtRest(sim') /\ ~Pulsing(sim')) \/ pending'
      /\ pending => pending'
  BY StepKeeps
<1>2. WakeInv'
  BY <1>1, Zenon DEF WakeInv
<1> QED
  BY <1>1, <1>2

\* While a writer is inside a store the trigger still has its attributes or waits.
LEMMA LeaveKeeps ==
  ASSUME LifeInv, NEW w, Leave(w)
  PROVE  LifeInv'
<1>1. w \in inflight /\ life' = life /\ firing' = firing
  BY DEF Leave
<1>2. life \in {"on", "no attributes"}
  BY <1>1, Zenon DEF LifeInv
<1> QED
  BY <1>1, <1>2, Zenon DEF LifeInv

\* A store of one of the four attributes.
LEMMA StoresKeep ==
  ASSUME LedInv, NEW w,
         TargetStore(w) \/ SpeedStore(w) \/ PulseStore(w) \/ RefusedStore(w)
  PROVE  LedInv'
<1>1. Leave(w)
  BY DEF TargetStore, SpeedStore, PulseStore, RefusedStore
<1>2. LifeInv'
  BY <1>1, LeaveKeeps DEF LedInv
<1>3. sim \in Records /\ wanted \in Int
  BY DEF LedInv, Good
<1>4. CASE TargetStore(w)
  <2>1. PICK t \in Targets : t <= 255 /\ StepFrom([sim EXCEPT !.target = Fixed(t)], t)
    BY <1>4 DEF TargetStore
  <2> DEFINE s == [sim EXCEPT !.target = Fixed(t)]
  <2>2. t \in Int /\ Fixed(t) \in Int
    BY LedAssumption, FixedFacts
  <2>3. s \in Records
    BY <1>3, <2>2 DEF Records
  <2>4. s.target = Fixed(t) /\ s.on = sim.on /\ s.off = sim.off /\ s.counter = sim.counter
    BY <1>3 DEF Records
  <2>5. Good(s, t)
    <3> HIDE DEF s
    <3> QED
      BY <2>2, <2>3, <2>4 DEF LedInv, Good, InRange, Near
  <2> QED
    BY <1>2, <2>1, <2>5, StepWakes DEF LedInv
<1>5. CASE SpeedStore(w)
  <2>1. PICK n \in Speeds : StepFrom([sim EXCEPT !.c = n * 1024], wanted)
    BY <1>5 DEF SpeedStore
  <2> DEFINE s == [sim EXCEPT !.c = n * 1024]
  <2>2. n * 1024 \in Int
    BY LedAssumption, SMT
  <2>3. s \in Records
    BY <1>3, <2>2 DEF Records
  <2>4. /\ s.target = sim.target /\ s.value = sim.value /\ s.velocity = sim.velocity
        /\ s.accel = sim.accel
    BY <1>3 DEF Records
  <2>5. s.on = sim.on /\ s.off = sim.off /\ s.counter = sim.counter
    BY <1>3 DEF Records
  <2>6. Good(s, wanted)
    <3> HIDE DEF s
    <3> QED
      BY <1>3, <2>3, <2>4, <2>5 DEF LedInv, Good, InRange, Near, AtRest
  <2> QED
    BY <1>2, <2>1, <2>6, StepWakes DEF LedInv
<1>6. CASE PulseStore(w)
  <2>1. PICK p \in Periods : \/ SetPeriods(SetPulsePeriods(sim, p, sim.off))
                             \/ SetPeriods(SetPulsePeriods(sim, sim.on, p))
    BY <1>6 DEF PulseStore
  <2>2. p \in Nat /\ sim.on \in Nat /\ sim.off \in Nat
    BY <1>3, LedAssumption DEF Records
  <2>3. PICK n : SetPeriods(n) /\ Good(n, wanted) /\ SameSpring(n, sim)
    <3>1. CASE SetPeriods(SetPulsePeriods(sim, p, sim.off))
      <4>1. Good(sim, wanted)
        BY DEF LedInv
      <4>2. PICK n : n = SetPulsePeriods(sim, p, sim.off)
        OBVIOUS
      <4>3. Good(n, wanted) /\ SameSpring(n, sim)
        BY <2>2, <4>1, <4>2, PeriodsKeep
      <4> QED
        BY <3>1, <4>2, <4>3, Zenon
    <3>2. CASE SetPeriods(SetPulsePeriods(sim, sim.on, p))
      <4>1. Good(sim, wanted)
        BY DEF LedInv
      <4>2. PICK n : n = SetPulsePeriods(sim, sim.on, p)
        OBVIOUS
      <4>3. Good(n, wanted) /\ SameSpring(n, sim)
        BY <2>2, <4>1, <4>2, PeriodsKeep
      <4> QED
        BY <3>2, <4>2, <4>3, Zenon
    <3> QED
      BY <2>1, <3>1, <3>2
  <2>4. CASE Pulsing(n)
    <3>1. StepFrom(n, wanted)
      BY <2>3, <2>4, Zenon DEF SetPeriods
    <3> QED
      BY <1>2, <2>3, <3>1, StepWakes DEF LedInv
  <2>5. CASE ~Pulsing(n)
    <3>1. sim' = n /\ UNCHANGED <<wanted, pending, firing, life>>
      BY <1>1, <2>3, <2>5, Zenon DEF SetPeriods, Leave
    <3>2. WakeInv'
      <4>1. AtRest(sim) => AtRest(n)
        BY <2>3 DEF AtRest, SameSpring
      <4> QED
        BY <2>5, <3>1, <4>1, Zenon DEF LedInv, WakeInv
    <3> QED
      BY <1>2, <2>3, <3>1, <3>2 DEF LedInv
  <2> QED
    BY <2>4, <2>5
<1>7. CASE RefusedStore(w)
  <2>1. UNCHANGED <<sim, wanted, pending, firing, life>>
    BY <1>1, <1>7, Zenon DEF RefusedStore, dataVars, Leave
  <2>2. WakeInv'
    BY <2>1, Zenon DEF LedInv, WakeInv
  <2> QED
    BY <1>2, <2>1, <2>2 DEF LedInv
<1> QED
  BY <1>4, <1>5, <1>6, <1>7
\* Every step of the stores, the timer, activation and deactivation keeps the invariant.
LEMMA LedInvStep == LedInv /\ [Next]_vars => LedInv'
<1> SUFFICES ASSUME LedInv, [Next]_vars PROVE LedInv'
  OBVIOUS
<1>1. ASSUME UNCHANGED <<sim, wanted, pending, firing>>, life' = "on" => life = "on", LifeInv'
      PROVE  LedInv'
  BY <1>1, Zenon DEF LedInv, WakeInv
<1>2. CASE Activate
  <2>1. led' \in RawLevels /\ sim' = NewData(led') /\ wanted' = IPart(sim'.target)
    BY <1>2, LedAssumption, Zenon DEF Activate
  <2>2. ValueFromRaw(led') \in Int
    <3>1. ValueFromRaw(led') \in Brightness
      BY <2>1, TableAssumption, Zenon
    <3>2. Brightness \subseteq Int
      BY SMT DEF Brightness
    <3> QED
      BY <3>1, <3>2, Zenon
  <2>3. Good(sim', wanted') /\ AtRest(sim') /\ ~Pulsing(sim')
    BY <2>1, <2>2, NewDataGood
  <2>4. LifeInv'
    BY <1>2, Zenon DEF Activate, LedInv, LifeInv
  <2> QED
    BY <2>3, <2>4, Zenon DEF LedInv, WakeInv
<1>3. CASE Expire
  <2>1. UNCHANGED <<life, inflight, sim, wanted>> /\ firing' /\ pending
    BY <1>3, Zenon DEF Expire, dataVars
  <2>2. LifeInv'
    BY <2>1, Zenon DEF LedInv, LifeInv
  <2>3. WakeInv'
    BY <2>1, Zenon DEF WakeInv
  <2> QED
    BY <2>1, <2>2, <2>3 DEF LedInv
<1>4. CASE Fire
  <2>1. UNCHANGED <<life, inflight>> /\ firing /\ StepFrom(sim, wanted)
    BY <1>4, Zenon DEF Fire
  <2>2. LifeInv'
    BY <2>1, Zenon DEF LedInv, LifeInv
  <2> QED
    BY <2>1, <2>2, StepWakes DEF LedInv
<1>5. ASSUME NEW w \in Writers, Enter(w) PROVE LedInv'
  <2>1. UNCHANGED <<sim, wanted, pending, firing, life>> /\ life = "on"
    BY <1>5, Zenon DEF Enter, dataVars
  <2>2. LifeInv'
    BY <2>1, Zenon DEF LedInv, LifeInv
  <2> QED
    BY <1>1, <2>1, <2>2
<1>6. ASSUME NEW w \in Writers,
             TargetStore(w) \/ SpeedStore(w) \/ PulseStore(w) \/ RefusedStore(w)
      PROVE  LedInv'
  BY <1>6, StoresKeep
<1>7. CASE StartDeactivate \/ DrainStores
  <2>1. UNCHANGED <<sim, wanted, pending, firing, inflight>>
    BY <1>7, Zenon DEF StartDeactivate, DrainStores, dataVars
  <2>2. life' = "no attributes" \/ (life' = "drained" /\ inflight = {})
    BY <1>7, Zenon DEF StartDeactivate, DrainStores
  <2>3. LifeInv'
    BY <2>1, <2>2, Zenon DEF LifeInv
  <2>4. life' # "on"
    BY <2>2
  <2> QED
    BY <1>1, <2>1, <2>3, <2>4
<1>8. CASE DeleteTimer
  <2>1. UNCHANGED <<sim, wanted, inflight>> /\ ~firing /\ firing' = firing /\ ~pending'
        /\ life = "drained" /\ life' = "no timer"
    BY <1>8, Zenon DEF DeleteTimer, dataVars
  <2>2. LifeInv'
    BY <2>1, Zenon DEF LedInv, LifeInv
  <2>3. Good(sim', wanted')
    BY <2>1 DEF LedInv
  <2>4. WakeInv'
    BY <2>1, Zenon DEF WakeInv
  <2> QED
    BY <2>2, <2>3, <2>4 DEF LedInv
<1>9. CASE Free
  <2>1. UNCHANGED <<sim, wanted, inflight, pending, firing>>
        /\ life = "no timer" /\ life' = "off"
    BY <1>9, Zenon DEF Free
  <2>2. LifeInv'
    BY <2>1, Zenon DEF LedInv, LifeInv
  <2> QED
    BY <1>1, <2>1, <2>2
<1>10. CASE UNCHANGED vars
  <2>1. UNCHANGED <<sim, wanted, pending, firing, life, inflight>>
    BY <1>10, Zenon DEF vars, dataVars
  <2>2. LifeInv'
    BY <2>1, Zenon DEF LedInv, LifeInv
  <2> QED
    BY <1>1, <2>1, <2>2
<1> QED
  BY <1>2, <1>3, <1>4, <1>5, <1>6, <1>7, <1>8, <1>9, <1>10 DEF Next, Timer
\* No store, timer or callback is left at the data when they are freed
\* (smooth_deactivate()).
THEOREM NothingLate == Spec => []NothingOnFreedData
<1>1. LedInv => NothingOnFreedData
  BY Zenon DEF LedInv, LifeInv, NothingOnFreedData
<1> QED
  BY LedInvInit, LedInvStep, <1>1, PTL DEF Spec

\* No fade and no pulse stops half way: without a timer on its way everything is at
\* rest, within the tolerance of the set-point last asked for, however many arrivals
\* have replaced the set-point by the value reached (timestep_locked(),
\* smooth_timer_cb()).
THEOREM RestsNear == Spec => []RestsNearWanted
<1>1. LedInv => RestsNearWanted
  <2> SUFFICES ASSUME LedInv, Idle PROVE RestsNearWanted
    BY Zenon DEF RestsNearWanted
  <2>1. AtRest(sim) /\ ~Pulsing(sim)
    BY Zenon DEF LedInv, WakeInv, Idle
  <2>2. Within(Fixed(wanted), sim.value)
    <3>1. CASE sim.target = Fixed(wanted)
      <4>1. Fixed(wanted) = sim.value /\ sim.value \in Int
        BY <2>1, <3>1 DEF AtRest, LedInv, Good, Records
      <4> QED
        BY <4>1 DEF Within, epsilon
    <3> QED
      BY <3>1 DEF LedInv, Good, Near
  <2> QED
    BY Zenon, <2>1, <2>2 DEF RestsNearWanted, AtRest
<1> QED
  BY LedInvInit, LedInvStep, <1>1, PTL DEF Spec

\* The pulse counter never gets past an end it is compared with for equality, whatever
\* periods are written and when (update_pulser(), set_pulse_periods()).
THEOREM CounterSafe == Spec => []CounterInRange
<1>1. LedInv => CounterInRange
  BY DEF LedInv, Good, InRange, CounterInRange
<1> QED
  BY LedInvInit, LedInvStep, <1>1, PTL DEF Spec
=============================================================================
