----------------------------- MODULE RampProofs -----------------------------
(***************************************************************************)
(* The speed of a run, for every sequence of accepted attribute values.    *)
(* The bounds rest on the EPIT rate and the ramp frequency being the same  *)
(* number whenever a ramp is under way, and on a run that is not ramping   *)
(* playing at the step frequency.                                          *)
(***************************************************************************)
EXTENDS Ramp, TLAPS

SpeedAgrees ==
  /\ accelerating => hz # 0 /\ ~decelerating /\ hz = ramp_step_freq
  /\ decelerating => hz # 0 /\ hz = ramp_step_freq
  /\ hz # 0 /\ ~accelerating /\ ~decelerating => hz = step_freq

IInv == TypeOK /\ SpeedBounded /\ SpeedAgrees

\* The two halves of TypeOK: the solvers take numbers and flags apart.
Numbers ==
  /\ step_freq \in MinFreq..MaxFreq
  /\ delta \in Nat /\ Rate \in MinRate..MaxRate
  /\ ramp_step_freq \in MinHz..MaxFreq
  /\ hz \in 0..MaxFreq
  /\ tail \in Nat

Flags == accelerating \in BOOLEAN /\ decelerating \in BOOLEAN

\* TypeOK is these two.
LEMMA TypeParts == (TypeOK <=> Numbers /\ Flags) /\ (TypeOK' <=> Numbers' /\ Flags')
  BY DEF TypeOK, Numbers, Flags

\* The order of the driver's limits, all that is used of their values.
LEMMA Limits ==
  /\ MinHz \in Nat /\ MinFreq \in Nat /\ MaxFreq \in Nat
  /\ MinRate \in Nat /\ MaxRate \in Nat
  /\ 0 < MinHz /\ MinHz < MinFreq /\ MinFreq <= MaxFreq /\ MinRate > 0
  BY SMT DEF MinHz, MinFreq, MaxFreq, MinRate, MaxRate

\* The limits that the increment's division by 100 is checked against.
LEMMA RateLimits == MinRate = 10000 /\ MaxRate = 500000
  BY SMT DEF MinRate, MaxRate

\* A rate that is accepted keeps within the limits when it is stored as an
\* increment per update and read back.
LEMMA RateReadsBack ==
  ASSUME NEW r \in Nat, r >= MinRate, r <= MaxRate
  PROVE  /\ r \div UpdatesPerSec \in Nat
         /\ (r \div UpdatesPerSec) * UpdatesPerSec \in MinRate..MaxRate
<1>1. r >= 10000 /\ r <= 500000  BY RateLimits, SMT
<1>2. /\ r \div 100 \in Nat
      /\ (r \div 100) * 100 >= 10000 /\ (r \div 100) * 100 <= 500000
  BY <1>1, SMT
<1>3. (r \div 100) * 100 \in Nat  BY <1>2, SMT
<1> DEFINE read == (r \div 100) * 100
<1>4. read \in Nat /\ read >= MinRate /\ read <= MaxRate
  BY <1>2, <1>3, RateLimits, SMT
<1> HIDE DEF read
<1>5. read \in MinRate..MaxRate  BY <1>4, Limits, SMT
<1> QED  BY <1>2, <1>5, SMT DEF read, UpdatesPerSec

\* The attributes' initial values are within the limits.
LEMMA Defaults ==
  /\ DefaultFreq \in MinFreq..MaxFreq
  /\ DefaultRate \in MinRate..MaxRate
<1>1. /\ DefaultFreq \in Int /\ DefaultFreq >= MinFreq /\ DefaultFreq <= MaxFreq
      /\ DefaultRate \in Int /\ DefaultRate >= MinRate /\ DefaultRate <= MaxRate
  BY SMT DEF DefaultFreq, DefaultRate, MinFreq, MaxFreq, MinRate, MaxRate
<1> QED  BY <1>1, Limits, SMT

\* The decrement saturates: it stays at or above the minimum, goes down, and by
\* no more than one increment.
LEMMA DownStep ==
  ASSUME TypeOK, ramp_step_freq > MinHz
  PROVE  /\ RampDown \in MinHz..ramp_step_freq
         /\ ramp_step_freq - RampDown <= delta
  BY Limits, SMT DEF TypeOK, RampDown

\* The increment ends at the step frequency, and is at most delta.
LEMMA UpStep ==
  ASSUME TypeOK, ramp_step_freq <= step_freq
  PROVE  /\ RampUp \in ramp_step_freq..step_freq
         /\ RampUp - ramp_step_freq <= delta
         /\ ramp_step_freq + delta >= step_freq => RampUp = step_freq
  BY Limits, SMT DEF TypeOK, RampUp

\* Initially nothing runs and the attributes have their defaults.
LEMMA InitIInv == Init => IInv
<1> SUFFICES ASSUME Init PROVE IInv  OBVIOUS
<1>1. TypeOK
  <2>1. delta \in Nat /\ Rate \in MinRate..MaxRate
    <3>1. /\ DefaultRate \in Nat
          /\ DefaultRate >= MinRate /\ DefaultRate <= MaxRate
      BY Defaults, Limits, SMT
    <3> QED  BY <3>1, RateReadsBack DEF Init, Rate
  <2>2. Numbers
    <3>1. DefaultFreq \in MinHz..MaxFreq  BY Defaults, Limits, SMT
    <3> QED  BY <2>1, <3>1, Defaults, Limits, SMT DEF Init, Numbers
  <2>3. Flags  BY DEF Init, Flags
  <2> QED  BY <2>2, <2>3, TypeParts
<1> QED  BY <1>1, SMT DEF Init, IInv, SpeedBounded, SpeedAgrees

\* Every attribute write, start, stop and update keeps the invariant.
LEMMA NextIInv == IInv /\ [Next]_vars => IInv'
<1> SUFFICES ASSUME IInv, [Next]_vars PROVE IInv'  OBVIOUS
<1> USE DEF IInv
<1>1. ASSUME NEW f \in Freqs, SetStepFrequency(f) PROVE IInv'
  <2>1. TypeOK'
    <3>1. Numbers'
      BY <1>1, Limits, TypeParts, SMT DEF SetStepFrequency, FreqAccepted, Numbers, Rate, flagVars
    <3>2. Flags'  BY <1>1, TypeParts DEF SetStepFrequency, FreqAccepted, Flags, flagVars
    <3> QED  BY <3>1, <3>2, TypeParts
  <2> QED  BY <1>1, <2>1, SMT DEF SetStepFrequency, FreqAccepted, flagVars,
                                  SpeedBounded, SpeedAgrees
<1>2. ASSUME NEW r \in Rates, SetRampRate(r) PROVE IInv'
  <2>1. delta' \in Nat /\ Rate' \in MinRate..MaxRate
    <3>1. r \in Nat /\ r >= MinRate /\ r <= MaxRate
      BY <1>2, Limits, SMT DEF SetRampRate, RateAccepted
    <3> QED  BY <1>2, <3>1, RateReadsBack DEF SetRampRate, Rate
  <2>2. TypeOK'
    <3>1. Numbers'
      BY <1>2, <2>1, TypeParts, SMT DEF SetRampRate, Numbers, flagVars
    <3>2. Flags'  BY <1>2, <2>1, TypeParts DEF SetRampRate, Flags, flagVars
    <3> QED  BY <3>1, <3>2, TypeParts
  <2> QED  BY <1>2, <2>2, SMT DEF SetRampRate, RateAccepted, flagVars,
                                  SpeedBounded, SpeedAgrees
<1>3. ASSUME NEW accelerate \in BOOLEAN, RunStart(accelerate) PROVE IInv'
  <2>1. TypeOK'
    <3>1. Numbers'
      BY <1>3, Limits, TypeParts, SMT DEF RunStart, Numbers, Rate, attrVars
    <3>2. Flags'  BY <1>3, TypeParts DEF RunStart, Flags, flagVars
    <3> QED  BY <3>1, <3>2, TypeParts
  <2>2. SpeedBounded'
    BY <1>3, Limits, SMT DEF RunStart, TypeOK, SpeedBounded, attrVars
  <2>3. SpeedAgrees'
    BY <1>3, Limits, SMT DEF RunStart, TypeOK, SpeedAgrees, attrVars
  <2> QED  BY <2>1, <2>2, <2>3
<1>4. CASE DecelStart
  <2>1. TypeOK'
    <3>1. Numbers'
      BY <1>4, Limits, TypeParts, SMT DEF DecelStart, DecelFrom, Numbers, Rate, attrVars
    <3>2. Flags'  BY <1>4, TypeParts DEF DecelStart, DecelFrom, Flags, flagVars
    <3> QED  BY <3>1, <3>2, TypeParts
  <2>2. SpeedBounded'
    BY <1>4, SMT DEF DecelStart, attrVars, SpeedBounded
  <2>3. SpeedAgrees'
    BY <1>4, SMT DEF DecelStart, DecelMayStart, DecelFrom, TypeOK, SpeedAgrees
  <2> QED  BY <2>1, <2>2, <2>3
<1>5. CASE Stop
  <2>1. TypeOK'
    <3>1. Numbers'
      BY <1>5, Limits, TypeParts, SMT DEF Stop, DriverStop, Numbers, Rate, attrVars
    <3>2. Flags'  BY <1>5, TypeParts DEF Stop, DriverStop, Flags, flagVars
    <3> QED  BY <3>1, <3>2, TypeParts
  <2> QED  BY <1>5, <2>1, SMT DEF Stop, DriverStop, SpeedBounded, SpeedAgrees
<1>6. CASE DecelUpdate
  <2>1. CASE ramp_step_freq <= MinHz
    <3>1. TypeOK'
      <4>1. Numbers'
        BY <1>6, <2>1, Limits, TypeParts, SMT DEF DecelUpdate, DriverStop, Numbers, Rate, attrVars
      <4>2. Flags'  BY <1>6, <2>1, TypeParts DEF DecelUpdate, DriverStop, Flags, flagVars
      <4> QED  BY <4>1, <4>2, TypeParts
    <3> QED  BY <1>6, <2>1, <3>1, SMT
             DEF DecelUpdate, DriverStop, SpeedBounded, SpeedAgrees
  <2>2. CASE ramp_step_freq > MinHz
    <3>1. /\ ramp_step_freq' = RampDown /\ hz' = RampDown
          /\ tail' = tail + hz
          /\ step_freq' = step_freq /\ delta' = delta
      BY <1>6, <2>2, Limits, SMT DEF DecelUpdate, TypeOK, attrVars
    <3>0. ~(ramp_step_freq <= MinHz)
      BY <2>2, TypeParts, Limits, SMT DEF Numbers
    <3>2. accelerating' = accelerating /\ decelerating' = decelerating
      BY <1>6, <3>0 DEF DecelUpdate, flagVars
    <3>3. RampDown \in MinHz..ramp_step_freq /\ hz = ramp_step_freq
      BY <1>6, <2>2, DownStep, SMT DEF DecelUpdate, SpeedAgrees
    <3>4. /\ step_freq' \in MinFreq..MaxFreq
          /\ delta' \in Nat /\ Rate' \in MinRate..MaxRate
          /\ ramp_step_freq' \in MinHz..MaxFreq
          /\ hz' \in 0..MaxFreq /\ tail' \in Nat
      BY <3>1, <3>3, TypeParts, Limits, SMT DEF Numbers, Rate
    <3>5. TypeOK'  BY <3>2, <3>4 DEF TypeOK
    <3>6. SpeedBounded'
      BY <3>1, <3>3, <1>6, Limits, SMT
      DEF DecelUpdate, SpeedBounded, SpeedAgrees, TypeOK
    <3>7. SpeedAgrees'
      BY <3>1, <3>2, <3>3, <1>6, Limits, SMT
      DEF DecelUpdate, SpeedAgrees, TypeOK
    <3> QED  BY <3>5, <3>6, <3>7
  <2> QED  BY <2>1, <2>2, Limits, SMT DEF TypeOK
<1>7. CASE AccelUpdate
  <2>1. /\ ramp_step_freq' = RampUp /\ hz' = RampUp
        /\ tail' = tail /\ step_freq' = step_freq /\ delta' = delta
    BY <1>7, SMT DEF AccelUpdate, attrVars
  <2>2. /\ accelerating' = (ramp_step_freq + delta < step_freq)
        /\ accelerating /\ ~decelerating /\ ~decelerating'
    BY <1>7, SMT DEF AccelUpdate, TypeOK
  <2>3. hz = ramp_step_freq /\ hz # 0 /\ ramp_step_freq <= step_freq
    BY <2>2, SMT DEF SpeedAgrees, SpeedBounded
  <2>4. /\ RampUp \in ramp_step_freq..step_freq
        /\ ramp_step_freq + delta >= step_freq => RampUp = step_freq
    BY <2>3, UpStep
  <2>5. /\ step_freq' \in MinFreq..MaxFreq
        /\ delta' \in Nat /\ Rate' \in MinRate..MaxRate
        /\ ramp_step_freq' \in MinHz..MaxFreq
        /\ hz' \in 0..MaxFreq /\ tail' \in Nat
    BY <2>1, <2>4, TypeParts, Limits, SMT DEF Numbers, Rate
  <2>6. TypeOK'
    <3>1. Flags'
      <4>1. (ramp_step_freq + delta < step_freq) \in BOOLEAN  BY SMT
      <4>2. decelerating' = decelerating  BY <1>7 DEF AccelUpdate
      <4> QED  BY <2>2, <4>1, <4>2, TypeParts, Zenon DEF Flags
    <3>2. Numbers'  BY <2>5 DEF Numbers
    <3> QED  BY <3>1, <3>2, TypeParts
  <2>7. SpeedBounded'
    BY <2>1, <2>3, <2>4, Limits, SMT DEF SpeedBounded, TypeOK
  <2>8. SpeedAgrees'
    <3>1. hz' = ramp_step_freq' /\ ~decelerating'  BY <2>1, <2>2
    <3>2. hz' # 0
      BY <2>1, <2>3, <2>4, Limits, SMT DEF SpeedBounded, TypeOK
    <3>3. ~accelerating' => hz' = step_freq'
      <4>1. ~accelerating' => RampUp = step_freq
        <5>1. ~accelerating' => ~(ramp_step_freq + delta < step_freq)
          BY <2>2, Zenon
        <5>2. ~(ramp_step_freq + delta < step_freq)
                => ramp_step_freq + delta >= step_freq
          BY TypeParts, Limits, SMT DEF Numbers
        <5> QED  BY <2>4, <5>1, <5>2
      <4> QED  BY <2>1, <4>1
    <3> QED  BY <3>1, <3>2, <3>3 DEF SpeedAgrees
  <2> QED  BY <2>6, <2>7, <2>8
<1>8. CASE UNCHANGED vars
  BY <1>8, SMT
  DEF vars, attrVars, flagVars, TypeOK, Rate, SpeedBounded, SpeedAgrees
<1> QED  BY <1>1, <1>2, <1>3, <1>4, <1>5, <1>6, <1>7, <1>8 DEF Next

\* The invariant holds throughout, whatever is written to the attributes.
THEOREM Invariance == Spec => []IInv
<1> QED  BY InitIInv, NextIInv, PTL DEF Spec

\* Registers and attributes stay within their limits, and a run's speed between the
\* ramp minimum and the step frequency: the decrement never underflows and the
\* increment never overshoots.
THEOREM SpeedStaysBounded == Spec => []Inv
<1>1. IInv => Inv  BY DEF IInv, Inv
<1> QED  BY <1>1, Invariance, PTL

\* One step changes the speed of a run that goes on by at most one increment.
LEMMA StepIsSmall ==
  ASSUME IInv, [Next]_vars, hz # 0, hz' # 0
  PROVE  hz' - hz \in (0 - delta)..delta
<1> USE DEF IInv
<1>0. hz \in Int /\ delta \in Nat /\ MinHz \in Nat
  BY Limits, SMT DEF TypeOK
<1>1. CASE hz' = hz  BY <1>1, <1>0, SMT
<1>2. CASE DecelUpdate
  <2>1. ramp_step_freq > MinHz
    BY <1>2, Limits, SMT DEF DecelUpdate, DriverStop, TypeOK
  <2>2. hz' = RampDown /\ hz = ramp_step_freq
    BY <1>2, <2>1, Limits, SMT DEF DecelUpdate, SpeedAgrees, TypeOK
  <2>3. RampDown \in MinHz..ramp_step_freq /\ ramp_step_freq - RampDown <= delta
    BY <2>1, DownStep
  <2> QED  BY <2>2, <2>3, <1>0, SMT
<1>3. CASE AccelUpdate
  <2>1. hz = ramp_step_freq /\ ramp_step_freq <= step_freq /\ hz' = RampUp
    BY <1>3, SMT DEF AccelUpdate, SpeedAgrees, SpeedBounded
  <2>2. RampUp \in ramp_step_freq..step_freq /\ RampUp - ramp_step_freq <= delta
    BY <2>1, UpStep
  <2>3. step_freq \in Int  BY Limits, SMT DEF TypeOK
  <2> QED  BY <2>1, <2>2, <2>3, <1>0, SMT
<1>4. hz' = hz \/ DecelUpdate \/ AccelUpdate
  <2>1. ASSUME NEW f \in Freqs, SetStepFrequency(f) PROVE hz' = hz
    BY <2>1 DEF SetStepFrequency
  <2>2. ASSUME NEW r \in Rates, SetRampRate(r) PROVE hz' = hz
    BY <2>2 DEF SetRampRate
  <2>3. ASSUME NEW accelerate \in BOOLEAN, RunStart(accelerate) PROVE FALSE
    BY <2>3 DEF RunStart
  <2>4. CASE DecelStart  BY <2>4 DEF DecelStart
  <2>5. CASE Stop  BY <2>5 DEF Stop, DriverStop
  <2>6. CASE UNCHANGED vars  BY <2>6 DEF vars
  <2> QED  BY <2>1, <2>2, <2>3, <2>4, <2>5, <2>6 DEF Next
<1> QED  BY <1>1, <1>2, <1>3, <1>4

\* cnc.c: "Don't suddenly jump the step frequency".
THEOREM SpeedStepsBounded == Spec => SpeedNeverJumps
<1>1. IInv /\ [Next]_vars
        => [hz # 0 /\ hz' # 0 => hz' - hz \in (0 - delta)..delta]_vars
  BY StepIsSmall
<1> QED  BY <1>1, Invariance, PTL DEF Spec, SpeedNeverJumps

-----------------------------------------------------------------------------
(* What a deceleration plays.  With the increment delta and the speed v a    *)
(* deceleration has come down to, 2 delta tail + (v + delta)^2 never grows,  *)
(* until the speed saturates at the minimum: the discrete sum of the speeds  *)
(* against v^2/2a.                                                           *)

Twice == 2 * delta

\* What that sum may be: its value after the interval at full speed.
Cap == Twice * step_freq + step_freq * step_freq

SlowedTo(v) ==
  \/ tail = 0
  \/ v > MinHz /\ Twice * tail + (v + delta) * (v + delta) <= Cap
  \/ v = MinHz /\ Twice * tail <= Cap

TailInv ==
  /\ hz # 0 /\ ~decelerating => tail = 0
  /\ decelerating => SlowedTo(ramp_step_freq)
  /\ Twice * tail <= Cap + Twice * MinHz

\* Products of natural numbers keep the order of their factors.
LEMMA TimesKeepsOrder ==
  ASSUME NEW a \in Nat, NEW b \in Nat, NEW c \in Nat, a <= b
  PROVE  /\ c * a \in Nat /\ c * b \in Nat /\ c * a <= c * b
         /\ a * a <= b * b
<1>1. c * a \in Nat /\ c * b \in Nat  BY SMT
<1>2. c * a <= c * b  BY SMT
<1>3. a * a <= b * b
  <2>1. a * a <= a * b  BY SMT
  <2>2. a * b <= b * b  BY SMT
  <2>3. a * a \in Nat /\ a * b \in Nat /\ b * b \in Nat  BY SMT
  <2> QED  BY <2>1, <2>2, <2>3, SMT
<1> QED  BY <1>1, <1>2, <1>3

\* A positive factor of both sides can be taken out.
LEMMA FactorOut ==
  ASSUME NEW a \in Int, NEW b \in Int, NEW c \in Nat, c > 0, c * a <= c * b
  PROVE  a <= b
<1> SUFFICES ASSUME a >= b + 1 PROVE FALSE  BY SMT
<1>1. c * (a - b) >= c  BY SMT
<1>2. c * (a - b) = c * a - c * b  BY SMT
<1>3. c * a \in Int /\ c * b \in Int  BY SMT
<1> QED  BY <1>1, <1>2, <1>3, SMT

\* The first interval, at any speed up to the full one.
LEMMA FirstInterval ==
  ASSUME NEW d \in Nat, NEW f \in Nat, NEW v \in Nat, v <= f
  PROVE  2 * d * v + v * v <= 2 * d * f + f * f
<1>1. /\ (2 * d) * v \in Nat /\ (2 * d) * f \in Nat /\ (2 * d) * v <= (2 * d) * f
      /\ v * v <= f * f
  <2>1. 2 * d \in Nat  BY SMT
  <2> QED  BY <2>1, TimesKeepsOrder
<1>2. v * v \in Nat /\ f * f \in Nat  BY SMT
<1> QED  BY <1>1, <1>2, SMT

\* One interval more, at the speed before the decrement.
LEMMA NextInterval ==
  ASSUME NEW d \in Nat, NEW t \in Nat, NEW v \in Nat, NEW c \in Nat,
         2 * d * t + (v + d) * (v + d) <= c
  PROVE  2 * d * (t + v) + v * v <= c
<1>1. (v + d) * (v + d) = v * v + 2 * (d * v) + d * d  BY SMT
<1>2. 2 * d * (t + v) = 2 * (d * t) + 2 * (d * v)  BY SMT
<1>3. 2 * d * t = 2 * (d * t)  BY SMT
<1>4. d * t \in Nat /\ d * v \in Nat /\ d * d \in Nat /\ v * v \in Nat  BY SMT
<1> QED  BY <1>1, <1>2, <1>3, <1>4, SMT

\* The sum's value is a number, and grows with the tail.
LEMMA CapIsNat ==
  ASSUME TypeOK
  PROVE  /\ Twice \in Nat /\ Twice * tail \in Nat /\ Cap \in Nat
         /\ Twice * MinHz \in Nat
<1>1. delta \in Nat /\ step_freq \in Nat /\ tail \in Nat /\ MinHz \in Nat
  BY Limits, SMT DEF TypeOK
<1>2. Twice \in Nat  BY <1>1, SMT DEF Twice
<1>3. /\ Twice * tail \in Nat /\ Twice * step_freq \in Nat
      /\ Twice * MinHz \in Nat /\ step_freq * step_freq \in Nat
  BY <1>1, <1>2, SMT
<1> QED  BY <1>2, <1>3, SMT DEF Cap

\* A tail of nothing is within any bound.
LEMMA NoTail == TypeOK /\ tail = 0 => TailInv
<1> SUFFICES ASSUME TypeOK, tail = 0 PROVE TailInv  OBVIOUS
<1>1. /\ Twice \in Nat /\ Cap \in Nat /\ Twice * MinHz \in Nat  BY CapIsNat
<1>2. Twice * tail = 0  BY <1>1, SMT
<1>3. SlowedTo(ramp_step_freq)  BY DEF SlowedTo
<1>4. Twice * tail <= Cap + Twice * MinHz  BY <1>1, <1>2, SMT
<1> QED  BY <1>3, <1>4 DEF TailInv

\* An interval of a deceleration that goes on.
LEMMA IntervalPlayed ==
  ASSUME IInv, TailInv, decelerating, ramp_step_freq > MinHz,
         tail' = tail + hz, ramp_step_freq' = RampDown, hz' = RampDown,
         delta' = delta, step_freq' = step_freq
  PROVE  SlowedTo(ramp_step_freq)' /\ Twice' * tail' <= Cap'
<1> DEFINE d == delta  v == ramp_step_freq  f == step_freq
<1>1. /\ d \in Nat /\ v \in Nat /\ f \in Nat /\ tail \in Nat /\ MinHz \in Nat
      /\ hz = v /\ v <= f /\ hz # 0 /\ TypeOK
  BY Limits, SMT DEF IInv, TypeOK, SpeedAgrees, SpeedBounded
<1>2. Cap \in Nat /\ Cap = 2 * d * f + f * f /\ Cap' = Cap /\ Twice' = Twice
  BY <1>1, CapIsNat, SMT DEF Cap, Twice
<1>3. Twice * tail' + v * v <= Cap
  <2>1. CASE tail = 0
    <3>1. tail' = v  BY <2>1, <1>1, SMT
    <3>2. 2 * d * v + v * v <= 2 * d * f + f * f  BY <1>1, FirstInterval
    <3> QED  BY <3>1, <3>2, <1>2 DEF Twice
  <2>2. CASE tail # 0
    <3>1. 2 * d * tail + (v + d) * (v + d) <= Cap
      <4>1. v # MinHz  BY <1>1, SMT
      <4> QED  BY <4>1, <2>2 DEF TailInv, SlowedTo, Twice
    <3>2. 2 * d * (tail + v) + v * v <= Cap
      BY <3>1, <1>1, <1>2, NextInterval
    <3> QED  BY <3>2, <1>1 DEF Twice
  <2> QED  BY <2>1, <2>2
<1>4. tail' \in Nat /\ Twice \in Nat /\ Twice * tail' \in Nat /\ v * v \in Nat
  <2>1. tail' \in Nat /\ Twice \in Nat  BY <1>1, SMT DEF Twice
  <2> QED  BY <2>1, <1>1, SMT
<1>5. Twice * tail' <= Cap  BY <1>3, <1>4, <1>2, SMT
<1>6. CASE v > MinHz + d
  <2>1. ramp_step_freq' = v - d  BY <1>6 DEF RampDown
  <2>2. v - d > MinHz /\ (v - d) + d = v  BY <1>6, <1>1, SMT
  <2>3. ramp_step_freq' > MinHz /\ ramp_step_freq' + delta' = v
    BY <2>1, <2>2
  <2> QED  BY <2>3, <1>2, <1>3, <1>5 DEF SlowedTo
<1>7. CASE ~(v > MinHz + d)
  <2>1. ramp_step_freq' = MinHz  BY <1>7 DEF RampDown
  <2> QED  BY <2>1, <1>2, <1>5 DEF SlowedTo
<1> QED  BY <1>6, <1>7

\* The last interval, at the minimum, whose end stops the run.
LEMMA LastInterval ==
  ASSUME IInv, TailInv, decelerating, ramp_step_freq <= MinHz,
         tail' = tail + hz, delta' = delta, step_freq' = step_freq
  PROVE  Twice' * tail' <= Cap' + Twice' * MinHz
<1>1. /\ delta \in Nat /\ step_freq \in Nat /\ tail \in Nat /\ MinHz \in Nat
      /\ hz = ramp_step_freq /\ hz = MinHz /\ TypeOK
  BY Limits, SMT DEF IInv, TypeOK, SpeedAgrees
<1>2. /\ Cap \in Nat /\ Twice \in Nat /\ Twice * tail \in Nat
      /\ Twice * MinHz \in Nat
  BY <1>1, CapIsNat
<1>3. Cap' = Cap /\ Twice' = Twice  BY DEF Cap, Twice
<1>4. Twice * tail <= Cap
  <2>1. tail = 0 => Twice * tail = 0  BY <1>2, SMT
  <2>2. ~(ramp_step_freq > MinHz)  BY <1>1, SMT
  <2> QED  BY <2>1, <2>2, <1>2, SMT DEF TailInv, SlowedTo
<1>5. Twice * tail' = Twice * tail + Twice * MinHz  BY <1>1, <1>2, SMT
<1> QED  BY <1>2, <1>3, <1>4, <1>5, SMT

\* Every step keeps the bound on the tail.
LEMMA NextTailInv == IInv /\ TailInv /\ [Next]_vars => TailInv'
<1> SUFFICES ASSUME IInv, TailInv, [Next]_vars PROVE TailInv'  OBVIOUS
<1>0. TypeOK' /\ IInv'  BY NextIInv DEF IInv
<1>z. ASSUME tail' = 0 PROVE TailInv'
  <2>1. (TypeOK /\ tail = 0)'  BY <1>0, <1>z
  <2> QED  BY <2>1, NoTail, PTL
<1>1. ASSUME NEW f \in Freqs, SetStepFrequency(f) PROVE TailInv'
  BY <1>1, <1>z DEF SetStepFrequency
<1>2. ASSUME NEW r \in Rates, SetRampRate(r) PROVE TailInv'
  BY <1>2, <1>z DEF SetRampRate
<1>3. ASSUME NEW accelerate \in BOOLEAN, RunStart(accelerate) PROVE TailInv'
  BY <1>3, <1>z DEF RunStart
<1>4. CASE DecelStart
  <2>1. tail' = 0
    BY <1>4 DEF DecelStart, DecelMayStart, TailInv
  <2> QED  BY <2>1, <1>z
<1>5. CASE Stop
  <2>1. /\ hz' = 0 /\ ~decelerating' /\ Twice' * tail' <= Cap' + Twice' * MinHz
    BY <1>5 DEF Stop, DriverStop, attrVars, TailInv, Twice, Cap
  <2> QED  BY <2>1 DEF TailInv
<1>6. CASE DecelUpdate
  <2>1. decelerating /\ tail' = tail + hz /\ delta' = delta /\ step_freq' = step_freq
    BY <1>6 DEF DecelUpdate, attrVars
  <2>2. CASE ramp_step_freq <= MinHz
    <3>1. hz' = 0 /\ ~decelerating'  BY <1>6, <2>2 DEF DecelUpdate, DriverStop
    <3>2. Twice' * tail' <= Cap' + Twice' * MinHz  BY <2>1, <2>2, LastInterval
    <3> QED  BY <3>1, <3>2 DEF TailInv
  <2>3. CASE ~(ramp_step_freq <= MinHz)
    <3>1. ramp_step_freq' = RampDown /\ hz' = RampDown /\ decelerating' = decelerating
      BY <1>6, <2>3 DEF DecelUpdate, flagVars
    <3>2. ramp_step_freq > MinHz  BY <2>3, Limits, SMT DEF IInv, TypeOK
    <3>3. SlowedTo(ramp_step_freq)' /\ Twice' * tail' <= Cap'
      BY <2>1, <3>1, <3>2, IntervalPlayed
    <3>4. Twice' * tail' <= Cap' + Twice' * MinHz
      <4>1. Twice' \in Nat /\ Twice' * tail' \in Nat /\ Cap' \in Nat
              /\ Twice' * MinHz \in Nat
        <5>1. TypeOK'  BY <1>0
        <5>2. (Twice \in Nat /\ Twice * tail \in Nat /\ Cap \in Nat
                /\ Twice * MinHz \in Nat)'
          BY <5>1, CapIsNat, PTL
        <5> QED  BY <5>2
      <4> QED  BY <3>3, <4>1, SMT
    <3> QED  BY <2>1, <3>1, <3>3, <3>4 DEF TailInv
  <2> QED  BY <2>2, <2>3
<1>7. CASE AccelUpdate
  <2>1. tail' = 0
    <3>1. accelerating /\ ~decelerating /\ tail' = tail
      BY <1>7 DEF AccelUpdate
    <3>2. hz # 0  BY <3>1 DEF IInv, SpeedAgrees
    <3> QED  BY <3>1, <3>2 DEF TailInv
  <2> QED  BY <2>1, <1>z
<1>8. CASE UNCHANGED vars
  BY <1>8 DEF vars, attrVars, flagVars, TailInv, SlowedTo, Twice, Cap
<1> QED  BY <1>1, <1>2, <1>3, <1>4, <1>5, <1>6, <1>7, <1>8 DEF Next

\* The bound holds throughout.
LEMMA TailInvariance == Spec => [](IInv /\ TailInv)
<1>1. Init => IInv /\ TailInv
  <2>1. Init => IInv  BY InitIInv
  <2>2. Init => tail = 0  BY DEF Init
  <2> QED  BY <2>1, <2>2, NoTail DEF IInv
<1> QED  BY <1>1, NextIInv, NextTailInv, PTL DEF Spec

-----------------------------------------------------------------------------
(* The budget against the sum.                                               *)

\* The remainder of a division is less than the divisor.
LEMMA DivisionDrops ==
  ASSUME NEW n \in Nat, NEW m \in Nat, m > 0
  PROVE  n \div m \in Nat /\ n < m * (n \div m) + m
  BY SMT

\* The registers hold a product of 26 bits, as 32-bit ones do.
RegistersFit == Word > 67108864

\* The tail's product of a frequency and its kHz, up to 200 kHz, is below 2^26:
\* it stays inside a 32-bit register.
LEMMA ProductExact ==
  ASSUME NEW f \in Nat, NEW khz \in Nat, f <= MaxFreq, khz <= 200,
         RegistersFit
  PROVE  f * khz \in Nat /\ (f * khz) % Word = f * khz
<1>1. f * khz \in Nat /\ f * khz <= 40000000
  <2>1. f * khz <= 200000 * khz  BY SMT DEF MaxFreq
  <2>2. f * khz \in Nat  BY SMT
  <2> QED  BY <2>1, <2>2, SMT
<1> DEFINE product == f * khz
<1>2. product \in Nat /\ product < Word
  BY <1>1, WordAssumption, SMT DEF RegistersFit
<1> HIDE DEF product
<1>3. product % Word = product  BY <1>2, WordAssumption, SMT
<1> QED  BY <1>2, <1>3 DEF product

\* The increment is at least a hundred: what the lowest rate is stored as.
LEMMA IncrementPositive ==
  ASSUME TypeOK
  PROVE  delta \in Nat /\ delta * 100 >= 10000 /\ delta > 0
<1>1. delta \in Nat /\ Rate \in MinRate..MaxRate  BY DEF TypeOK
<1>2. Rate >= MinRate  BY <1>1, Limits, SMT
<1>3. delta * 100 >= 10000  BY <1>2, RateLimits DEF Rate, UpdatesPerSec
<1> QED  BY <1>1, <1>3, SMT

\* The tail's divisor, without its factor of two, is a tenth of the increment,
\* rounded down, and not zero.
PerKilohertz == Rate \div 1000

LEMMA PerIsPositive ==
  ASSUME TypeOK
  PROVE  PerKilohertz \in Nat /\ PerKilohertz > 0 /\ 10 * PerKilohertz <= delta
<1>1. delta \in Nat /\ delta * 100 >= 10000  BY IncrementPositive
<1>2. /\ (delta * 100) \div 1000 \in Nat /\ (delta * 100) \div 1000 > 0
      /\ 10 * ((delta * 100) \div 1000) <= delta
  BY <1>1, SMT
<1> QED  BY <1>2 DEF PerKilohertz, Rate, UpdatesPerSec

\* The quotient, with the unit that the division drops, covers v^2/2a.
LEMMA QuotientCovers ==
  ASSUME NEW f \in Nat, NEW khz \in Nat, NEW per \in Nat, NEW d \in Nat,
         NEW q \in Nat, per > 0, f <= 1000 * khz, 10 * per <= d,
         f * khz < (2 * per) * q + 2 * per
  PROVE  f * f <= 2 * d * (100 * q + 100)
<1>1. f * f <= 1000 * (f * khz)
  <2>1. 1000 * khz \in Nat  BY SMT
  <2>2. f * f <= f * (1000 * khz)  BY <2>1, TimesKeepsOrder
  <2>3. f * (1000 * khz) = 1000 * (f * khz)  BY SMT
  <2> QED  BY <2>2, <2>3
<1>2. f * khz <= 2 * (per * (q + 1))
  <2>1. (2 * per) * q + 2 * per = 2 * (per * (q + 1))  BY SMT
  <2>2. per * (q + 1) \in Nat /\ f * khz \in Nat  BY SMT
  <2> QED  BY <2>1, <2>2, SMT
<1>3. 10 * (per * (q + 1)) <= (q + 1) * d
  <2>1. 10 * per \in Nat /\ q + 1 \in Nat  BY SMT
  <2>2. (q + 1) * (10 * per) <= (q + 1) * d  BY <2>1, TimesKeepsOrder
  <2>3. (q + 1) * (10 * per) = 10 * (per * (q + 1))  BY SMT
  <2> QED  BY <2>2, <2>3
<1>4. 2 * d * (100 * q + 100) = 200 * ((q + 1) * d)  BY SMT
<1>5. /\ per * (q + 1) \in Nat /\ (q + 1) * d \in Nat
      /\ f * khz \in Nat /\ f * f \in Nat
  BY SMT
<1> QED  BY <1>1, <1>2, <1>3, <1>4, <1>5, SMT

\* A frequency's kHz, rounded up.
LEMMA Kilohertz ==
  ASSUME NEW f \in Nat, f <= MaxFreq
  PROVE  /\ (f + 999) \div 1000 \in Nat /\ (f + 999) \div 1000 <= 200
         /\ f <= 1000 * ((f + 999) \div 1000)
  BY SMT DEF MaxFreq

\* cnc_backtrack.h: "Scaled through kHz so the product stays inside 32 bits".
\* Up to STEP_FREQUENCY_MAX, the highest that step_freq accepts, it stays below
\* 2^26, so the tail is computed from an exact product.
THEOREM ProductFits ==
  ASSUME NEW f \in Nat, f <= MaxFreq, RegistersFit
  PROVE  (f * ((f + 999) \div 1000)) % Word = f * ((f + 999) \div 1000)
<1> DEFINE khz == (f + 999) \div 1000
<1>1. khz \in Nat /\ khz <= 200  BY Kilohertz
<1> HIDE DEF khz
<1>2. (f * khz) % Word = f * khz  BY <1>1, ProductExact
<1> QED  BY <1>2 DEF khz

\* cnc_backtrack_decel_steps() at the attributes' values: nothing wraps, and
\* the divisor is not raised to one.
LEMMA TailIsQuotient ==
  ASSUME TypeOK, RegistersFit
  PROVE  \E khz \in Nat, q \in Nat :
           /\ step_freq <= 1000 * khz
           /\ step_freq * khz < (2 * PerKilohertz) * q + 2 * PerKilohertz
           /\ Budget = 100 * q
<1>1. step_freq \in Nat /\ step_freq <= MaxFreq  BY Limits, SMT DEF TypeOK
<1>2. PICK khz : khz = (step_freq + 999) \div 1000  OBVIOUS
<1>3. khz \in Nat /\ khz <= 200 /\ step_freq <= 1000 * khz
  BY <1>1, <1>2, Kilohertz
<1>4. PICK product : product = step_freq * khz  OBVIOUS
<1>5. product \in Nat /\ product % Word = product
  BY <1>1, <1>3, <1>4, ProductExact
<1>6. 2 * PerKilohertz \in Nat /\ 2 * PerKilohertz > 0 /\ PerKilohertz # 0
  BY PerIsPositive, SMT
<1>7. PICK q : q = product \div (2 * PerKilohertz)  OBVIOUS
<1>8. q \in Nat /\ product < (2 * PerKilohertz) * q + 2 * PerKilohertz
  BY <1>5, <1>6, <1>7, DivisionDrops
<1>9. DecelTail(step_freq, Rate) = q
  BY <1>2, <1>4, <1>5, <1>6, <1>7 DEF DecelTail, PerKilohertz
<1> QED  BY <1>3, <1>4, <1>8, <1>9 DEF Budget

\* The budget in hundredths of a byte, for every frequency and rate that the
\* attributes accept.
LEMMA BudgetCovers ==
  ASSUME TypeOK, RegistersFit
  PROVE  /\ Budget \in Nat
         /\ step_freq * step_freq <= Twice * (Budget + 100)
<1>1. PICK khz \in Nat, q \in Nat :
        /\ step_freq <= 1000 * khz
        /\ step_freq * khz < (2 * PerKilohertz) * q + 2 * PerKilohertz
        /\ Budget = 100 * q
  BY TailIsQuotient
<1>2. PerKilohertz \in Nat /\ PerKilohertz > 0 /\ 10 * PerKilohertz <= delta
  BY PerIsPositive
<1>3. delta \in Nat /\ step_freq \in Nat  BY Limits, SMT DEF TypeOK
<1>4. step_freq * step_freq <= 2 * delta * (100 * q + 100)
  BY <1>1, <1>2, <1>3, QuotientCovers
<1> QED  BY <1>1, <1>4, SMT DEF Twice

\* cnc_backtrack.h holds a tail back so that a run "always ramps down instead of
\* hitting the dead stop".  A deceleration from any accepted speed at any
\* accepted rate, started by a waypoint or a stop command, during an
\* acceleration or not, plays at most that tail, plus one interval at the full
\* speed, one at the minimum, and the byte the division drops.
THEOREM TailStaysNear ==
  ASSUME RegistersFit
  PROVE  Spec => []TailNearBudget
<1>1. ASSUME IInv, TailInv PROVE TailNearBudget
  <2>1. TypeOK  BY <1>1 DEF IInv
  <2>2. /\ step_freq \in Nat /\ tail \in Nat /\ MinHz \in Nat
        /\ delta \in Nat /\ delta > 0
    <3>1. step_freq \in Nat /\ tail \in Nat /\ MinHz \in Nat
      BY <2>1, Limits, SMT DEF TypeOK
    <3> QED  BY <2>1, <3>1, IncrementPositive
  <2>3. Budget \in Nat /\ step_freq * step_freq <= Twice * (Budget + 100)
    BY <2>1, BudgetCovers
  <2>4. /\ Twice \in Nat /\ Twice > 0 /\ Twice * tail \in Nat
        /\ Twice * MinHz \in Nat
    BY <2>1, <2>2, CapIsNat, SMT DEF Twice
  <2>5. /\ step_freq * step_freq \in Nat /\ Twice * step_freq \in Nat
        /\ Twice * (Budget + 100) \in Nat
    BY <2>2, <2>3, <2>4, SMT
  <2>6. Twice * tail <= Twice * step_freq + step_freq * step_freq + Twice * MinHz
    BY <1>1 DEF TailInv, Cap
  <2> DEFINE bound == Budget + step_freq + MinHz + 100
  <2>7. Twice * bound
          = Twice * (Budget + 100) + Twice * step_freq + Twice * MinHz
    BY <2>2, <2>3, <2>4, SMT
  <2>8. Twice * tail <= Twice * bound
    BY <2>3, <2>4, <2>5, <2>6, <2>7, SMT
  <2>9. bound \in Int  BY <2>2, <2>3, SMT
  <2> HIDE DEF bound
  <2>10. tail <= bound
    BY <2>2, <2>4, <2>8, <2>9, FactorOut, SMT
  <2> QED  BY <2>10 DEF TailNearBudget, bound
<1> QED  BY <1>1, TailInvariance, PTL
=============================================================================
