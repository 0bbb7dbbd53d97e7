--------------------------- MODULE SdmaScriptProofs ---------------------------
(***************************************************************************)
(* What the pulse script keeps for every job, of any length, with any      *)
(* power levels and steps, however it is stopped, retraced and resumed,    *)
(* and that its port writes make up the bytes of module Playback.          *)
(***************************************************************************)
EXTENDS SdmaScript, FiniteSetTheorems, TLAPS

USE DEF hostVars

\* Where the two ends are.  The tail is the end of the data in a forward run
\* and, while a backward run may still play, its dead stop; a byte counted as
\* played lies between the head and the end the run came from.
Ends ==
  /\ dir = 1 => tail = Len(data) /\ played <= head
  /\ Backward => head < Len(data) /\ played < Len(data) - head
  /\ Backward /\ (running \/ ~Waiting) => tail = 0

\* Between its two port writes the script holds a step byte that is not played.
MidByte == place = "dir" => dir # 0 /\ head # tail /\ ~IsPower(Byte)

\* A backward run plays the byte under the head and leaves the one it ends on,
\* so what it keeps constant is the position without the byte under the head.
Drift ==
  IF Backward
  THEN x - Path(head) - StepOf(head + 1) \in (1 - 2 * retraces)..(2 * retraces - 1)
  ELSE x - Path(head) \in (-2 * retraces)..(2 * retraces)

\* The laser bits in r3 are stale only until the first step byte of the run.
Dark == inhibit \/ Backward
OnlyPower == \A i \in 1..played : IsPower(Before(i))
Stale == Dark /\ reg_fire => OnlyPower

\* Parked, the laser bits are low in the register and on the port.
ParkedLow == dir = 0 => ~reg_fire /\ ~port_fire

\* What the context says of the request while the run has not parked.
Lead ==
  dir # 0 =>
    /\ Backward <=> request.kind = "backtrack"
    /\ request.kind = "run" => ~inhibit
    /\ request.kind = "resume" =>
         /\ waypoint = (IF played < request.num_steps
                        THEN request.num_steps - played ELSE 0)
         /\ inhibit <=> request.num_steps = 0 \/ played < request.num_steps

IInv == /\ TypeOK /\ Ends /\ MidByte /\ Drift
        /\ Stale /\ GlitchOnlyFirst /\ ParkedLow /\ Lead

-----------------------------------------------------------------------------
(* Bytes, and the path they make.                                          *)

LEMMA ByteTypes ==
  ASSUME TypeOK, NEW i \in 1..Len(data)
  PROVE  /\ data[i] \in Bytes
         /\ IsPower(data[i]) => data[i].level \in Levels
         /\ ~IsPower(data[i]) => data[i].fire \in BOOLEAN
         /\ StepOf(i) \in {-1, 0, 1}
<1>1. data[i] \in Bytes  BY DEF TypeOK
<1>2. IsPower(data[i]) => data[i].level \in Levels  BY DEF IsPower, PowerBytes
<1>3. ~IsPower(data[i]) => data[i] \in [step : {-1, 0, 1}, fire : BOOLEAN]
  BY <1>1, ScriptAssumption DEF Bytes, IsPower
<1> QED  BY <1>1, <1>2, <1>3 DEF StepOf

\* The bytes of the path that take a given step are finitely many.
LEMMA CountFinite ==
  ASSUME NEW h \in Nat, NEW s
  PROVE  /\ IsFiniteSet({i \in 1..h : StepOf(i) = s})
         /\ Cardinality({i \in 1..h : StepOf(i) = s}) \in Nat
<1>1. IsFiniteSet(1..h)  BY FS_Interval
<1>2. {i \in 1..h : StepOf(i) = s} \subseteq 1..h  OBVIOUS
<1>3. IsFiniteSet({i \in 1..h : StepOf(i) = s})  BY <1>1, <1>2, FS_Subset
<1> QED  BY <1>3, FS_CardinalityType

\* One more byte is counted exactly if it takes that step.
LEMMA CountNext ==
  ASSUME NEW h \in Nat, NEW s
  PROVE  Cardinality({i \in 1..(h + 1) : StepOf(i) = s})
         = Cardinality({i \in 1..h : StepOf(i) = s})
           + (IF StepOf(h + 1) = s THEN 1 ELSE 0)
<1> DEFINE C(k) == {i \in 1..k : StepOf(i) = s}
<1>1. IsFiniteSet(C(h)) /\ Cardinality(C(h)) \in Nat  BY CountFinite
<1>2. CASE StepOf(h + 1) = s
  <2>1. C(h + 1) = C(h) \cup {h + 1}  BY <1>2
  <2>2. h + 1 \notin C(h)  OBVIOUS
  <2>3. Cardinality(C(h) \cup {h + 1}) = Cardinality(C(h)) + 1
    BY <1>1, <2>2, FS_AddElement
  <2> QED  BY <1>2, <2>1, <2>3
<1>3. CASE StepOf(h + 1) # s
  <2>1. C(h + 1) = C(h)  BY <1>3
  <2> QED  BY <1>1, <1>3, <2>1
<1> QED  BY <1>2, <1>3

LEMMA PathType ==
  ASSUME NEW h \in Nat
  PROVE  Path(h) \in Int
<1>1. /\ Cardinality({i \in 1..h : StepOf(i) = 1}) \in Nat
      /\ Cardinality({i \in 1..h : StepOf(i) = -1}) \in Nat
  BY CountFinite
<1> QED  BY <1>1 DEF Path

\* The path grows by the step of the byte at its end.
LEMMA PathNext ==
  ASSUME TypeOK, NEW h \in Nat, h < Len(data)
  PROVE  Path(h + 1) = Path(h) + StepOf(h + 1)
<1>1. StepOf(h + 1) \in {-1, 0, 1}  BY ByteTypes
<1>2. /\ Cardinality({i \in 1..h : StepOf(i) = 1}) \in Nat
      /\ Cardinality({i \in 1..h : StepOf(i) = -1}) \in Nat
  BY CountFinite
<1>3. /\ Cardinality({i \in 1..(h + 1) : StepOf(i) = 1})
         = Cardinality({i \in 1..h : StepOf(i) = 1})
           + (IF StepOf(h + 1) = 1 THEN 1 ELSE 0)
      /\ Cardinality({i \in 1..(h + 1) : StepOf(i) = -1})
         = Cardinality({i \in 1..h : StepOf(i) = -1})
           + (IF StepOf(h + 1) = -1 THEN 1 ELSE 0)
  BY CountNext
<1> QED  BY <1>1, <1>2, <1>3 DEF Path

\* Bytes enqueued behind the play head do not move the path before it.
LEMMA PathKept ==
  ASSUME TypeOK, NEW b \in Bytes, Write(b)
  PROVE  /\ \A i \in 1..Len(data) : data'[i] = data[i] /\ StepOf(i)' = StepOf(i)
         /\ Path(head)' = Path(head)
<1>1. data' = Append(data, b) /\ head' = head  BY DEF Write
<1>2. \A i \in 1..Len(data) : data'[i] = data[i]  BY <1>1 DEF TypeOK
<1>3. \A i \in 1..Len(data) : StepOf(i)' = StepOf(i)
  BY <1>2 DEF StepOf, IsPower, PowerBytes
<1>4. \A s : {i \in 1..head : StepOf(i)' = s} = {i \in 1..head : StepOf(i) = s}
  BY <1>3 DEF TypeOK
<1>5. Path(head)' = Cardinality({i \in 1..head : StepOf(i)' = 1})
                   - Cardinality({i \in 1..head : StepOf(i)' = -1})
  BY <1>1 DEF Path
<1> QED  BY <1>2, <1>3, <1>4, <1>5 DEF Path

-----------------------------------------------------------------------------
(* Types and ends.                                                         *)

\* A run request, whichever of the three it is.
Granted(r) ==
  /\ StartRun(r)
  /\ IF r.kind = "backtrack"
     THEN r.num_steps \in 1..head /\ retraces < MaxRetraces /\ retraces' = retraces + 1
     ELSE retraces' = retraces

LEMMA RunIsGranted ==
  ASSUME Run \/ \E n \in 0..MaxLead : Resume(n) \/ Backtrack(n)
  PROVE  \E r \in Requests : Granted(r)
<1>0. MaxLead \in Nat  BY ScriptAssumption
<1>1. CASE Run
  <2>1. [kind |-> "run", num_steps |-> 0] \in Requests  BY <1>0 DEF Requests
  <2> QED  BY <1>1, <2>1 DEF Run, Granted
<1>2. ASSUME NEW n \in 0..MaxLead, Resume(n)
      PROVE  \E r \in Requests : Granted(r)
  <2>1. [kind |-> "resume", num_steps |-> n] \in Requests  BY DEF Requests
  <2> QED  BY <1>2, <2>1 DEF Resume, Granted
<1>3. ASSUME NEW n \in 0..MaxLead, Backtrack(n)
      PROVE  \E r \in Requests : Granted(r)
  <2>1. [kind |-> "backtrack", num_steps |-> n] \in Requests  BY DEF Requests
  <2> QED  BY <1>3, <2>1 DEF Backtrack, Granted
<1> QED  BY <1>1, <1>2, <1>3

\* A byte that is played lies inside the data, and the head stays there.
LEMMA Playing ==
  ASSUME TypeOK, Ends, MidByte, Power \/ SetStep
  PROVE  /\ dir \in {-1, 1} /\ head + 1 \in 1..Len(data)
         /\ head' = head + dir /\ head' \in 0..Len(data)
         /\ played' = played + 1 /\ UNCHANGED <<data, tail, dir, request, retraces>>
         /\ Backward => head > 0
         /\ ~Waiting
<1>1. /\ head # tail /\ dir # 0 /\ ~Waiting
  BY DEF Power, SetStep, Fetched, IsParked, MidByte, Waiting
<1>2. head' = head + dir /\ played' = played + 1
      /\ UNCHANGED <<data, tail, dir, request, retraces>>
  BY DEF Power, SetStep, EndByte
<1>3. dir = 1 => head < Len(data)  BY <1>1 DEF Ends, TypeOK
<1>4. Backward => head < Len(data) /\ head > 0  BY <1>1 DEF Ends, TypeOK
<1> QED  BY <1>1, <1>2, <1>3, <1>4 DEF TypeOK, Backward

\* Every byte that is enqueued is one of the kinds, and there is room for it.
LEMMA TypeStep == TypeOK /\ Ends /\ MidByte /\ [Next]_vars => TypeOK'
<1> SUFFICES ASSUME TypeOK, Ends, MidByte, [Next]_vars PROVE TypeOK'  OBVIOUS
<1>1. CASE Start  BY <1>1 DEF Start, TypeOK, contextVars, historyVars, Places
<1>2. CASE Event  BY <1>2 DEF Event, TypeOK, contextVars, historyVars, Places
<1>3. CASE Parked
  BY <1>3 DEF Parked, LinesLow, TypeOK, contextVars, historyVars, Places
<1>4. CASE DataEnd
  <2>1. dir' \in {-1, 0, 1} /\ waypoint' \in 0..MaxLead
    BY <1>4, ScriptAssumption DEF DataEnd
  <2>2. /\ reg_fire' = FALSE /\ port_fire' = FALSE /\ place' = "boot"
        /\ UNCHANGED <<data, x, head, tail, inhibit, seen, pwm, hostVars, historyVars>>
    BY <1>4 DEF DataEnd, LinesLow
  <2> QED  BY <2>1, <2>2 DEF TypeOK, historyVars, Places
<1>5. CASE Power \/ SetStep
  <2>1. head' \in 0..Len(data) /\ played' = played + 1
        /\ UNCHANGED <<data, tail, dir, request, retraces>>
    BY <1>5, Playing
  <2>2. played' \in 0..MaxBytes
    <3>1. played + 1 <= Len(data)  BY <1>5, Playing DEF Ends, TypeOK, Backward
    <3> QED  BY <2>1, <3>1, ScriptAssumption DEF TypeOK
  <2>3. waypoint' \in 0..MaxLead /\ inhibit' \in BOOLEAN
    <3>1. EndByte  BY <1>5 DEF Power, SetStep
    <3>2. waypoint \in 0..MaxLead /\ inhibit \in BOOLEAN  BY DEF TypeOK
    <3>3. waypoint' \in 0..MaxLead
      BY <3>1, <3>2, ScriptAssumption DEF EndByte, WaypointHit
    <3>4. inhibit' \in BOOLEAN  BY <3>1, Zenon DEF EndByte
    <3> QED  BY <3>3, <3>4
  <2>4. /\ seen' \in BOOLEAN /\ reg_fire' \in BOOLEAN /\ port_fire' \in BOOLEAN
        /\ place' \in Places /\ running' \in BOOLEAN /\ driven' \in BOOLEAN
    BY <1>5, Zenon DEF Power, SetStep, LaserBit, TypeOK, Places
  <2>5. pwm' \in Levels \cup {Idle}
    BY <1>5, Playing, ByteTypes DEF Power, SetStep, TypeOK, Byte
  <2>6. furthest' \in head'..Len(data') /\ held' \in Levels \cup {Idle, Unset}
    <3>1. Advance(pwm')  BY <1>5 DEF Power, SetStep
    <3>2. held' \in Levels \cup {Idle, Unset}  BY <2>5, <3>1 DEF Advance, TypeOK
    <3>3. furthest' \in head'..Len(data')
      BY <1>5, <3>1, Playing DEF Advance, TypeOK, Backward
    <3> QED  BY <3>2, <3>3
  <2>7. x' \in Int
    <3>1. CASE Power  BY <3>1 DEF Power, TypeOK
    <3>2. CASE SetStep
      <4>1. Byte.step \in {-1, 0, 1}
        <5>1. StepOf(head + 1) \in {-1, 0, 1}  BY <3>2, Playing, ByteTypes
        <5> QED  BY <3>2, <5>1 DEF StepOf, Byte, MidByte, SetStep
      <4> QED  BY <3>2, <4>1 DEF SetStep, StepTaken, TypeOK
    <3> QED  BY <1>5, <3>1, <3>2
  <2> QED  BY <2>1, <2>2, <2>3, <2>4, <2>5, <2>6, <2>7 DEF TypeOK
<1>6. CASE SetDir
  BY <1>6 DEF SetDir, TypeOK, contextVars, historyVars, Places
<1>7. ASSUME NEW b \in Bytes, Write(b) PROVE TypeOK'
  <2>1. data' \in Seq(Bytes) /\ Len(data') = Len(data) + 1 /\ Len(data') <= MaxBytes
    BY <1>7, ScriptAssumption DEF Write, TypeOK
  <2> QED  BY <1>7, <2>1 DEF Write, TypeOK, historyVars
<1>8. ASSUME NEW r \in Requests, Granted(r) PROVE TypeOK'
  <2>1. r.num_steps \in 0..MaxLead  BY DEF Requests
  <2>2. retraces' \in 0..MaxRetraces
    BY <1>8, ScriptAssumption DEF Granted, StartRun, TypeOK
  <2>3. /\ tail' \in 0..Len(data') /\ dir' \in {-1, 0, 1}
        /\ waypoint' \in 0..MaxLead /\ played' \in 0..MaxBytes
    BY <1>8, <2>1, ScriptAssumption DEF Granted, StartRun, DeadStop, TypeOK
  <2>4. pwm' \in Levels \cup {Idle} /\ held' \in Levels \cup {Idle, Unset}
    BY <1>8 DEF Granted, StartRun, PowerAtStart, TypeOK
  <2>5. inhibit' \in BOOLEAN /\ running' \in BOOLEAN /\ driven' \in BOOLEAN /\ port_fire' \in BOOLEAN
    BY <1>8, Zenon DEF Granted, StartRun, Inhibit
  <2>6. UNCHANGED <<data, x, head, seen, reg_fire, place, furthest>> /\ request' = r
    BY <1>8 DEF Granted, StartRun
  <2> QED  BY <2>2, <2>3, <2>4, <2>5, <2>6 DEF TypeOK
<1>9. CASE Stop  BY <1>9 DEF Stop, TypeOK, contextVars, historyVars
<1>10. CASE UNCHANGED vars  BY <1>10 DEF vars, TypeOK, contextVars, historyVars
<1> QED
  BY <1>1, <1>2, <1>3, <1>4, <1>5, <1>6, <1>7, <1>8, <1>9, <1>10, RunIsGranted
  DEF Next, Script, Host

\* A write moves the tail, and is refused while that is a dead stop.
LEMMA EndsStep == TypeOK /\ Ends /\ MidByte /\ Lead /\ [Next]_vars => Ends'
<1> SUFFICES ASSUME TypeOK, Ends, MidByte, Lead, [Next]_vars PROVE Ends'  OBVIOUS
<1>1. CASE Start \/ Event \/ Parked \/ SetDir
  <2>1. UNCHANGED <<data, contextVars, hostVars, historyVars>>
    BY <1>1 DEF Start, Event, Parked, SetDir
  <2>2. Backward /\ (running' \/ ~Waiting') => running \/ ~Waiting
    BY <1>1 DEF Start, Event, Parked, SetDir, Fetched, Waiting
  <2> QED  BY <2>1, <2>2 DEF Ends, Backward, contextVars, historyVars
<1>2. CASE DataEnd  BY <1>2 DEF DataEnd, Ends, Backward
<1>3. CASE Power \/ SetStep
  <2>1. /\ head' = head + dir /\ played' = played + 1 /\ ~Waiting
        /\ UNCHANGED <<data, tail, dir>>
    BY <1>3, Playing
  <2>2. dir' = 1 => tail' = Len(data') /\ played' <= head'
    BY <2>1 DEF Ends, TypeOK
  <2>3. Backward' => head' < Len(data') /\ played' < Len(data') - head'
    BY <2>1 DEF Ends, TypeOK, Backward
  <2>4. Backward' => tail' = 0  BY <2>1 DEF Ends, Backward
  <2> QED  BY <2>2, <2>3, <2>4 DEF Ends
<1>4. ASSUME NEW b \in Bytes, Write(b) PROVE Ends'
  <2>1. Len(data') = Len(data) + 1  BY <1>4 DEF Write, TypeOK
  <2>2. UNCHANGED <<head, dir, hostVars, place, played>> /\ tail' = Len(data) + 1
    BY <1>4 DEF Write, historyVars
  <2>3. Backward => ~running /\ Waiting  BY <1>4 DEF Write, Lead, Backward
  <2>4. Backward' => ~running' /\ Waiting'  BY <2>2, <2>3 DEF Backward, Waiting
  <2> QED  BY <2>1, <2>2, <2>4 DEF Ends, TypeOK, Backward
<1>5. ASSUME NEW r \in Requests, Granted(r) PROVE Ends'
  BY <1>5 DEF Granted, StartRun, DeadStop, Ends, Backward, TypeOK, Waiting
<1>6. CASE Stop  BY <1>6 DEF Stop, Ends, Backward, Waiting, contextVars, historyVars
<1>7. CASE UNCHANGED vars
  BY <1>7 DEF vars, Ends, Backward, Waiting, contextVars, historyVars
<1> QED
  BY <1>1, <1>2, <1>3, <1>4, <1>5, <1>6, <1>7, RunIsGranted
  DEF Next, Script, Host

\* Nothing but the second port write happens to a byte between its two writes.
LEMMA MidByteStep == TypeOK /\ MidByte /\ [Next]_vars => MidByte'
<1> SUFFICES ASSUME TypeOK, MidByte, [Next]_vars PROVE MidByte'  OBVIOUS
<1>1. CASE Start \/ Event \/ Parked \/ DataEnd \/ Power \/ SetStep
  <2>1. place' # "dir"
    BY <1>1 DEF Start, Event, Parked, DataEnd, Power, SetStep
  <2> QED  BY <2>1 DEF MidByte
<1>2. CASE SetDir
  BY <1>2 DEF SetDir, Fetched, IsParked, MidByte, Byte, IsPower, PowerBytes, contextVars
<1>3. ASSUME NEW b \in Bytes, Write(b) PROVE MidByte'
  BY <1>3 DEF Write, Waiting, MidByte
<1>4. ASSUME NEW r \in Requests, Granted(r) PROVE MidByte'
  BY <1>4 DEF Granted, StartRun, Waiting, MidByte
<1>5. CASE Stop
  BY <1>5 DEF Stop, MidByte, Byte, IsPower, PowerBytes, contextVars
<1>6. CASE UNCHANGED vars
  BY <1>6 DEF vars, MidByte, Byte, IsPower, PowerBytes, contextVars
<1> QED
  BY <1>1, <1>2, <1>3, <1>4, <1>5, <1>6, RunIsGranted DEF Next, Script, Host

-----------------------------------------------------------------------------
(* The position.                                                           *)

\* Playing a byte moves the position and the path together; backward, the byte
\* under the head moves it, and the byte before the head leaves the path.
LEMMA DriftPlayed ==
  ASSUME TypeOK, Ends, MidByte, Drift, Power \/ SetStep
  PROVE  Drift'
<1>1. /\ dir \in {-1, 1} /\ head + 1 \in 1..Len(data) /\ head' = head + dir
      /\ UNCHANGED <<data, dir, retraces>> /\ (Backward => head > 0)
  BY Playing
<1>2. /\ \A i : StepOf(i)' = StepOf(i)
      /\ Path(head)' = Path(head')
  BY <1>1 DEF StepOf, IsPower, PowerBytes, Path
<1>3. StepOf(head + 1) \in {-1, 0, 1}  BY <1>1, ByteTypes
<1>4. x' = x + (IF Backward THEN -StepOf(head + 1) ELSE StepOf(head + 1))
  <2>1. CASE Power
    <3>1. StepOf(head + 1) = 0  BY <2>1 DEF Power, Byte, StepOf
    <3>2. x' = x  BY <2>1 DEF Power
    <3> QED  BY <3>1, <3>2 DEF TypeOK
  <2>2. CASE SetStep
    <3>1. StepOf(head + 1) = Byte.step  BY <2>2 DEF SetStep, MidByte, Byte, StepOf
    <3> QED  BY <2>2, <3>1 DEF SetStep, StepTaken
  <2> QED  BY <2>1, <2>2
<1>5. x \in Int /\ head \in Nat /\ Path(head) \in Int /\ retraces \in Nat
  BY PathType, ScriptAssumption DEF TypeOK
<1>6. CASE Backward
  <2>1. head - 1 \in Nat /\ head' = head - 1  BY <1>1, <1>5, <1>6 DEF Backward
  <2>2. Path(head - 1) \in Int  BY <2>1, PathType
  <2>3. head \in 1..Len(data)  BY <1>1, <1>5, <1>6 DEF TypeOK
  <2>4. StepOf(head) \in {-1, 0, 1}  BY <2>3, ByteTypes
  <2>5. Path(head) = Path(head - 1) + StepOf(head)
    <3>1. Path((head - 1) + 1) = Path(head - 1) + StepOf((head - 1) + 1)
      BY <2>1, <2>3, PathNext
    <3> QED  BY <1>5, <3>1
  <2>6. x - Path(head) - StepOf(head + 1) \in (1 - 2 * retraces)..(2 * retraces - 1)
    BY <1>6 DEF Drift
  <2>7. x' = x - StepOf(head + 1)  BY <1>3, <1>4, <1>5, <1>6
  <2>8. x' - Path(head - 1) - StepOf(head) \in (1 - 2 * retraces)..(2 * retraces - 1)
    BY <1>3, <1>5, <2>2, <2>4, <2>5, <2>6, <2>7
  <2>9. StepOf(head + 1)' = StepOf(head)  BY <1>1, <1>2, <1>5, <2>1 DEF StepOf
  <2>10. Path(head)' = Path(head - 1)  BY <1>2, <2>1
  <2>11. Backward'  BY <1>1, <1>6 DEF Backward
  <2> QED  BY <1>1, <2>8, <2>9, <2>10, <2>11 DEF Drift
<1>7. CASE ~Backward
  <2>1. head' = head + 1 /\ ~Backward'  BY <1>1, <1>7 DEF Backward
  <2>2. Path(head + 1) = Path(head) + StepOf(head + 1)
    BY <1>1, <1>5, PathNext DEF TypeOK
  <2>3. x - Path(head) \in (-2 * retraces)..(2 * retraces)  BY <1>7 DEF Drift
  <2>4. x' = x + StepOf(head + 1)  BY <1>4, <1>7
  <2>5. x' - Path(head + 1) \in (-2 * retraces)..(2 * retraces)
    BY <1>3, <1>5, <2>2, <2>3, <2>4
  <2>6. Path(head)' = Path(head + 1)  BY <1>2, <2>1
  <2> QED  BY <1>1, <2>1, <2>5, <2>6 DEF Drift
<1> QED  BY <1>6, <1>7

\* Backward or not, the position is within two steps a retrace of the path.
LEMMA DriftNear == TypeOK /\ Ends /\ Drift => PositionNearPath
<1> SUFFICES ASSUME TypeOK, Ends, Drift PROVE PositionNearPath  OBVIOUS
<1>1. x \in Int /\ head \in Nat /\ Path(head) \in Int /\ retraces \in Nat
  BY PathType, ScriptAssumption DEF TypeOK
<1>2. CASE Backward
  <2>1. head + 1 \in 1..Len(data)  BY <1>2 DEF Ends, TypeOK
  <2>2. StepOf(head + 1) \in {-1, 0, 1}  BY <2>1, ByteTypes
  <2>3. x - Path(head) - StepOf(head + 1) \in (1 - 2 * retraces)..(2 * retraces - 1)
    BY <1>2 DEF Drift
  <2> QED  BY <1>1, <2>2, <2>3 DEF PositionNearPath
<1>3. CASE ~Backward  BY <1>3 DEF Drift, PositionNearPath
<1> QED  BY <1>2, <1>3

LEMMA DriftStep == TypeOK /\ Ends /\ MidByte /\ Drift /\ [Next]_vars => Drift'
<1> SUFFICES ASSUME TypeOK, Ends, MidByte, Drift, [Next]_vars PROVE Drift'  OBVIOUS
<1>0. /\ x \in Int /\ head \in Nat /\ Path(head) \in Int /\ retraces \in Nat
      /\ x - Path(head) \in (-2 * retraces)..(2 * retraces)
  BY PathType, DriftNear, ScriptAssumption DEF TypeOK, PositionNearPath
<1>1. CASE UNCHANGED <<data, x, head, dir, retraces>>
  <2>1. \A i : StepOf(i)' = StepOf(i)  BY <1>1 DEF StepOf, IsPower, PowerBytes
  <2>2. StepOf(head + 1)' = StepOf(head + 1) /\ Path(head)' = Path(head)
    BY <1>1, <2>1 DEF Path, StepOf, IsPower, PowerBytes
  <2> QED  BY <1>1, <2>2 DEF Drift, Backward
<1>2. CASE DataEnd
  <2>1. ~Backward' /\ UNCHANGED <<data, x, head, retraces>>
    BY <1>2 DEF DataEnd, Backward, historyVars
  <2>2. Path(head)' = Path(head)
    BY <2>1 DEF Path, StepOf, IsPower, PowerBytes
  <2> QED  BY <1>0, <2>1, <2>2 DEF Drift
<1>3. CASE Power \/ SetStep  BY <1>3, DriftPlayed
<1>4. ASSUME NEW b \in Bytes, Write(b) PROVE Drift'
  <2>1. UNCHANGED <<x, head, dir, retraces>>  BY <1>4 DEF Write, historyVars
  <2>2. Path(head)' = Path(head)  BY <1>4, PathKept
  <2>3. CASE Backward
    <3>1. head + 1 \in 1..Len(data)  BY <2>3 DEF Ends, TypeOK
    <3>2. data'[head + 1] = data[head + 1]  BY <1>4, <3>1, PathKept
    <3>3. StepOf(head + 1)' = StepOf(head + 1)
      BY <2>1, <3>2 DEF StepOf, IsPower, PowerBytes
    <3> QED  BY <2>1, <2>2, <3>3 DEF Drift, Backward
  <2>4. CASE ~Backward  BY <2>1, <2>2, <2>4 DEF Drift, Backward
  <2> QED  BY <2>3, <2>4
<1>5. ASSUME NEW r \in Requests, Granted(r) PROVE Drift'
  <2>1. UNCHANGED <<data, x, head>> /\ head # Len(data)
    BY <1>5 DEF Granted, StartRun
  <2>2. Path(head)' = Path(head) /\ StepOf(head + 1)' = StepOf(head + 1)
    BY <2>1 DEF Path, StepOf, IsPower, PowerBytes
  <2>3. StepOf(head + 1) \in {-1, 0, 1}
    <3>1. head + 1 \in 1..Len(data)  BY <2>1 DEF TypeOK
    <3> QED  BY <3>1, ByteTypes
  <2>4. CASE r.kind = "backtrack"
    <3>1. Backward' /\ retraces' = retraces + 1
      BY <1>5, <2>4 DEF Granted, StartRun, Backward
    <3>2. x - Path(head) - StepOf(head + 1)
          \in (1 - 2 * (retraces + 1))..(2 * (retraces + 1) - 1)
      BY <1>0, <2>3
    <3> QED  BY <2>1, <2>2, <3>1, <3>2 DEF Drift
  <2>5. CASE r.kind # "backtrack"
    <3>1. ~Backward' /\ retraces' = retraces
      BY <1>5, <2>5 DEF Granted, StartRun, Backward
    <3> QED  BY <1>0, <2>1, <2>2, <3>1 DEF Drift
  <2> QED  BY <2>4, <2>5
<1>6. CASE Start \/ Event \/ Parked \/ SetDir \/ Stop \/ UNCHANGED vars
  BY <1>1, <1>6 DEF Start, Event, Parked, SetDir, Stop, vars, contextVars, historyVars
<1> QED
  BY <1>2, <1>3, <1>4, <1>5, <1>6, RunIsGranted DEF Next, Script, Host

-----------------------------------------------------------------------------
(* The laser line.                                                         *)

\* The waypoint counts the bytes of the lead, and the inhibit ends with them.
LEMMA LeadStep == TypeOK /\ Ends /\ MidByte /\ Lead /\ [Next]_vars => Lead'
<1> SUFFICES ASSUME TypeOK, Ends, MidByte, Lead, [Next]_vars PROVE Lead'  OBVIOUS
<1>1. CASE UNCHANGED <<dir, waypoint, inhibit, request, played>>
  BY <1>1 DEF Lead, Backward
<1>2. CASE DataEnd  BY <1>2 DEF DataEnd, Lead
<1>3. CASE Power \/ SetStep
  <2>1. dir \in {-1, 1} /\ UNCHANGED <<dir, request>> /\ played' = played + 1
    BY <1>3, Playing
  <2>2. EndByte  BY <1>3 DEF Power, SetStep
  <2>3. waypoint' = (IF waypoint > 0 /\ ~WaypointHit THEN waypoint - 1 ELSE 0)
    BY <2>2 DEF EndByte
  <2>4. inhibit' <=> inhibit /\ ~WaypointHit  BY <2>2, Zenon DEF EndByte
  <2>5. played \in Nat /\ request.num_steps \in Nat /\ waypoint \in Nat
    BY ScriptAssumption DEF TypeOK, Requests
  <2>6. Backward' <=> request'.kind = "backtrack"  BY <2>1 DEF Lead, Backward
  <2>7. request'.kind = "run" => ~inhibit'  BY <2>1, <2>4 DEF Lead
  <2>8. ASSUME request'.kind = "resume"
        PROVE  /\ waypoint' = (IF played' < request'.num_steps
                               THEN request'.num_steps - played' ELSE 0)
               /\ inhibit' <=> request'.num_steps = 0 \/ played' < request'.num_steps
    <3>1. waypoint = (IF played < request.num_steps
                      THEN request.num_steps - played ELSE 0)
      BY <2>1, <2>8 DEF Lead
    <3>2. inhibit <=> request.num_steps = 0 \/ played < request.num_steps
      BY <2>1, <2>8 DEF Lead
    <3>3. WaypointHit <=> played + 1 = request.num_steps
      BY <2>5, <3>1 DEF WaypointHit
    <3>4. waypoint' = (IF played' < request'.num_steps
                       THEN request'.num_steps - played' ELSE 0)
      BY <2>1, <2>3, <2>5, <3>1 DEF WaypointHit
    <3>5. request.num_steps = 0 \/ played < request.num_steps
          => (played + 1 # request.num_steps
              <=> request.num_steps = 0 \/ played + 1 < request.num_steps)
      BY <2>5
    <3>6. request.num_steps = 0 \/ played + 1 < request.num_steps
          => request.num_steps = 0 \/ played < request.num_steps
      BY <2>5
    <3>7. inhibit' <=> request.num_steps = 0 \/ played + 1 < request.num_steps
      BY <2>4, <3>2, <3>3, <3>5, <3>6
    <3> QED  BY <2>1, <3>4, <3>7
  <2> QED  BY <2>6, <2>7, <2>8 DEF Lead
<1>4. ASSUME NEW r \in Requests, Granted(r) PROVE Lead'
  <2>1. r.num_steps \in Nat /\ r.kind \in {"run", "backtrack", "resume"}
    BY ScriptAssumption DEF Requests
  <2>2. /\ request' = r /\ played' = 0 /\ waypoint' = r.num_steps
        /\ dir' = (IF r.kind = "backtrack" THEN -1 ELSE 1)
        /\ inhibit' = (r.kind = "resume")
    BY <1>4 DEF Granted, StartRun, Inhibit
  <2>3. Backward' <=> r.kind = "backtrack"  BY <2>2 DEF Backward
  <2>4. r.kind = "run" => ~inhibit'  BY <2>2
  <2>5. r.kind = "resume" =>
          /\ waypoint' = (IF 0 < r.num_steps THEN r.num_steps - 0 ELSE 0)
          /\ inhibit' <=> r.num_steps = 0 \/ 0 < r.num_steps
    <3>1. waypoint' = (IF 0 < r.num_steps THEN r.num_steps - 0 ELSE 0)  BY <2>1, <2>2
    <3>2. r.num_steps = 0 \/ 0 < r.num_steps  BY <2>1
    <3> QED  BY <2>2, <3>1, <3>2
  <2> QED  BY <2>2, <2>3, <2>4, <2>5 DEF Lead
<1>5. CASE Start \/ Event \/ Parked \/ SetDir \/ Stop \/ (\E b \in Bytes : Write(b))
           \/ UNCHANGED vars
  BY <1>1, <1>5
  DEF Start, Event, Parked, SetDir, Stop, Write, vars, contextVars, historyVars
<1> QED
  BY <1>2, <1>3, <1>4, <1>5, RunIsGranted DEF Next, Script, Host

\* A run that goes on stays in the dark it is in: only a new request masks again.
LEMMA DarkShrinks ==
  ASSUME TypeOK, Ends, MidByte, Power \/ SetStep
  PROVE  Dark' => Dark
<1>1. dir' = dir  BY Playing
<1>2. inhibit' => inhibit  BY Zenon DEF Power, SetStep, EndByte
<1> QED  BY <1>1, <1>2 DEF Dark, Backward

\* A power byte is one more of the power bytes behind the head.
LEMMA PowerBehind ==
  ASSUME TypeOK, Ends, MidByte, Power, OnlyPower
  PROVE  OnlyPower'
<1>1. /\ dir \in {-1, 1} /\ head + 1 \in 1..Len(data) /\ head' = head + dir
      /\ played' = played + 1 /\ UNCHANGED <<data, dir>>
  BY Playing
<1>2. head \in Nat /\ played \in Nat  BY ScriptAssumption DEF TypeOK
<1>3. IsPower(data[head + 1])  BY DEF Power, Byte
<1> SUFFICES ASSUME NEW i \in 1..played' PROVE IsPower(Before(i))'  BY DEF OnlyPower
<1>4. Before(i)' = data[IF Backward THEN head' + 1 + i ELSE head' + 1 - i]
  BY <1>1 DEF Before, Backward
<1>5. CASE i = 1
  <2>1. (IF Backward THEN head' + 1 + i ELSE head' + 1 - i) = head + 1
    BY <1>1, <1>2, <1>5 DEF Backward
  <2>2. Before(i)' = data[head + 1]  BY <1>4, <2>1
  <2> QED  BY <1>3, <2>2 DEF IsPower, PowerBytes
<1>6. CASE i # 1
  <2>1. i - 1 \in 1..played  BY <1>1, <1>2, <1>6
  <2>2. (IF Backward THEN head' + 1 + i ELSE head' + 1 - i)
        = (IF Backward THEN head + 1 + (i - 1) ELSE head + 1 - (i - 1))
    BY <1>1, <1>2, <2>1 DEF Backward
  <2>3. Before(i)' = Before(i - 1)  BY <1>4, <2>2 DEF Before
  <2>4. IsPower(Before(i - 1))  BY <2>1 DEF OnlyPower
  <2> QED  BY <2>3, <2>4 DEF IsPower, PowerBytes
<1> QED  BY <1>5, <1>6

\* The bytes behind the head are old: a write does not reach them.
LEMMA BehindKept ==
  ASSUME TypeOK, Ends, MidByte, NEW b \in Bytes, Write(b), OnlyPower, dir # 0
  PROVE  OnlyPower'
<1>1. UNCHANGED <<head, dir, played>>  BY DEF Write, historyVars
<1>2. \A i \in 1..Len(data) : data'[i] = data[i]  BY PathKept
<1>3. head \in Nat /\ played \in Nat /\ dir \in {-1, 1}
  BY ScriptAssumption DEF TypeOK
<1> SUFFICES ASSUME NEW i \in 1..played PROVE IsPower(Before(i))'
  BY <1>1 DEF OnlyPower
<1> DEFINE k == IF Backward THEN head + 1 + i ELSE head + 1 - i
<1>4. k \in 1..Len(data)  BY <1>3 DEF Ends, TypeOK, Backward
<1>5. Before(i)' = data'[k]  BY <1>1 DEF Before, Backward
<1>6. Before(i)' = Before(i)  BY <1>2, <1>4, <1>5 DEF Before
<1> QED  BY <1>6 DEF OnlyPower, IsPower, PowerBytes

\* The laser bits left in r3 are those of the run before until a step byte has
\* been played; in the dark that byte clears them.
LEMMA StaleStep ==
  TypeOK /\ Ends /\ MidByte /\ ParkedLow /\ Stale /\ [Next]_vars => Stale'
<1> SUFFICES ASSUME TypeOK, Ends, MidByte, ParkedLow, Stale, [Next]_vars PROVE Stale'
  OBVIOUS
<1>1. CASE Start \/ Parked \/ DataEnd
  <2>1. reg_fire' = FALSE  BY <1>1 DEF Start, Parked, DataEnd, LinesLow
  <2> QED  BY <2>1 DEF Stale
<1>2. CASE UNCHANGED <<data, head, dir, inhibit, reg_fire, played>>
  BY <1>2 DEF Stale, Dark, Backward, OnlyPower, Before, IsPower, PowerBytes
<1>3. CASE Power
  <2>1. reg_fire' = reg_fire /\ (Dark' => Dark)  BY <1>3, DarkShrinks DEF Power
  <2> QED  BY <1>3, <2>1, PowerBehind DEF Stale
<1>4. CASE SetStep
  <2>1. Dark => ~reg_fire'  BY <1>4, Zenon DEF SetStep, LaserBit, Dark
  <2> QED  BY <1>4, <2>1, DarkShrinks DEF Stale
<1>5. ASSUME NEW b \in Bytes, Write(b) PROVE Stale'
  <2>1. UNCHANGED <<head, dir, inhibit, reg_fire, played>>
    BY <1>5 DEF Write, historyVars
  <2>2. CASE dir # 0  BY <1>5, <2>1, <2>2, BehindKept DEF Stale, Dark, Backward
  <2>3. CASE dir = 0
    <3>1. ~reg_fire  BY <2>3 DEF ParkedLow
    <3>2. ~reg_fire'  BY <2>1, <3>1
    <3> QED  BY <3>2 DEF Stale
  <2> QED  BY <2>2, <2>3
<1>6. ASSUME NEW r \in Requests, Granted(r) PROVE Stale'
  <2>1. played' = 0  BY <1>6 DEF Granted, StartRun
  <2> QED  BY <2>1 DEF Stale, OnlyPower
<1>7. CASE Event \/ SetDir \/ Stop \/ UNCHANGED vars
  BY <1>2, <1>7 DEF Event, SetDir, Stop, vars, contextVars, historyVars
<1> QED
  BY <1>1, <1>3, <1>4, <1>5, <1>6, <1>7, RunIsGranted DEF Next, Script, Host

LEMMA ParkedLowStep == TypeOK /\ Ends /\ MidByte /\ ParkedLow /\ [Next]_vars => ParkedLow'
<1> SUFFICES ASSUME TypeOK, Ends, MidByte, ParkedLow, [Next]_vars PROVE ParkedLow'
  OBVIOUS
<1>1. CASE Parked \/ DataEnd
  BY <1>1 DEF Parked, DataEnd, LinesLow, ParkedLow
<1>2. CASE Start  BY <1>2 DEF Start, contextVars, ParkedLow
<1>3. CASE SetDir
  BY <1>3 DEF SetDir, Fetched, IsParked, contextVars, ParkedLow
<1>4. CASE Power \/ SetStep
  <2>1. dir' # 0  BY <1>4, Playing
  <2> QED  BY <2>1 DEF ParkedLow
<1>5. ASSUME NEW r \in Requests, Granted(r) PROVE ParkedLow'
  <2>1. dir' # 0  BY <1>5 DEF Granted, StartRun
  <2> QED  BY <2>1 DEF ParkedLow
<1>6. CASE Event \/ Stop \/ (\E b \in Bytes : Write(b)) \/ UNCHANGED vars
  BY <1>6 DEF Event, Stop, Write, vars, contextVars, historyVars, ParkedLow
<1> QED
  BY <1>1, <1>2, <1>3, <1>4, <1>5, <1>6, RunIsGranted DEF Next, Script, Host

\* The first port write of a byte shows the stale bits, the second clears them.
LEMMA GlitchStep ==
  IInv /\ [Next]_vars => GlitchOnlyFirst'
<1> DEFINE Lit == driven /\ port_fire /\ Dark
<1>0. /\ GlitchOnlyFirst <=> (Lit => place = "dir" /\ OnlyPower)
      /\ GlitchOnlyFirst' <=> (Lit' => place' = "dir" /\ OnlyPower')
  BY DEF GlitchOnlyFirst, Dark, OnlyPower
<1> SUFFICES ASSUME IInv, [Next]_vars, Lit' PROVE place' = "dir" /\ OnlyPower'
  BY <1>0
<1> USE DEF IInv
<1>1. CASE Parked \/ DataEnd
  BY <1>1 DEF Parked, DataEnd, LinesLow
<1>2. CASE Start \/ Event
  <2>1. Lit /\ place # "dir"
    BY <1>2 DEF Start, Event, Dark, Backward, contextVars
  <2> QED  BY <1>0, <2>1
<1>3. CASE Power
  <2>1. driven /\ port_fire /\ place = "fetch"  BY <1>3 DEF Power, Fetched
  <2>2. Dark  BY <1>3, DarkShrinks
  <2> QED  BY <1>0, <2>1, <2>2
<1>4. CASE SetStep
  <2>1. Dark => ~port_fire'  BY <1>4, Zenon DEF SetStep, LaserBit, Dark
  <2> QED  BY <1>4, <2>1, DarkShrinks
<1>5. CASE SetDir
  <2>1. place' = "dir" /\ reg_fire /\ Dark
    BY <1>5 DEF SetDir, Dark, Backward, contextVars
  <2>2. OnlyPower  BY <2>1 DEF Stale
  <2> QED
    BY <1>5, <2>1, <2>2
    DEF SetDir, OnlyPower, Before, Backward, IsPower, PowerBytes, contextVars, historyVars
<1>6. ASSUME NEW b \in Bytes, Write(b) PROVE place' = "dir" /\ OnlyPower'
  <2>1. Lit /\ place # "dir"
    BY <1>6 DEF Write, Waiting, Dark, Backward
  <2> QED  BY <1>0, <2>1
<1>7. ASSUME NEW r \in Requests, Granted(r) PROVE place' = "dir" /\ OnlyPower'
  BY <1>7 DEF Granted, StartRun
<1>8. CASE Stop  BY <1>8 DEF Stop
<1>9. CASE UNCHANGED vars
  <2>1. Lit /\ place' = place  BY <1>9 DEF vars, Dark, Backward, contextVars
  <2>2. place = "dir" /\ OnlyPower  BY <1>0, <2>1
  <2> QED
    BY <1>9, <2>2
    DEF vars, OnlyPower, Before, Backward, IsPower, PowerBytes, contextVars, historyVars
<1> QED
  BY <1>1, <1>2, <1>3, <1>4, <1>5, <1>6, <1>7, <1>8, <1>9, RunIsGranted
  DEF Next, Script, Host

-----------------------------------------------------------------------------
(* The power.                                                              *)

\* With no two power bytes in a row the script skips none: it remembers a power byte
\* only as long as the next byte, or the start of the script, is still to come.
SeenShort ==
  NoPowerTwice /\ seen =>
    \/ place \in {"boot", "dir"}
    \/ place = "fetch" /\ dir = 1 /\ head > 0 /\ IsPower(data[head])

\* What has been played was left with the level of its last power byte, and the PWM
\* has that level unless a power byte is still ahead of a replay.
Dull(from, to) == \A i \in from..to : ~IsPower(data[i])
PowerKept ==
  NoPowerTwice /\ held # Unset =>
    /\ \A i \in 1..furthest :
         IsPower(data[i]) /\ Dull(i + 1, furthest) => held = data[i].level
    /\ Dull(1, furthest) => held = Idle
    /\ Dull(head + 1, furthest) => held = pwm

\* A write leaves the bytes before it alone, and two power bytes in a row stay.
LEMMA WriteKeepsBytes ==
  ASSUME TypeOK, NEW b \in Bytes, Write(b)
  PROVE  /\ \A i \in 1..Len(data) : data'[i] = data[i]
         /\ NoPowerTwice' => NoPowerTwice
<1>1. \A i \in 1..Len(data) : data'[i] = data[i]  BY PathKept
<1>2. Len(data') = Len(data) + 1 /\ Len(data) \in Nat
  BY DEF Write, TypeOK
<1>3. ASSUME NoPowerTwice', NEW i \in 1..(Len(data) - 1)
      PROVE  ~(IsPower(data[i]) /\ IsPower(data[i + 1]))
  <2>1. i \in 1..(Len(data') - 1) /\ i \in 1..Len(data) /\ i + 1 \in 1..Len(data)
    BY <1>2
  <2>2. ~(data'[i] \in PowerBytes /\ data'[i + 1] \in PowerBytes)
    BY <1>3, <2>1 DEF NoPowerTwice, IsPower, PowerBytes
  <2> QED  BY <1>1, <2>1, <2>2 DEF IsPower
<1> QED  BY <1>1, <1>3 DEF NoPowerTwice

LEMMA SeenShortStep == TypeOK /\ Ends /\ MidByte /\ SeenShort /\ [Next]_vars => SeenShort'
<1> SUFFICES ASSUME TypeOK, Ends, MidByte, SeenShort, [Next]_vars PROVE SeenShort'
  OBVIOUS
<1>1. CASE Start \/ SetStep
  <2>1. seen' = FALSE  BY <1>1 DEF Start, SetStep
  <2> QED  BY <2>1 DEF SeenShort
<1>2. CASE Parked \/ DataEnd \/ SetDir
  <2>1. place' \in {"boot", "dir"}  BY <1>2 DEF Parked, DataEnd, SetDir
  <2> QED  BY <2>1 DEF SeenShort
<1>3. CASE Event
  <2>1. place = "rest" /\ UNCHANGED <<data, seen>>  BY <1>3 DEF Event
  <2>2. NoPowerTwice' = NoPowerTwice  BY <2>1 DEF NoPowerTwice, IsPower, PowerBytes
  <2> QED  BY <2>1, <2>2 DEF SeenShort
<1>4. CASE Power
  <2> SUFFICES ASSUME NoPowerTwice', seen'
               PROVE  place' = "fetch" /\ dir' = 1 /\ head' > 0 /\ IsPower(data[head'])
    BY <1>4, Playing DEF SeenShort, IsPower, PowerBytes
  <2>1. /\ dir \in {-1, 1} /\ head + 1 \in 1..Len(data) /\ head' = head + dir
        /\ UNCHANGED <<data, dir>> /\ place = "fetch" /\ IsPower(data[head + 1])
        /\ head \in Nat /\ Len(data) \in Nat
    <3>1. /\ dir \in {-1, 1} /\ head + 1 \in 1..Len(data) /\ head' = head + dir
          /\ UNCHANGED <<data, dir>>
      BY <1>4, Playing
    <3>2. place = "fetch" /\ IsPower(data[head + 1])
      BY <1>4 DEF Power, Fetched, Byte
    <3>3. head \in Nat /\ Len(data) \in Nat  BY DEF TypeOK
    <3> QED  BY <3>1, <3>2, <3>3
  <2>2. NoPowerTwice  BY <2>1 DEF NoPowerTwice, IsPower, PowerBytes
  <2>3. ~seen
    <3> SUFFICES ASSUME seen PROVE FALSE  OBVIOUS
    <3>1. head > 0 /\ IsPower(data[head])  BY <2>1, <2>2 DEF SeenShort
    <3>2. head \in 1..(Len(data) - 1)  BY <2>1, <3>1
    <3> QED  BY <2>1, <2>2, <3>1, <3>2 DEF NoPowerTwice
  <2>4. PowerApplies /\ place' = "fetch"  BY <1>4, <2>3 DEF Power
  <2>5. dir = 1  BY <2>1, <2>4 DEF PowerApplies, Backward
  <2> QED  BY <2>1, <2>4, <2>5
<1>5. ASSUME NEW b \in Bytes, Write(b) PROVE SeenShort'
  <2>1. place \in {"boot", "rest"} /\ UNCHANGED <<seen, place>>
    BY <1>5 DEF Write, Waiting
  <2> QED  BY <1>5, <2>1, WriteKeepsBytes DEF SeenShort
<1>6. ASSUME NEW r \in Requests, Granted(r) PROVE SeenShort'
  <2>1. place \in {"boot", "rest"} /\ UNCHANGED <<data, seen, place>>
    BY <1>6 DEF Granted, StartRun, Waiting
  <2>2. NoPowerTwice' = NoPowerTwice  BY <2>1 DEF NoPowerTwice, IsPower, PowerBytes
  <2> QED  BY <2>1, <2>2 DEF SeenShort
<1>7. CASE Stop \/ UNCHANGED vars
  <2>1. UNCHANGED <<data, head, dir, seen, place>>
    BY <1>7 DEF Stop, vars, contextVars
  <2> QED  BY <2>1 DEF SeenShort, NoPowerTwice, IsPower, PowerBytes
<1> QED
  BY <1>1, <1>2, <1>3, <1>4, <1>5, <1>6, <1>7, RunIsGranted DEF Next, Script, Host

\* A byte that is played: new ground takes the level of the PWM, a replay brings the
\* PWM back to the level it had, and a backward run changes neither.
LEMMA PowerPlayed ==
  ASSUME TypeOK, Ends, MidByte, SeenShort, PowerKept, Power \/ SetStep
  PROVE  PowerKept'
<1>1. /\ dir \in {-1, 1} /\ head + 1 \in 1..Len(data) /\ head' = head + dir
      /\ UNCHANGED <<data, dir>> /\ (Backward => head > 0)
      /\ head \in Nat /\ Len(data) \in Nat /\ furthest \in Nat /\ head <= furthest
  BY Playing DEF TypeOK
<1>2. \A i : IsPower(data[i])' <=> IsPower(data[i])
  BY <1>1 DEF IsPower, PowerBytes
<1> SUFFICES ASSUME NoPowerTwice', held' # Unset
    PROVE  /\ \A i \in 1..furthest' :
                IsPower(data[i]) /\ Dull(i + 1, furthest') => held' = data[i].level
           /\ Dull(1, furthest') => held' = Idle
           /\ Dull(head' + 1, furthest') => held' = pwm'
  BY <1>1, <1>2 DEF PowerKept, Dull
<1>3. NoPowerTwice  BY <1>1, <1>2 DEF NoPowerTwice
<1>4. Advance(pwm')  BY DEF Power, SetStep
<1>5. held # Unset  BY <1>4 DEF Advance
<1>6. /\ \A i \in 1..furthest :
           IsPower(data[i]) /\ Dull(i + 1, furthest) => held = data[i].level
      /\ Dull(1, furthest) => held = Idle
      /\ Dull(head + 1, furthest) => held = pwm
  BY <1>3, <1>5 DEF PowerKept
<1>7. CASE Backward
  <2>1. UNCHANGED <<furthest, held>>  BY <1>4, <1>7 DEF Advance
  <2>2. pwm' = pwm  BY <1>7 DEF Power, SetStep, PowerApplies
  <2>3. Dull(head' + 1, furthest) => Dull(head + 1, furthest)
    BY <1>1, <1>7 DEF Dull, Backward
  <2> QED  BY <1>6, <2>1, <2>2, <2>3
<1>8. CASE ~Backward
  <2>1. dir = 1 /\ head' = head + 1  BY <1>1, <1>8 DEF Backward
  <2>2. CASE Power
    <3>1. IsPower(data[head + 1]) /\ place = "fetch"  BY <2>2 DEF Power, Fetched, Byte
    <3>2. ~seen
      <4> SUFFICES ASSUME seen PROVE FALSE  OBVIOUS
      <4>1. head > 0 /\ IsPower(data[head])  BY <1>3, <3>1 DEF SeenShort
      <4>2. head \in 1..(Len(data) - 1)  BY <1>1, <4>1
      <4> QED  BY <1>3, <3>1, <4>1, <4>2 DEF NoPowerTwice
    <3>3. pwm' = data[head + 1].level
      BY <1>8, <2>2, <3>2 DEF Power, PowerApplies, Byte
    <3>4. CASE head = furthest
      <4>1. furthest' = head + 1 /\ held' = pwm'
        BY <1>4, <1>5, <1>8, <3>4 DEF Advance
      <4>2. ~Dull(1, head + 1)  BY <1>1, <3>1 DEF Dull
      <4>3. ASSUME NEW i \in 1..(head + 1), IsPower(data[i]), Dull(i + 1, head + 1)
            PROVE  held' = data[i].level
        <5>1. i = head + 1  BY <1>1, <3>1, <4>3 DEF Dull
        <5> QED  BY <3>3, <4>1, <5>1
      <4> QED  BY <4>1, <4>2, <4>3
    <3>5. CASE head # furthest
      <4>1. UNCHANGED <<furthest, held>>  BY <1>4, <3>5 DEF Advance
      <4>2. head + 1 \in 1..furthest  BY <1>1, <3>5
      <4>3. Dull(head + 2, furthest) => held = pwm'
        BY <1>1, <1>6, <3>1, <3>3, <4>2
      <4> QED  BY <1>1, <1>6, <2>1, <4>1, <4>3
    <3> QED  BY <3>4, <3>5
  <2>3. CASE SetStep
    <3>1. ~IsPower(data[head + 1]) /\ pwm' = pwm
      BY <2>3 DEF SetStep, MidByte, Byte
    <3>2. CASE head = furthest
      <4>1. furthest' = head + 1 /\ held' = pwm
        BY <1>4, <1>5, <1>8, <3>1, <3>2 DEF Advance
      <4>2. held = pwm  BY <1>1, <1>6, <3>2 DEF Dull
      <4>3. Dull(1, head + 1) => Dull(1, furthest)  BY <1>1, <3>2 DEF Dull
      <4>4. ASSUME NEW i \in 1..(head + 1), IsPower(data[i]), Dull(i + 1, head + 1)
            PROVE  held = data[i].level
        <5>1. i \in 1..furthest  BY <1>1, <3>1, <3>2, <4>4
        <5>2. Dull(i + 1, furthest)  BY <1>1, <3>2, <4>4 DEF Dull
        <5> QED  BY <1>6, <4>4, <5>1, <5>2
      <4> QED  BY <1>6, <3>1, <4>1, <4>2, <4>3, <4>4
    <3>3. CASE head # furthest
      <4>1. UNCHANGED <<furthest, held>>  BY <1>4, <3>3 DEF Advance
      <4>2. Dull(head + 2, furthest) => Dull(head + 1, furthest)
        BY <1>1, <3>1 DEF Dull
      <4> QED  BY <1>1, <1>6, <2>1, <3>1, <4>1, <4>2
    <3> QED  BY <3>2, <3>3
  <2> QED  BY <2>2, <2>3
<1> QED  BY <1>7, <1>8

LEMMA PowerKeptStep ==
  TypeOK /\ Ends /\ MidByte /\ SeenShort /\ PowerKept /\ [Next]_vars => PowerKept'
<1> SUFFICES ASSUME TypeOK, Ends, MidByte, SeenShort, PowerKept, [Next]_vars
             PROVE  PowerKept'
  OBVIOUS
<1>1. CASE UNCHANGED <<data, head, pwm, furthest, held>>
  BY <1>1 DEF PowerKept, Dull, NoPowerTwice, IsPower, PowerBytes
<1>2. CASE Start \/ Event \/ Parked \/ DataEnd \/ SetDir \/ Stop \/ UNCHANGED vars
  BY <1>1, <1>2
  DEF Start, Event, Parked, DataEnd, SetDir, Stop, vars, contextVars, historyVars
<1>3. CASE Power \/ SetStep  BY <1>3, PowerPlayed
<1>4. ASSUME NEW b \in Bytes, Write(b) PROVE PowerKept'
  <2>1. /\ \A i \in 1..Len(data) : data'[i] = data[i]
        /\ NoPowerTwice' => NoPowerTwice
        /\ UNCHANGED <<head, pwm, furthest, held>>
    BY <1>4, WriteKeepsBytes DEF Write, historyVars
  <2>2. /\ head \in Nat /\ furthest \in Nat /\ furthest <= Len(data)
        /\ Len(data) \in Nat
    BY DEF TypeOK
  <2>3. \A i \in 1..furthest : IsPower(data[i])' <=> IsPower(data[i])
    BY <2>1, <2>2 DEF IsPower, PowerBytes
  <2>4. \A from \in 1..(furthest + 1) :
          (\A j \in from..furthest : ~IsPower(data[j])') <=> Dull(from, furthest)
    BY <2>2, <2>3 DEF Dull
  <2>5. ASSUME NoPowerTwice', held # Unset
        PROVE  /\ \A i \in 1..furthest :
                    IsPower(data[i]) /\ Dull(i + 1, furthest) => held = data[i].level
               /\ Dull(1, furthest) => held = Idle
               /\ Dull(head + 1, furthest) => held = pwm
    BY <2>1, <2>5 DEF PowerKept
  <2>6. ASSUME NoPowerTwice', held # Unset, NEW i \in 1..furthest, IsPower(data[i])',
               \A j \in (i + 1)..furthest : ~IsPower(data[j])'
        PROVE  held = data'[i].level
    <3>1. i + 1 \in 1..(furthest + 1) /\ data'[i] = data[i]  BY <2>1, <2>2
    <3>2. Dull(i + 1, furthest)  BY <2>4, <2>6, <3>1
    <3>3. IsPower(data[i])  BY <2>3, <2>6
    <3> QED  BY <2>5, <2>6, <3>1, <3>2, <3>3
  <2>7. ASSUME NoPowerTwice', held # Unset
        PROVE  /\ (\A j \in 1..furthest : ~IsPower(data[j])') => held = Idle
               /\ (\A j \in (head + 1)..furthest : ~IsPower(data[j])') => held = pwm
    <3>1. 1 \in 1..(furthest + 1) /\ head + 1 \in 1..(furthest + 1)
      BY <2>2 DEF TypeOK
    <3> QED  BY <2>4, <2>5, <2>7, <3>1
  <2> QED  BY <2>1, <2>6, <2>7 DEF PowerKept, Dull
<1>5. ASSUME NEW r \in Requests, Granted(r) PROVE PowerKept'
  <2>1. /\ UNCHANGED <<data, head, furthest>> /\ pwm' = PowerAtStart(r)
        /\ held' = IF r.kind = "run" /\ head > 0 THEN Unset ELSE held
    BY <1>5 DEF Granted, StartRun
  <2>2. CASE r.kind # "run"
    BY <1>1, <2>1, <2>2 DEF PowerAtStart
  <2>3. CASE r.kind = "run" /\ head > 0
    BY <2>1, <2>3 DEF PowerKept
  <2>4. CASE r.kind = "run" /\ ~(head > 0)
    <3>1. head = 0 /\ head + 1 = 1  BY <2>4 DEF TypeOK
    <3>2. held' = held /\ pwm' = Idle  BY <2>1, <2>4 DEF PowerAtStart
    <3> QED
      BY <2>1, <3>1, <3>2 DEF PowerKept, Dull, NoPowerTwice, IsPower, PowerBytes
  <2> QED  BY <2>2, <2>3, <2>4
<1> QED
  BY <1>2, <1>3, <1>4, <1>5, RunIsGranted DEF Next, Script, Host

-----------------------------------------------------------------------------
(* The theorems.                                                           *)

LEMMA InitIInv == Init => IInv
<1> SUFFICES ASSUME Init PROVE IInv  OBVIOUS
<1>1. TypeOK
  <2>1. request \in Requests  BY ScriptAssumption DEF Init, Requests
  <2>2. data \in Seq(Bytes) /\ Len(data) = 0  BY DEF Init
  <2>3. /\ head = 0 /\ tail = 0 /\ x = 0 /\ furthest = 0
        /\ dir = 1 /\ waypoint = 0 /\ played = 0 /\ retraces = 0
        /\ place = "boot" /\ pwm = Idle /\ held = Idle
    BY DEF Init
  <2>4. /\ inhibit \in BOOLEAN /\ seen \in BOOLEAN /\ reg_fire \in BOOLEAN
        /\ port_fire \in BOOLEAN /\ running \in BOOLEAN /\ driven \in BOOLEAN
    BY DEF Init
  <2> QED  BY <2>1, <2>2, <2>3, <2>4, ScriptAssumption DEF TypeOK, Places
<1>2. Ends  BY DEF Init, Ends, Backward
<1>3. MidByte  BY DEF Init, MidByte
<1>4. Drift
  <2>1. {i \in 1..0 : StepOf(i) = 1} = {} /\ {i \in 1..0 : StepOf(i) = -1} = {}
    OBVIOUS
  <2>2. Path(0) = 0  BY <2>1, FS_EmptySet DEF Path
  <2> QED  BY <2>2 DEF Init, Drift, Backward
<1>5. Stale /\ GlitchOnlyFirst /\ ParkedLow
  BY DEF Init, Stale, GlitchOnlyFirst, ParkedLow
<1>6. Lead  BY DEF Init, Lead, Backward
<1> QED  BY <1>1, <1>2, <1>3, <1>4, <1>5, <1>6 DEF IInv

LEMMA NextIInv == IInv /\ [Next]_vars => IInv'
<1> SUFFICES ASSUME IInv, [Next]_vars PROVE IInv'  OBVIOUS
<1>1. GlitchOnlyFirst'  BY GlitchStep
<1> QED
  BY <1>1, TypeStep, EndsStep, MidByteStep, DriftStep, LeadStep, StaleStep,
     ParkedLowStep DEF IInv

\* The inductive invariant of the pulse script, for every job and every order
\* of runs, stops, retraces, resumes and writes.
THEOREM Invariance == Spec => []IInv
BY InitIInv, NextIInv, PTL DEF Spec

\* Indices, direction and counters of the script stay in their ranges: the head
\* never leaves the data that was enqueued.
THEOREM TypeCorrect == Spec => []TypeOK
<1>1. IInv => TypeOK  BY DEF IInv
<1> QED  BY <1>1, Invariance, PTL

\* The laser line is low from the end of the data until the next run.
THEOREM DarkAfterData == Spec => []DarkAtEnd
<1>1. IInv => DarkAtEnd  BY DEF IInv, ParkedLow, DarkAtEnd
<1> QED  BY <1>1, Invariance, PTL

\* The position counter is within two steps a retrace of the path up to the head.
THEOREM PositionKept == Spec => []PositionNearPath
<1>1. IInv => PositionNearPath  BY DriftNear DEF IInv
<1> QED  BY <1>1, Invariance, PTL

\* In the dark the line is high at most between the two writes of the first step
\* byte of a run.
THEOREM GlitchIsFirst == Spec => []GlitchOnlyFirst
<1>1. IInv => GlitchOnlyFirst  BY DEF IInv
<1> QED  BY <1>1, Invariance, PTL

\* Between its two writes a byte is only left by the second, which shows the
\* byte's own laser bit outside the lead and nothing inside it.
LEMMA LeadShown ==
  IInv /\ [Next]_vars =>
    (place = "dir" /\ place' # "dir" =>
       (port_fire' <=>
          /\ Byte.fire
          /\ \/ request.kind = "run"
             \/ request.kind = "resume" /\ request.num_steps \in 1..played))
<1> SUFFICES ASSUME IInv, [Next]_vars, place = "dir", place' # "dir"
             PROVE  port_fire' <=>
                      /\ Byte.fire
                      /\ \/ request.kind = "run"
                         \/ request.kind = "resume" /\ request.num_steps \in 1..played
  OBVIOUS
<1> USE DEF IInv
<1>1. SetStep
  <2>1. ~(Start \/ Event \/ Parked \/ DataEnd \/ Power \/ SetDir)
    BY DEF Start, Event, Parked, DataEnd, Power, SetDir, Fetched
  <2>2. ~(\E b \in Bytes : Write(b)) /\ ~(\E r \in Requests : Granted(r))
    BY DEF Write, Granted, StartRun, Waiting
  <2>3. ~Stop /\ ~UNCHANGED vars  BY DEF Stop, vars
  <2> QED  BY <2>1, <2>2, <2>3, RunIsGranted DEF Next, Script, Host
<1>2. port_fire' <=> Byte.fire /\ ~Backward /\ ~inhibit
  BY <1>1, Zenon DEF SetStep, LaserBit
<1>3. dir # 0  BY DEF MidByte
<1>4. /\ request.kind \in {"run", "backtrack", "resume"}
      /\ request.num_steps \in Nat /\ played \in Nat
  BY ScriptAssumption DEF TypeOK, Requests
<1>5. CASE request.kind = "run"  BY <1>2, <1>3, <1>5 DEF Lead
<1>6. CASE request.kind = "backtrack"  BY <1>2, <1>3, <1>6 DEF Lead
<1>7. CASE request.kind = "resume"
  <2>1. ~Backward /\ (inhibit <=> request.num_steps = 0 \/ played < request.num_steps)
    BY <1>3, <1>7 DEF Lead
  <2>2. ~(request.num_steps = 0 \/ played < request.num_steps)
        <=> request.num_steps \in 1..played
    BY <1>4
  <2> QED  BY <1>2, <1>7, <2>1, <2>2
<1> QED  BY <1>4, <1>5, <1>6, <1>7

\* A resume's lead is exact, for any length and wherever the run began.
THEOREM LeadIsExact == Spec => LeadExact
<1>1. IInv /\ [Next]_vars =>
        [place = "dir" /\ place' # "dir" =>
           (port_fire' <=>
              /\ Byte.fire
              /\ \/ request.kind = "run"
                 \/ request.kind = "resume" /\ request.num_steps \in 1..played)]_vars
  BY LeadShown
<1> QED  BY <1>1, Invariance, PTL DEF Spec, LeadExact

\* However a job is stopped, retraced and resumed, new ground is played with the power
\* the old one ended with (preserve_power in cnc.c, do_power in sdma.asm).
THEOREM PowerSurvives == Spec => []PauseKeepsPower
<1>1. Init => SeenShort /\ PowerKept
  <2> SUFFICES ASSUME Init PROVE SeenShort /\ PowerKept  OBVIOUS
  <2>1. seen = FALSE /\ furthest = 0 /\ head = 0 /\ held = Idle /\ pwm = Idle
    BY DEF Init
  <2> QED  BY <2>1 DEF SeenShort, PowerKept
<1>2. IInv /\ (SeenShort /\ PowerKept) /\ [Next]_vars => (SeenShort /\ PowerKept)'
  BY SeenShortStep, PowerKeptStep DEF IInv
<1>3. IInv /\ (SeenShort /\ PowerKept) => PauseKeepsPower
  <2> SUFFICES ASSUME IInv, PowerKept, head = furthest, NoPowerTwice, held # Unset
               PROVE  held = pwm
    BY DEF PauseKeepsPower
  <2>1. furthest \in Nat  BY DEF IInv, TypeOK
  <2>2. Dull(head + 1, furthest)  BY <2>1 DEF Dull
  <2> QED  BY <2>2 DEF PowerKept
<1> QED  BY <1>1, <1>2, <1>3, Invariance, PTL DEF Spec

-----------------------------------------------------------------------------
(* A byte at a time.                                                       *)

PlayStep == Player!PNext \/ UNCHANGED (Player!playVars)

\* The context begins as load_sdma_script() leaves it.
LEMMA PlayerInit == Init => Player!PInit
  BY DEF Init, FireLit, Player!PInit

\* A step that leaves the context and the data alone dims at most.
LEMMA DimsAtMost ==
  ASSUME UNCHANGED <<data, head, tail, dir, waypoint, inhibit>>,
         UNCHANGED FireLit \/ FireLit' = FALSE
  PROVE  PlayStep
  BY DEF PlayStep, Player!PNext, Player!Dim, Player!playVars, Player!aimVars

\* The end of a byte is where the head moves, with what the byte leaves of the light.
LEMMA BytePlays ==
  ASSUME TypeOK, UNCHANGED data, dir # 0, head # tail, EndByte, FireLit' \in Player!Shown
  PROVE  PlayStep
<1>1. /\ head' = head + dir
      /\ waypoint' = IF waypoint > 0 /\ waypoint # 1 THEN waypoint - 1 ELSE 0
      /\ inhibit' = (inhibit /\ waypoint # 1) /\ UNCHANGED <<tail, dir>>
  BY DEF EndByte, WaypointHit
<1>2. waypoint' = IF waypoint > 0 THEN waypoint - 1 ELSE 0
  BY <1>1 DEF TypeOK
<1>3. Player!Play
  BY <1>1, <1>2 DEF Player!Play, Player!aimVars
<1> QED
  BY <1>3 DEF PlayStep, Player!PNext

\* A port that is left alone shows what it did, and a dark one is always among what a
\* byte may show.
LEMMA ShownFacts ==
  ASSUME TypeOK PROVE FALSE \in Player!Shown /\ FireLit \in Player!Shown
  BY DEF Player!Shown, FireLit, TypeOK

\* Each step of the script is a byte, the end of the data or a dimming.
LEMMA ScriptPlays ==
  ASSUME IInv, Script PROVE PlayStep
<1>0. TypeOK /\ MidByte
  BY DEF IInv
<1>1. CASE Start
  BY <1>1, DimsAtMost DEF Start, FireLit, contextVars
<1>2. CASE Event
  BY <1>2, DimsAtMost DEF Event, FireLit, contextVars
<1>3. CASE Parked
  BY <1>3, DimsAtMost DEF Parked, LinesLow, FireLit, contextVars
<1>4. CASE SetDir
  BY <1>4, DimsAtMost DEF SetDir, FireLit, contextVars
<1>5. CASE DataEnd
  <2>1. FireLit' = FALSE
    BY <1>5 DEF DataEnd, LinesLow, FireLit
  <2>2. dir # 0 /\ head = tail
    BY <1>5 DEF DataEnd, IsParked
  <2>3. Player!RunOut
    BY <1>5, <2>1, <2>2 DEF DataEnd, Player!RunOut
  <2> QED
    BY <2>3 DEF PlayStep, Player!PNext
<1>6. CASE Power
  <2>1. UNCHANGED data /\ dir # 0 /\ head # tail /\ EndByte
    BY <1>6 DEF Power, Fetched, IsParked
  <2>2. place = "fetch" /\ place' \in {"rest", "fetch"} /\ UNCHANGED port_fire
    BY <1>6 DEF Power, Fetched
  <2>3. FireLit' = FireLit
    BY <2>2 DEF FireLit
  <2> QED
    BY <1>0, <2>1, <2>3, ShownFacts, BytePlays
<1>7. CASE SetStep
  <2>1. UNCHANGED data /\ EndByte /\ place = "dir"
    BY <1>7 DEF SetStep
  <2>2. dir # 0 /\ head # tail
    BY <1>0, <2>1 DEF MidByte
  <2>3. place' = "rest" /\ port_fire' = LaserBit
    BY <1>7 DEF SetStep
  <2>0. LaserBit \in BOOLEAN
    BY DEF LaserBit
  <2>4. FireLit' = LaserBit
    <3>1. FireLit' <=> LaserBit
      BY <2>3 DEF FireLit
    <3> QED
      BY <2>0, <3>1 DEF FireLit
  <2>5. CASE Backward \/ inhibit
    <3>1. LaserBit = FALSE
      BY <2>5 DEF LaserBit
    <3> QED
      BY <1>0, <2>1, <2>2, <2>4, <3>1, ShownFacts, BytePlays
  <2>6. CASE ~(Backward \/ inhibit)
    <3>1. Player!Shown = BOOLEAN
      BY <2>6 DEF Player!Shown, Backward
    <3> QED
      BY <1>0, <2>0, <2>1, <2>2, <2>4, <3>1, BytePlays
  <2> QED
    BY <2>5, <2>6
<1> QED
  BY <1>1, <1>2, <1>3, <1>4, <1>5, <1>6, <1>7 DEF Script

\* A granted run aims the script and puts FIRE out or leaves it.
LEMMA StartAims ==
  ASSUME NEW r \in Requests, StartRun(r) PROVE PlayStep
<1>1. UNCHANGED <<data, head>> /\ port_fire' \in {port_fire, FALSE}
  BY DEF StartRun
<1>2. \/ dir' = 1 /\ tail' = Len(data)
      \/ dir' = -1 /\ tail' = 0
  BY DEF StartRun, DeadStop
<1>3. waypoint' \in Nat /\ inhibit' \in BOOLEAN
  <2>1. r.num_steps \in Nat
    BY ScriptAssumption DEF Requests
  <2> QED
    BY <2>1 DEF StartRun, Inhibit
<1>4. FireLit' \in {FireLit, FALSE}
  BY <1>1, Zenon DEF StartRun, FireLit, Waiting, Places
<1>5. Player!Aim
  BY <1>1, <1>2, <1>3, <1>4 DEF Player!Aim
<1> QED
  BY <1>5 DEF PlayStep, Player!PNext

\* Each step of the host feeds the script or aims it; a stop changes nothing of it, also
\* in the middle of a byte.
LEMMA HostPlays ==
  ASSUME TypeOK, Host PROVE PlayStep
<1>1. ASSUME NEW b \in Bytes, Write(b) PROVE PlayStep
  <2>1. Len(data') = Len(data) + 1
    BY <1>1 DEF Write, TypeOK
  <2>2. FireLit' = FireLit
    BY <1>1 DEF Write, FireLit
  <2>3. Player!Feed
    BY <1>1, <2>1, <2>2 DEF Write, Player!Feed
  <2> QED
    BY <2>3 DEF PlayStep, Player!PNext
<1>2. CASE Run
  <2>1. [kind |-> "run", num_steps |-> 0] \in Requests
    BY ScriptAssumption DEF Requests
  <2> QED
    BY <1>2, <2>1, StartAims DEF Run
<1>3. ASSUME NEW n \in 0..MaxLead, Resume(n) PROVE PlayStep
  <2>1. [kind |-> "resume", num_steps |-> n] \in Requests
    BY DEF Requests
  <2> QED
    BY <1>3, <2>1, StartAims DEF Resume
<1>4. ASSUME NEW n \in 0..MaxLead, Backtrack(n) PROVE PlayStep
  <2>1. [kind |-> "backtrack", num_steps |-> n] \in Requests
    BY DEF Requests
  <2> QED
    BY <1>4, <2>1, StartAims DEF Backtrack
<1>5. CASE Stop
  BY <1>5, DimsAtMost DEF Stop, FireLit, contextVars
<1> QED
  BY <1>1, <1>2, <1>3, <1>4, <1>5 DEF Host

\* The script's port writes make up bytes as Cnc's engine plays them, in one step each:
\* whatever is stopped, parked, retraced or resumed among the writes.
THEOREM ImplementsPlayback == Spec => PlaybackSpec
<1>1. IInv /\ [Next]_vars => [Player!PNext]_(Player!playVars)
  <2> SUFFICES ASSUME IInv, [Next]_vars PROVE PlayStep
    BY DEF PlayStep
  <2>1. TypeOK
    BY DEF IInv
  <2>2. CASE UNCHANGED vars
    BY <2>2, DimsAtMost DEF vars, contextVars, FireLit
  <2> QED
    BY <2>1, <2>2, ScriptPlays, HostPlays DEF Next
<1> QED
  BY <1>1, PlayerInit, Invariance, PTL DEF Spec, PlaybackSpec, Player!PSpec
=============================================================================
