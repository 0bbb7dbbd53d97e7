------------------------------ MODULE SdmaScript ------------------------------
(***************************************************************************)
(* The pulse script of asm/sdma.asm at the grain of its port writes: what  *)
(* one EPIT event makes it do, with the registers it carries from one      *)
(* event to the next, and the host requests that change its context.       *)
(*                                                                         *)
(* The SDMA core does not preempt a script, and the host reaches a         *)
(* channel's context through a script of its own on channel 0, so the host *)
(* changes the context only while the script waits for an event.  The EPIT *)
(* is the host's and may be stopped at any moment.                         *)
(*                                                                         *)
(* The ring is linear (PulseRing has the wrapped one), the three axes are  *)
(* one, and racing run requests are the business of Cnc.                   *)
(***************************************************************************)
EXTENDS Integers, Sequences, FiniteSets

CONSTANTS
  Levels,       \* laser power levels a power byte may carry
  Steps,        \* kinds of step byte: records [step: -1..1, fire: BOOLEAN]
  MaxBytes,     \* bound: bytes enqueued
  MaxLead,      \* bound: largest num_steps a caller asks for
  MaxRetraces   \* bound: backward runs

ASSUME ScriptAssumption ==
  /\ Levels \subseteq Nat \ {0}
  /\ Steps \subseteq [step : {-1, 0, 1}, fire : BOOLEAN]
  /\ MaxBytes \in Nat /\ MaxLead \in Nat /\ MaxRetraces \in Nat

VARIABLES
  data,       \* the bytes enqueued so far; byte i of the ring is data[i + 1]
  \* the context words: scratch0 (one axis), 4, 5, 6, 7 and the inhibit
  x, head, tail, dir, waypoint, inhibit,
  seen,       \* bit 1 of r1: the last byte was a power level
  reg_fire,   \* the laser bits of r3
  place,      \* where the script is
  port_fire,  \* the laser bits of the GPIO data register
  pwm,        \* the laser PWM duty cycle
  running,    \* the EPIT ticks
  driven,     \* the run drives the laser lines: the latch was released
  \* history: the request that began this run and the bytes played under it
  request, played,
  \* history: how far the data was ever played, the power there, the retraces
  furthest, held, retraces

contextVars == <<x, head, tail, dir, waypoint, inhibit>>
hostVars == <<running, driven>>
historyVars == <<request, played, furthest, held, retraces>>
vars == <<data, contextVars, seen, reg_fire, place, port_fire, pwm, hostVars,
          historyVars>>

Idle == 0   \* LASER_PWM_IDLE_DUTY, a value no power byte can set
Unset == -1 \* history: a plain run began in the middle of the data

\* boot, rest: waiting at a "done 4", to go on at start or in the main loop;
\* fetch: looking for a byte; dir: direction bits written, steps to follow.
Places == {"boot", "rest", "fetch", "dir"}

PowerBytes == [level : Levels]
Bytes == Steps \cup PowerBytes
IsPower(b) == b \in PowerBytes

Requests == [kind : {"run", "backtrack", "resume"}, num_steps : 0..MaxLead]

TypeOK ==
  /\ data \in Seq(Bytes) /\ Len(data) <= MaxBytes
  /\ x \in Int /\ head \in 0..Len(data) /\ tail \in 0..Len(data)
  /\ dir \in {-1, 0, 1} /\ waypoint \in 0..MaxLead /\ inhibit \in BOOLEAN
  /\ seen \in BOOLEAN /\ reg_fire \in BOOLEAN /\ place \in Places
  /\ port_fire \in BOOLEAN /\ pwm \in Levels \cup {Idle}
  /\ running \in BOOLEAN /\ driven \in BOOLEAN
  /\ request \in Requests /\ played \in 0..MaxBytes
  /\ furthest \in head..Len(data) /\ held \in Levels \cup {Idle, Unset}
  /\ retraces \in 0..MaxRetraces

\* load_sdma_script() and the pins and PWM as probe leaves them.
Init ==
  /\ data = <<>>
  /\ x = 0 /\ head = 0 /\ tail = 0 /\ dir = 1 /\ waypoint = 0
  /\ inhibit = FALSE
  /\ seen = FALSE /\ reg_fire = FALSE /\ place = "boot"
  /\ port_fire = FALSE /\ pwm = Idle /\ running = FALSE /\ driven = FALSE
  /\ request = [kind |-> "run", num_steps |-> 0] /\ played = 0
  /\ furthest = 0 /\ held = Idle /\ retraces = 0

-----------------------------------------------------------------------------
(* The script.                                                             *)

Backward == dir = -1
Byte == data[head + 1]

\* start: constants and r3 afresh, and nothing played in this tick.
Start ==
  /\ running /\ place = "boot"
  /\ place' = "rest"
  /\ seen' = FALSE /\ reg_fire' = FALSE
  /\ UNCHANGED <<data, contextVars, port_fire, pwm, hostVars, historyVars>>

\* The event that begins a tick of the main loop.
Event ==
  /\ running /\ place = "rest"
  /\ place' = "fetch"
  /\ UNCHANGED <<data, contextVars, seen, reg_fire, port_fire, pwm, hostVars,
                 historyVars>>

\* alldone, first tick or parked: the laser lines are forced low.
Mut_LinesLeft == UNCHANGED <<reg_fire, port_fire>>
LinesLow == reg_fire' = FALSE /\ port_fire' = FALSE

\* The parked guard: direction zero means the end was signalled.
Mut_NoParkedGuard == FALSE
IsParked == dir = 0

Parked ==
  /\ place = "fetch"
  /\ IsParked
  /\ LinesLow
  /\ place' = "boot"
  /\ UNCHANGED <<data, contextVars, seen, pwm, hostVars, historyVars>>

\* alldone_first: the direction is zeroed and the waypoint disarmed.
DataEnd ==
  /\ place = "fetch"
  /\ ~IsParked /\ head = tail
  /\ LinesLow
  /\ dir' = 0 /\ waypoint' = 0
  /\ place' = "boot"
  /\ UNCHANGED <<data, x, head, tail, inhibit, seen, pwm, hostVars, historyVars>>

Fetched == place = "fetch" /\ ~IsParked /\ head # tail

\* endbyte: head moves on, and the waypoint byte ends the inhibit.
Mut_WaypointEarly == waypoint \in 1..2
WaypointHit == waypoint = 1

EndByte ==
  /\ head' = head + dir
  /\ waypoint' = IF waypoint > 0 /\ ~WaypointHit THEN waypoint - 1 ELSE 0
  /\ inhibit' = (inhibit /\ ~WaypointHit)
  /\ played' = played + 1
  /\ UNCHANGED <<tail, dir, request, retraces>>

\* History: where new ground is played, and the power it is played with.
Advance(level) ==
  IF ~Backward /\ head = furthest
  THEN /\ furthest' = head + 1
       /\ held' = IF held = Unset THEN Unset ELSE level
  ELSE UNCHANGED <<furthest, held>>

\* do_power: one level change in a row; none when running backward.  A change,
\* or one skipped, goes on with the next byte in the same tick.
PowerApplies == ~Backward

Power ==
  /\ Fetched
  /\ IsPower(Byte)
  /\ IF seen
     THEN place' = "rest" /\ UNCHANGED <<pwm, seen>>
     ELSE /\ place' = "fetch"
          /\ IF PowerApplies
             THEN pwm' = Byte.level /\ seen' = TRUE
             ELSE UNCHANGED <<pwm, seen>>
  /\ EndByte
  /\ Advance(pwm')
  /\ UNCHANGED <<data, x, reg_fire, port_fire, hostVars>>

\* set_dir: r3 goes to the port with its laser bits as the last byte left them.
SetDir ==
  /\ Fetched
  /\ ~IsPower(Byte)
  /\ port_fire' = reg_fire
  /\ place' = "dir"
  /\ UNCHANGED <<data, contextVars, seen, reg_fire, pwm, hostVars, historyVars>>

\* The byte's laser bit, off when backward, and the inhibit over it.
Mut_LaserBackward == Byte.fire /\ ~inhibit
LaserBit == Byte.fire /\ ~Backward /\ ~inhibit

\* The step bits reach the motors and the position counter.
StepTaken == IF Backward THEN -Byte.step ELSE Byte.step

\* set_step_and_laser, upd_x_pos, clear_step_bits.
SetStep ==
  /\ place = "dir"
  /\ reg_fire' = LaserBit /\ port_fire' = LaserBit
  /\ x' = x + StepTaken
  /\ seen' = FALSE
  /\ place' = "rest"
  /\ EndByte
  /\ Advance(pwm)
  /\ UNCHANGED <<data, pwm, hostVars>>

Script == Start \/ Event \/ Parked \/ DataEnd \/ Power \/ SetDir \/ SetStep

-----------------------------------------------------------------------------
(* The host.                                                               *)

Waiting == place \in {"boot", "rest"}

\* write(): one byte, published at once; refused while a backward run plays.
Write(b) ==
  /\ Waiting
  /\ ~(running /\ request.kind = "backtrack")
  /\ Len(data) < MaxBytes
  /\ data' = Append(data, b)
  /\ tail' = Len(data) + 1
  /\ UNCHANGED <<x, head, dir, waypoint, inhibit, seen, reg_fire, place,
                 port_fire, pwm, hostVars, historyVars>>

\* The laser inhibit of a resume, written on every run.
Inhibit(r) == r.kind = "resume"

\* preserve_power: only a plain run resets the duty cycle.
Mut_PowerReset(r) == Idle
PowerAtStart(r) == IF r.kind = "run" THEN Idle ELSE pwm

\* Where a backward run stops dead: the oldest byte of the data.
DeadStop == 0

\* A run request that was granted, whole: tail, direction and waypoint, the
\* inhibit, the duty cycle, and, if the laser latch is released, FIRE driven low
\* before the first tick.
StartRun(r) ==
  /\ Waiting
  /\ ~running
  /\ head # Len(data)
  /\ tail' = IF r.kind = "backtrack" THEN DeadStop ELSE Len(data)
  /\ dir' = IF r.kind = "backtrack" THEN -1 ELSE 1
  /\ waypoint' = r.num_steps
  /\ inhibit' = Inhibit(r)
  /\ pwm' = PowerAtStart(r)
  /\ driven' \in BOOLEAN
  /\ port_fire' = (port_fire /\ ~driven')
  /\ running' = TRUE
  /\ request' = r /\ played' = 0
  /\ held' = IF r.kind = "run" /\ head > 0 THEN Unset ELSE held
  /\ UNCHANGED <<data, x, head, seen, reg_fire, place, furthest>>

Run ==
  /\ StartRun([kind |-> "run", num_steps |-> 0])
  /\ UNCHANGED retraces

Resume(n) ==
  /\ StartRun([kind |-> "resume", num_steps |-> n])
  /\ UNCHANGED retraces

Backtrack(n) ==
  /\ n \in 1..head
  /\ retraces < MaxRetraces
  /\ StartRun([kind |-> "backtrack", num_steps |-> n])
  /\ retraces' = retraces + 1

\* Any stop: end of data, ramp, halt or fault parks the laser lines.  The tick
\* under way is finished.
Stop ==
  /\ running
  /\ running' = FALSE /\ driven' = FALSE
  /\ UNCHANGED <<data, contextVars, seen, reg_fire, place, port_fire, pwm,
                 historyVars>>

Host ==
  \/ \E b \in Bytes : Write(b)
  \/ Run \/ \E n \in 0..MaxLead : Resume(n) \/ Backtrack(n)
  \/ Stop

Next == Script \/ Host

Spec == Init /\ [][Next]_vars

-----------------------------------------------------------------------------
\* The laser line of the port is low once the data has run out, and stays low
\* whatever is enqueued, until the next run plays a byte.
DarkAtEnd == dir = 0 => ~port_fire

\* A resume's lead is exact: its first num_steps bytes are dark, each later
\* byte shows its own laser bit; with no waypoint the whole run is dark.
LeadExact ==
  [][place = "dir" /\ place' # "dir" =>
       (port_fire' <=>
          /\ Byte.fire
          /\ \/ request.kind = "run"
             \/ request.kind = "resume" /\ request.num_steps \in 1..played)]_vars

\* The sum of the steps before the play head, as a forward pass takes them.
StepOf(i) == IF IsPower(data[i]) THEN 0 ELSE data[i].step
Path(h) == Cardinality({i \in 1..h : StepOf(i) = 1})
           - Cardinality({i \in 1..h : StepOf(i) = -1})

\* Every byte moves the head once, whatever is stopped, parked, retraced and
\* resumed: a retrace is off by at most the byte at each of its ends (the one
\* under the head is played backward first, the one at the end is not).
PositionNearPath == x - Path(head) \in (-2 * retraces)..(2 * retraces)

\* However a job is paused, retraced and resumed, new ground is played with the
\* power the old one ended with.  The job was begun by one plain run, which
\* resets the power, and has no two power bytes in a row.
NoPowerTwice ==
  \A i \in 1..(Len(data) - 1) : ~(IsPower(data[i]) /\ IsPower(data[i + 1]))

PauseKeepsPower ==
  place = "dir" /\ head = furthest /\ ~Backward /\ NoPowerTwice =>
    held \in {pwm, Unset}

\* In a lead and in a backward run a driven laser line can be high only between the
\* two port writes of the first step byte of the run.
Before(i) == data[IF Backward THEN head + 1 + i ELSE head + 1 - i]

GlitchOnlyFirst ==
  driven /\ port_fire /\ (inhibit \/ Backward) =>
    place = "dir" /\ \A i \in 1..played : IsPower(Before(i))

\* Several port writes make a byte: a stop, a request or a parked tick in any place
\* among them leaves the context as if the byte had been played at once.  The
\* port is not looked at between the two writes of a step (GlitchOnlyFirst does).
FireLit == port_fire /\ place # "dir"
Player == INSTANCE Playback WITH fed <- Len(data), lit <- FireLit
PlaybackSpec == Player!PSpec

-----------------------------------------------------------------------------
(* What the documentation says and the code does not do.                   *)

\* cnc.c: the script "masks the laser bits out of every GPIO word it writes
\* until the waypoint byte clears the mask".
MaskedDark == driven /\ inhibit => ~port_fire

\* cnc_backtrack.h: "walking backward is legal only over bytes that are ...
\* already played".
BackwardOverPlayed == place = "dir" /\ Backward => head < furthest
=============================================================================
