------------------------------ MODULE PulseRing ------------------------------
(***************************************************************************)
(* The pulse ring: the kfifo of src/cnc_buffer.c, which the host writes,   *)
(* and the index registers of the SDMA script (asm/sdma.asm), which reads  *)
(* it forward or backward.  The two sides share no lock.  They exchange    *)
(* the play index (scratch4, fetched into kfifo.out) and the tail          *)
(* (scratch5, published after a write), each by a transfer that sleeps.    *)
(*                                                                         *)
(* Bytes are numbered from 0 since the last clear and a slot holds the     *)
(* number of the byte last copied into it, so that "genuine" can be said.  *)
(* A power byte moves the indices like any other and is not told apart.    *)
(* The state machine around a run is module Cnc; here runs start one at a  *)
(* time, and a stop comes at any tick.                                     *)
(***************************************************************************)
EXTENDS Integers, Backtrack   \* the indices wrap at Word

CONSTANTS
  Procs,        \* tasks holding the device file or reading its attributes
  Size,         \* ring size, a power of two
  Gap,          \* CNC_BUFFER_GAP_SIZE
  Tails,        \* cnc_backtrack_decel_steps() at the speeds that are set
  MaxTotal,     \* bound: bytes enqueued since the last clear
  MaxWrite,     \* bound: bytes in one write()
  Failing,      \* which of the user copy and the context transfers may fail
  Preempt       \* whether a system call is preempted between two statements

Free == "free"

ASSUME RingAssumption ==
  /\ Free \notin Procs
  /\ Size \in Nat \ {0} /\ Gap \in 1..(Size - 1)
  /\ Word % Size = 0 /\ Word > Size
  /\ Tails \subseteq Nat /\ MaxTotal \in Nat
  /\ MaxWrite \in Nat \ {0} /\ MaxWrite + Gap < Word
  /\ Failing \subseteq {"fetch", "copy", "publish", "clear"}
  /\ Preempt \in BOOLEAN

VARIABLES
  slots,               \* the ring memory
  fifo_in, fifo_out,   \* kfifo.in and kfifo.out
  total,               \* pulsebuf_total_bytes
  head, tail, dir,     \* scratch4, scratch5, scratch6
  run,                 \* "no", "forward" or "backward"
  left,                \* scratch7: steps to the waypoint of a backward run
  reserve,             \* history: what is left of the bytes held back for its
                       \* ramp
  lock,                \* pulsebuf_lock
  pc, arg,             \* per task: the call it is in and a value it holds
  at,                  \* history: the number of the byte the head is on
  furthest,            \* history: the furthest that the head has been
  refused,             \* history: the first byte of the last write refused late
  harm                 \* history: transfers that failed half way since a clear

hostVars   == <<fifo_in, fifo_out, total>>
scriptVars == <<head, tail, dir>>
owed       == <<left, reserve>>
histVars   == <<at, furthest, refused, harm>>
vars == <<slots, hostVars, scriptVars, run, owed, lock, pc, arg, histVars>>

Slot(index) == index % Size   \* kfifo.mask; "and r0, r4" in the script
Empty == -1                   \* a slot that was never written

Add(index, n) == (index + n) % Word
Sub(a, b) == (a - b) % Word

\* kfifo_avail(): the size less the number of bytes between the two indices, an
\* unsigned difference too.
Avail(in, out) == Sub(Size, Sub(in, out))

\* A task between two statements of one stretch, rather than asleep, can be
\* overtaken by another task only where the kernel is preemptible.
Busy == {"write_room", "clear_read"}
Places == Busy \cup {"idle", "write_sync", "write_publish", "clear_load",
                     "free_store", "run_asked"}

TypeOK ==
  /\ slots \in [0..(Size - 1) -> Empty..MaxTotal]
  /\ fifo_in \in 0..(Word - 1) /\ fifo_out \in 0..(Word - 1)
  /\ total \in 0..MaxTotal
  /\ head \in 0..(Word - 1) /\ tail \in 0..(Word - 1)
  /\ dir \in {-1, 0, 1}
  /\ run \in {"no", "forward", "backward"}
  /\ left \in 0..(Word - 1) /\ reserve \in 0..(Word - 1)
  /\ lock \in Procs \cup {Free}
  /\ pc \in [Procs -> Places]
  /\ arg \in [Procs -> 0..(Word - 1)]
  /\ at \in Int /\ furthest \in 0..MaxTotal
  /\ refused \in Empty..MaxTotal
  /\ harm \subseteq {"copy", "clear"}

Init ==
  /\ slots = [i \in 0..(Size - 1) |-> Empty]
  /\ fifo_in = 0 /\ fifo_out = 0 /\ total = 0
  /\ head = 0 /\ tail = 0 /\ dir = 1
  /\ run = "no" /\ left = 0 /\ reserve = 0
  /\ lock = Free
  /\ pc = [p \in Procs |-> "idle"] /\ arg = [p \in Procs |-> 0]
  /\ at = 0 /\ furthest = 0 /\ refused = Empty /\ harm = {}

-----------------------------------------------------------------------------
(* Enqueueing: cnc_buffer_add_user_data().                                 *)

\* Task p is scheduled at this place of its call.
At(p, place) ==
  /\ pc[p] = place
  /\ Preempt \/ \A q \in Procs \ {p} : pc[q] \notin Busy

Enter(p, place, n) ==
  /\ pc' = [pc EXCEPT ![p] = place]
  /\ arg' = [arg EXCEPT ![p] = n]

Leave(p) == Enter(p, "idle", 0)

Mut_WriteDuringBackward == FALSE
WriteRejected == run = "backward"

\* Take the lock and refuse a backward run.
WriteBegin(p, n) ==
  /\ At(p, "idle") /\ lock = Free
  /\ ~WriteRejected
  /\ total + n <= MaxTotal
  /\ lock' = p
  /\ Enter(p, "write_sync", n)
  /\ UNCHANGED <<slots, hostVars, scriptVars, run, owed, histVars>>

\* cnc_buffer_sync_head(); a fetch that fails ends the call.
WriteSync(p) ==
  /\ At(p, "write_sync")
  /\ \/ fifo_out' = head /\ Enter(p, "write_room", arg[p]) /\ UNCHANGED lock
     \/ "fetch" \in Failing /\ Leave(p) /\ lock' = Free /\ UNCHANGED fifo_out
  /\ UNCHANGED <<slots, fifo_in, total, scriptVars, run, owed, histVars>>

Mut_RoomWithoutGap(n) == Avail(fifo_in, fifo_out) >= n
HasRoom(n) == Avail(fifo_in, fifo_out) >= n + Gap

\* The ring with n bytes copied in at the write index, numbered from b.
CopiedIn(n, b) ==
  [i \in DOMAIN slots |->
     LET k == (i - fifo_in) % Size IN IF k < n THEN b + k ELSE slots[i]]

\* The room test and the copy.  A faulting copy leaves the bytes it managed in
\* the ring's memory and takes the index back.
WriteRoom(p) ==
  LET n == arg[p] IN
  /\ At(p, "write_room")
  /\ \/ /\ HasRoom(n)
        /\ slots' = CopiedIn(n, total)
        /\ fifo_in' = Add(fifo_in, n) /\ total' = total + n
        /\ Enter(p, "write_publish", n)
        /\ UNCHANGED <<lock, harm>>
     \/ /\ IF HasRoom(n)
           THEN /\ "copy" \in Failing
                /\ \E part \in 0..(n - 1) :
                     /\ slots' = CopiedIn(part, total)
                     /\ harm' = IF part > 0 THEN harm \cup {"copy"} ELSE harm
           ELSE UNCHANGED <<slots, harm>>
        /\ Leave(p) /\ lock' = Free
        /\ UNCHANGED <<fifo_in, total>>
  /\ UNCHANGED <<fifo_out, scriptVars, run, owed, at, furthest, refused>>

\* Tell the script the new tail; if that fails, the caller gets an error.
WritePublish(p) ==
  /\ At(p, "write_publish")
  /\ \/ tail' = fifo_in /\ UNCHANGED refused
     \/ /\ "publish" \in Failing
        /\ refused' = total - arg[p]
        /\ UNCHANGED tail
  /\ lock' = Free
  /\ Leave(p)
  /\ UNCHANGED <<slots, hostVars, head, dir, run, owed, at, furthest, harm>>

-----------------------------------------------------------------------------
(* Clearing, and reading the free space.                                   *)

\* cnc_clear_pulse_data(): refused while running; kfifo_reset().
ClearBegin(p) ==
  /\ At(p, "idle") /\ lock = Free
  /\ run = "no"
  /\ lock' = p
  /\ fifo_in' = 0 /\ fifo_out' = 0
  /\ Enter(p, "clear_read", 0)
  /\ UNCHANGED <<slots, total, scriptVars, run, owed, histVars>>

\* The new play index is read back out of the kfifo; from here on the bytes are
\* numbered from 0 again, and no slot holds one.
ClearRead(p) ==
  /\ At(p, "clear_read")
  /\ Enter(p, "clear_load", fifo_out)
  /\ total' = 0
  /\ slots' = [i \in DOMAIN slots |-> Empty]
  /\ furthest' = 0 /\ refused' = Empty
  /\ UNCHANGED <<fifo_in, fifo_out, scriptVars, run, owed, lock, at,
                 harm>>

Mut_ClearKeepsHead(out) == head
ClearedHead(out) == out

\* The script's registers are loaded.
ClearLoad(p) ==
  /\ At(p, "clear_load")
  /\ \/ head' = ClearedHead(arg[p]) /\ tail' = fifo_in /\ harm' = {}
     \/ "clear" \in Failing /\ UNCHANGED <<head, tail>> /\ harm' = {"clear"}
  /\ at' = 0 - Sub(fifo_in, head')
  /\ lock' = Free
  /\ Leave(p)
  /\ UNCHANGED <<slots, hostVars, dir, run, owed, furthest, refused>>

\* free_show() fetches the play index without the lock, and stores it when the
\* transfer has completed.
FreeFetch(p) ==
  /\ At(p, "idle")
  /\ Enter(p, "free_store", head)
  /\ UNCHANGED <<slots, hostVars, scriptVars, run, owed, lock, histVars>>

FreeStore(p) ==
  /\ At(p, "free_store")
  /\ fifo_out' = arg[p]
  /\ Leave(p)
  /\ UNCHANGED <<slots, fifo_in, total, scriptVars, run, owed, lock, histVars>>

-----------------------------------------------------------------------------
(* Runs.                                                                   *)

MaxBacktrack(t) == MaxSteps(Size, Sub(fifo_in, head), total, t)

Mut_DeadStopOneRingBack == Sub(fifo_in, Size)
DeadStop == Sub(fifo_in, Span(Size, total))

HasData == fifo_in # head

\* The empty test, before the lock is taken.
RunAsk(p) ==
  /\ At(p, "idle") /\ run = "no"
  /\ fifo_out' = head
  /\ HasData
  /\ Enter(p, "run_asked", 0)
  /\ UNCHANGED <<slots, fifo_in, total, scriptVars, run, owed, lock, histVars>>

\* The rest of cnc_run_with_options() holds the lock while the head stands
\* still: one step.  A backward run has a waypoint, and ramps down from there on;
\* how far the ramp takes it is not decided here (module Ramp): it plays on until
\* the host stops it, or to the dead stop.
RunForward(p) ==
  /\ At(p, "run_asked") /\ lock = Free /\ run = "no"
  /\ tail' = fifo_in /\ dir' = 1
  /\ run' = "forward"
  /\ Leave(p)
  /\ UNCHANGED <<slots, hostVars, head, owed, lock, histVars>>

RunBackward(p, n, t) ==
  /\ At(p, "run_asked") /\ lock = Free /\ run = "no"
  /\ fifo_out' = head
  /\ n <= MaxBacktrack(t)
  /\ tail' = DeadStop /\ dir' = -1
  /\ run' = "backward" /\ left' = n /\ reserve' = t
  /\ Leave(p)
  /\ UNCHANGED <<slots, fifo_in, total, head, lock, histVars>>

\* Every other outcome: no history, a failed transfer, a fault, a busy driver.
RunRefused(p) ==
  /\ At(p, "run_asked") /\ lock = Free
  /\ Leave(p)
  /\ UNCHANGED <<slots, hostVars, scriptVars, run, owed, lock, histVars>>

\* A stop on any path; stop_generation moves, so a request that was under way
\* is refused.
StopRun ==
  /\ run # "no"
  /\ run' = "no" /\ left' = 0 /\ reserve' = 0
  /\ pc' = [p \in Procs |-> IF pc[p] = "run_asked" THEN "idle" ELSE pc[p]]
  /\ UNCHANGED <<slots, hostVars, scriptVars, lock, arg, histVars>>

-----------------------------------------------------------------------------
(* The script.                                                             *)

OutOfData == Slot(head) = Slot(tail)

Playing == run # "no" /\ dir # 0 /\ ~OutOfData

Consume ==
  /\ Playing
  /\ head' = Add(head, dir)
  /\ at' = at + dir
  /\ furthest' = IF at' > furthest THEN at' ELSE furthest
  /\ left' = IF left > 0 THEN left - 1 ELSE 0
  /\ reserve' = IF left > 0 \/ reserve = 0 THEN reserve ELSE reserve - 1
  /\ UNCHANGED <<slots, hostVars, tail, dir, run, lock, pc, arg, refused,
                 harm>>

Park ==
  /\ run # "no" /\ dir # 0 /\ OutOfData
  /\ dir' = 0 /\ left' = 0
  /\ UNCHANGED <<slots, hostVars, head, tail, run, reserve, lock, pc, arg,
                 histVars>>

-----------------------------------------------------------------------------
Next ==
  \/ \E p \in Procs :
       \/ \E n \in 1..MaxWrite : WriteBegin(p, n)
       \/ WriteSync(p) \/ WriteRoom(p) \/ WritePublish(p)
       \/ ClearBegin(p) \/ ClearRead(p) \/ ClearLoad(p)
       \/ FreeFetch(p) \/ FreeStore(p)
       \/ RunAsk(p) \/ RunForward(p) \/ RunRefused(p)
       \/ \E n \in 1..Size, t \in Tails : RunBackward(p, n, t)
  \/ StopRun \/ Consume \/ Park

Spec == Init /\ [][Next]_vars

-----------------------------------------------------------------------------
\* The script only ever executes bytes that were enqueued since the last clear
\* and that are still in the ring, forward and backward, while the writer
\* reuses the ring behind and ahead of it and the indices wrap; failed fetches
\* and publishes included.  A user copy that faults half way and a clear whose
\* context load fails are the exceptions (README, "Findings").
PlaysGenuine == Playing /\ harm = {} => slots[Slot(head)] = at /\ at >= 0

\* A failed clear leaves the script on the indices of before, whatever the host
\* believes; the rest is said of a ring without one.
Cleared == "clear" \notin harm

\* No byte that is still to be played is overwritten, again after a backtrack or
\* for the first time; the second holds of a faulting copy too.
UnplayedKept ==
  Cleared => \A k \in (IF harm = {} THEN at ELSE furthest)..(total - 1) :
               slots[k % Size] = k

\* The gap is a floor under the history: the Gap bytes behind the furthest
\* point played are in the ring, or all of them when fewer were played.
HistoryFloor ==
  Cleared => \A k \in 0..(furthest - 1) :
               k >= furthest - Gap => slots[k % Size] = k

\* A granted backtrack plays all the bytes it asked for, and after its waypoint at
\* least the bytes that were held back for its ramp, before it comes to the dead
\* stop, nor does it take the dead stop for the head it starts at.  A ramp that
\* plays more than that (module Ramp, TailWithinBudget) may well be cut short.
BacktrackHasRoom ==
  Cleared /\ run = "backward" /\ left + reserve > 0 => dir # 0 /\ ~OutOfData

\* What the host believes about the ring agrees with the script's indices.
IndicesAgree ==
  Cleared /\ lock = Free =>
    at = total - Sub(fifo_in, head) /\ Sub(fifo_in, head) <= Size

\* The ring is accounted for: the indices of both sides agree, and the bytes they
\* grant to a backtrack and hold back for its ramp are there.
Inv == TypeOK /\ IndicesAgree /\ BacktrackHasRoom

\* cnc_buffer.c: a write that failed is rolled back, "so kfifo.in never
\* diverges from what the SDMA engine will be told about (scratch5 is only
\* published on full success)".
RefusedNeverPlayed == Playing => at # refused
=============================================================================
