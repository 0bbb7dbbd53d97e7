--------------------------- MODULE PulseRingProofs ---------------------------
(***************************************************************************)
(* What the pulse ring guarantees, for every ring size, gap, register      *)
(* width, write size and set of tasks, and every order of writes, clears,  *)
(* runs, backtracks and failed transfers, of a kernel that does not take   *)
(* the processor from a task between two statements.                       *)
(*                                                                         *)
(* The registers are 32-bit numbers that wrap; the argument is about the   *)
(* bytes' own numbers, which do not.  The invariant says which register    *)
(* holds which byte's number modulo Word, and how far apart the numbers    *)
(* are; a difference of registers is then the difference of the numbers    *)
(* as long as that is less than Word.                                      *)
(***************************************************************************)
EXTENDS PulseRing, TLAPS

USE DEF owed

-----------------------------------------------------------------------------
(* The arithmetic of src/cnc_backtrack.h.                                    *)

\* A register that stays within its range is not changed by wrapping.
LEMMA NoWrap ==
  ASSUME NEW n \in Nat, n < Word
  PROVE  n % Word = n
  BY WordAssumption

\* The resident part of the ring is what the unplayed bytes leave of it.
LEMMA GenuineIs ==
  ASSUME NEW size \in Nat, size < Word, NEW unplayed \in 0..size,
         NEW sum \in Nat, unplayed <= sum
  PROVE  /\ Genuine(size, unplayed, sum) \in Nat
         /\ Genuine(size, unplayed, sum) <= sum - unplayed
         /\ Genuine(size, unplayed, sum) <= size - unplayed
         /\ Genuine(size, unplayed, sum) =
              Span(size, sum) - unplayed
<1>1. size - unplayed \in Nat /\ size - unplayed < Word
  BY WordAssumption
<1>2. (size - unplayed) % Word = size - unplayed  BY <1>1, NoWrap
<1> QED  BY <1>2 DEF Genuine, Span

\* cnc_backtrack.h, "the genuine span less that tail": a backward run that is
\* granted n steps has played n + decel bytes, and still has them all between
\* the play head and the dead stop, so its waypoint and its ramp come first.
THEOREM GrantFits ==
  ASSUME NEW size \in Nat, size < Word, NEW unplayed \in 0..size,
         NEW sum \in Nat, unplayed <= sum, NEW decel \in Nat,
         NEW n \in Nat \ {0}, n <= MaxSteps(size, unplayed, sum, decel)
  PROVE  /\ n + decel <= sum - unplayed
         /\ unplayed + n + decel <= Span(size, sum)
<1>1. /\ Genuine(size, unplayed, sum) \in Nat
      /\ Genuine(size, unplayed, sum) <= sum - unplayed
      /\ Genuine(size, unplayed, sum) = Span(size, sum) - unplayed
  BY GenuineIs
<1>2. n + decel <= Genuine(size, unplayed, sum)  BY <1>1 DEF MaxSteps
<1>3. Span(size, sum) \in Nat  BY DEF Span
<1> QED  BY <1>1, <1>2, <1>3

\* cnc_backtrack.h: "The retained gap IS the backtrack history".  A ring that
\* the writer left a gap in, and that has played as much, grants the gap less
\* the tail, however full it is.
THEOREM GapIsGranted ==
  ASSUME NEW size \in Nat, size < Word, NEW gap \in 0..size,
         NEW unplayed \in 0..(size - gap),
         NEW sum \in Nat, unplayed + gap <= sum, NEW decel \in 0..gap
  PROVE  MaxSteps(size, unplayed, sum, decel) >= gap - decel
<1>1. unplayed \in 0..size /\ unplayed <= sum  OBVIOUS
<1>2. Genuine(size, unplayed, sum) = Span(size, sum) - unplayed
  BY <1>1, GenuineIs
<1>3. Genuine(size, unplayed, sum) >= gap  BY <1>2 DEF Span
<1>4. Genuine(size, unplayed, sum) \in Nat  BY <1>1, GenuineIs
<1> QED  BY <1>3, <1>4 DEF MaxSteps

\* Nothing that was not played is granted: a job that has not played a byte
\* has no history, however much of it is enqueued.
THEOREM UnplayedHasNoHistory ==
  ASSUME NEW size \in Nat, size < Word, NEW sum \in 0..size, NEW decel \in Nat
  PROVE  MaxSteps(size, sum, sum, decel) = 0
<1>1. Genuine(size, sum, sum) \in Nat /\ Genuine(size, sum, sum) <= 0
  BY GenuineIs
<1> QED  BY <1>1 DEF MaxSteps

-----------------------------------------------------------------------------
(* Numbers and what is left of them in a register.                           *)

\* A number is a multiple of the modulus and the register's content.
LEMMA ModSplit ==
  ASSUME NEW x \in Int, NEW w \in Nat \ {0}
  PROVE  /\ x % w \in Int /\ 0 <= x % w /\ x % w < w
         /\ x \div w \in Int
         /\ x = w * (x \div w) + (x % w)
<1>1. w \in Nat /\ w > 0  BY SMT
<1>2. x = w * (x \div w) + (x % w)  BY <1>1, SMT
<1>3. x % w \in Int /\ 0 <= x % w /\ x % w < w /\ x \div w \in Int  BY SMT
<1> QED  BY <1>2, <1>3

\* Two contents whose difference is a multiple of the modulus are the same.
LEMMA ModUnique ==
  ASSUME NEW w \in Nat \ {0}, NEW q \in Int, NEW r \in Int, NEW t \in Int,
         0 <= r, r < w, 0 <= t, t < w, r - t = w * q
  PROVE  r = t
<1>1. CASE q = 0  BY <1>1, SMT
<1>2. CASE q >= 1
  <2>1. w * q >= w  BY <1>2, SMT
  <2> QED  BY <2>1, SMT
<1>3. CASE q <= -1
  <2>1. w * q <= -w  BY <1>3, SMT
  <2> QED  BY <2>1, SMT
<1> QED  BY <1>1, <1>2, <1>3, SMT

Multiple(d, w) == \E q \in Int : d = w * q

\* Numbers that differ by a multiple of the modulus have the same content.
LEMMA ModCongruent ==
  ASSUME NEW x \in Int, NEW y \in Int, NEW w \in Nat \ {0}, Multiple(x - y, w)
  PROVE  x % w = y % w
<1>0. PICK q \in Int : x - y = w * q  BY DEF Multiple
<1>1. /\ x % w \in Int /\ 0 <= x % w /\ x % w < w /\ x \div w \in Int
      /\ x = w * (x \div w) + (x % w)
  BY ModSplit
<1>2. /\ y % w \in Int /\ 0 <= y % w /\ y % w < w /\ y \div w \in Int
      /\ y = w * (y \div w) + (y % w)
  BY ModSplit
<1> DEFINE a == x \div w  b == y \div w  r == x % w  t == y % w
<1>3. /\ r \in Int /\ 0 <= r /\ r < w /\ a \in Int /\ x = w * a + r
      /\ t \in Int /\ 0 <= t /\ t < w /\ b \in Int /\ y = w * b + t
  BY <1>1, <1>2
<1> HIDE DEF a, b, r, t
<1>4. r - t = w * (q - a + b) /\ q - a + b \in Int
  <2>1. w * (q - a + b) = w * q - w * a + w * b  BY <1>3, SMT
  <2>2. w * q \in Int /\ w * a \in Int /\ w * b \in Int  BY <1>3, SMT
  <2> QED  BY <1>0, <2>1, <2>2, <1>3, SMT
<1>5. r = t  BY <1>3, <1>4, ModUnique
<1> QED  BY <1>5 DEF r, t

\* A number below the modulus is its own content.
LEMMA ModSmall ==
  ASSUME NEW x \in Int, NEW w \in Nat \ {0}, 0 <= x, x < w
  PROVE  x % w = x
  BY SMT

\* Sums and differences may be taken of the contents.
LEMMA ModArith ==
  ASSUME NEW x \in Int, NEW y \in Int, NEW w \in Nat \ {0}
  PROVE  /\ ((x % w) + y) % w = (x + y) % w
         /\ ((x % w) - y) % w = (x - y) % w
         /\ ((x % w) - (y % w)) % w = (x - y) % w
         /\ (x - (y % w)) % w = (x - y) % w
<1> DEFINE a == x \div w  b == y \div w  r == x % w  t == y % w
<1>1. /\ r \in Int /\ a \in Int /\ x = w * a + r
      /\ t \in Int /\ b \in Int /\ y = w * b + t
  BY ModSplit
<1> HIDE DEF a, b, r, t
<1>2. w * a \in Int /\ w * b \in Int  BY <1>1, SMT
<1>3. (x + y) - (r + y) = w * a  BY <1>1, <1>2, SMT
<1>4. (x - y) - (r - y) = w * a  BY <1>1, <1>2, SMT
<1>5. (x - y) - (r - t) = w * (a - b)
  <2>1. w * (a - b) = w * a - w * b  BY <1>1, SMT
  <2> QED  BY <2>1, <1>1, <1>2, SMT
<1>6. (x - t) - (x - y) = w * b  BY <1>1, <1>2, SMT
<1>7. /\ x + y \in Int /\ x - y \in Int /\ r + y \in Int /\ r - y \in Int
      /\ r - t \in Int /\ x - t \in Int /\ a - b \in Int
  BY <1>1, SMT
<1>8. (r + y) % w = (x + y) % w
  <2>1. Multiple((x + y) - (r + y), w)  BY <1>1, <1>3 DEF Multiple
  <2> QED  BY <2>1, <1>7, ModCongruent, Zenon
<1>9. (r - y) % w = (x - y) % w
  <2>1. Multiple((x - y) - (r - y), w)  BY <1>1, <1>4 DEF Multiple
  <2> QED  BY <2>1, <1>7, ModCongruent, Zenon
<1>10. (r - t) % w = (x - y) % w
  <2>1. Multiple((x - y) - (r - t), w)  BY <1>5, <1>7 DEF Multiple
  <2> QED  BY <2>1, <1>7, ModCongruent, Zenon
<1>11. (x - t) % w = (x - y) % w
  <2>1. Multiple((x - t) - (x - y), w)  BY <1>1, <1>6 DEF Multiple
  <2> QED  BY <2>1, <1>7, ModCongruent, Zenon
<1> QED  BY <1>8, <1>9, <1>10, <1>11 DEF r, t

\* A modulus that divides another one sees through it.
LEMMA ModDivides ==
  ASSUME NEW x \in Int, NEW w \in Nat \ {0}, NEW s \in Nat \ {0}, w % s = 0
  PROVE  (x % w) % s = x % s
<1> DEFINE a == x \div w  r == x % w  c == w \div s
<1>1. r \in Int /\ a \in Int /\ x = w * a + r  BY ModSplit
<1>2. c \in Int /\ w = s * c
  <2>1. w \div s \in Int /\ w = s * (w \div s) + (w % s)  BY ModSplit
  <2>2. s * (w \div s) \in Int  BY <2>1, SMT
  <2> QED  BY <2>1, <2>2, SMT
<1> HIDE DEF a, r, c
<1>3. x - r = s * (c * a)
  <2>1. s * (c * a) = w * a  BY <1>1, <1>2, SMT
  <2>2. w * a \in Int  BY <1>1, SMT
  <2> QED  BY <2>1, <2>2, <1>1, SMT
<1>4. c * a \in Int  BY <1>1, <1>2, SMT
<1>5. Multiple(x - r, s)  BY <1>3, <1>4 DEF Multiple
<1>6. x % s = r % s  BY <1>1, <1>5, ModCongruent
<1> QED  BY <1>6 DEF r

\* Numbers less than the modulus apart are told apart by their contents.
LEMMA ModApart ==
  ASSUME NEW x \in Int, NEW y \in Int, NEW w \in Nat \ {0},
         x % w = y % w, x - y < w, y - x < w
  PROVE  x = y
<1> DEFINE a == x \div w  b == y \div w  r == x % w
<1>1. /\ r \in Int /\ a \in Int /\ x = w * a + r
      /\ b \in Int /\ y = w * b + r
  BY ModSplit
<1> HIDE DEF a, b, r
<1>2. w * a \in Int /\ w * b \in Int  BY <1>1, SMT
<1>3. CASE a = b  BY <1>1, <1>3, SMT
<1>4. CASE a >= b + 1
  <2>1. w * (a - b) >= w  BY <1>1, <1>4, SMT
  <2>2. w * (a - b) = w * a - w * b  BY <1>1, SMT
  <2> QED  BY <2>1, <2>2, <1>1, <1>2, SMT
<1>5. CASE b >= a + 1
  <2>1. w * (b - a) >= w  BY <1>1, <1>5, SMT
  <2>2. w * (b - a) = w * b - w * a  BY <1>1, SMT
  <2> QED  BY <2>1, <2>2, <1>1, <1>2, SMT
<1> QED  BY <1>1, <1>3, <1>4, <1>5, SMT

\* The register's content for number n.
Reg(n) == n % Word

\* What the ring's constants are assumed to be.
LEMMA Constants ==
  /\ Word \in Nat \ {0} /\ Size \in Nat \ {0} /\ Gap \in Nat /\ MaxTotal \in Nat
  /\ Gap > 0 /\ Gap < Size /\ Size < Word /\ Word % Size = 0
  /\ MaxWrite \in Nat \ {0} /\ MaxWrite + Gap < Word
  /\ Free \notin Procs
  BY RingAssumption, WordAssumption, SMT

\* Registers are read, added to and subtracted as the numbers they hold.
LEMMA RegArith ==
  ASSUME NEW a \in Int, NEW b \in Int
  PROVE  /\ Reg(a) \in 0..(Word - 1) /\ Reg(a) \in Int
         /\ 0 <= Reg(a) /\ Reg(a) < Word
         /\ Add(Reg(a), b) = Reg(a + b)
         /\ Sub(Reg(a), b) = Reg(a - b)
         /\ Sub(Reg(a), Reg(b)) = Reg(a - b)
         /\ Sub(a, Reg(b)) = Reg(a - b)
         /\ Sub(a, b) = Reg(a - b)
<1>1. /\ Reg(a) \in Int /\ 0 <= Reg(a) /\ Reg(a) < Word
  BY Constants, ModSplit DEF Reg
<1>2. Reg(a) \in 0..(Word - 1)  BY <1>1, Constants, SMT
<1>3. Word \in Nat \ {0}  BY Constants
<1>4. ((a % Word) + b) % Word = (a + b) % Word  BY <1>3, ModArith, Zenon
<1>5. ((a % Word) - b) % Word = (a - b) % Word  BY <1>3, ModArith, Zenon
<1>6. ((a % Word) - (b % Word)) % Word = (a - b) % Word  BY <1>3, ModArith, Zenon
<1>7. (a - (b % Word)) % Word = (a - b) % Word  BY <1>3, ModArith, Zenon
<1> QED  BY <1>1, <1>2, <1>4, <1>5, <1>6, <1>7, Zenon DEF Reg, Add, Sub

\* A number that fits is held as it is.
LEMMA RegFits ==
  ASSUME NEW a \in Int, 0 <= a, a < Word
  PROVE  Reg(a) = a
  BY Constants, ModSmall DEF Reg

\* A register never holds more than the number.
LEMMA RegAtMost ==
  ASSUME NEW a \in Nat
  PROVE  Reg(a) <= a
<1>1. CASE a < Word  BY <1>1, RegFits
<1>2. CASE ~(a < Word)
  <2>1. Reg(a) \in Int /\ Reg(a) < Word  BY RegArith
  <2> QED  BY <1>2, <2>1, Constants, SMT
<1> QED  BY <1>1, <1>2

\* Counting down a register that is not zero does not wrap.
LEMMA RegDown ==
  ASSUME NEW a \in Int, Reg(a) # 0
  PROVE  Reg(a - 1) = Reg(a) - 1
<1>1. /\ Reg(a) \in Int /\ 0 <= Reg(a) /\ Reg(a) < Word  BY RegArith
<1>2. Sub(Reg(a), 1) = Reg(a - 1) /\ Sub(Reg(a), 1) = Reg(Reg(a) - 1)
  BY <1>1, RegArith
<1>3. Reg(Reg(a) - 1) = Reg(a) - 1
  <2> DEFINE r == Reg(a)
  <2>1. r \in Int /\ 0 <= r - 1 /\ r - 1 < Word /\ r - 1 \in Int
    BY <1>1, Constants, SMT
  <2> HIDE DEF r
  <2>2. Reg(r - 1) = r - 1  BY <2>1, RegFits
  <2> QED  BY <2>2 DEF r
<1> QED  BY <1>2, <1>3

\* Registers with no difference are equal.
LEMMA RegEqual ==
  ASSUME NEW a \in 0..(Word - 1), NEW b \in 0..(Word - 1), Sub(a, b) = 0
  PROVE  a = b
<1>1. a \in Int /\ b \in Int /\ 0 <= a /\ 0 <= b /\ a < Word /\ b < Word
  BY Constants, SMT
<1>2. (a - b) % Word = 0 % Word
  <2>1. 0 % Word = 0  BY Constants, ModSmall, SMT
  <2> QED  BY <2>1 DEF Sub
<1>3. a - b \in Int /\ (a - b) - 0 < Word /\ 0 - (a - b) < Word
  BY <1>1, Constants, SMT
<1>4. a - b = 0
  <2> DEFINE d == a - b
  <2>1. d \in Int /\ d % Word = 0 % Word /\ d - 0 < Word /\ 0 - d < Word
    BY <1>2, <1>3
  <2> HIDE DEF d
  <2>2. d = 0  BY <2>1, Constants, ModApart
  <2> QED  BY <2>2 DEF d
<1> QED  BY <1>1, <1>4, SMT

\* Numbers less than a register's range apart are told apart by it.
LEMMA RegApart ==
  ASSUME NEW a \in Int, NEW b \in Int, Reg(a) = Reg(b), a - b < Word, b - a < Word
  PROVE  a = b
  BY Constants, ModApart DEF Reg

\* The slot of a register is the slot of its number, within the ring.
LEMMA SlotOfReg ==
  ASSUME NEW a \in Int
  PROVE  /\ Slot(Reg(a)) = Slot(a)
         /\ Slot(a) \in 0..(Size - 1)
<1>1. Slot(Reg(a)) = Slot(a)  BY Constants, ModDivides DEF Reg, Slot
<1>2. Slot(a) \in Int /\ 0 <= Slot(a) /\ Slot(a) < Size
  BY Constants, ModSplit DEF Slot
<1>3. Slot(a) \in 0..(Size - 1)  BY <1>2, Constants, SMT
<1> QED  BY <1>1, <1>3

\* Numbers less than the ring's size apart have slots of their own.
LEMMA SlotApart ==
  ASSUME NEW a \in Int, NEW b \in Int, Slot(a) = Slot(b), a - b < Size, b - a < Size
  PROVE  a = b
  BY Constants, ModApart DEF Slot

\* How far a slot is ahead of the one a register points at.
LEMMA SlotAhead ==
  ASSUME NEW k \in Int, NEW b \in Int
  PROVE  (Slot(k) - Reg(b)) % Size = Slot(k - b)
<1>1. Slot(k) \in Int /\ Reg(b) \in Int  BY SlotOfReg, RegArith, Constants, SMT
<1>2. ((k % Size) - Reg(b)) % Size = (k - Reg(b)) % Size
  BY <1>1, Constants, ModArith
<1>3. (k - (Reg(b) % Size)) % Size = (k - Reg(b)) % Size
  BY <1>1, Constants, ModArith
<1>4. Reg(b) % Size = b % Size  BY SlotOfReg DEF Slot
<1>5. (k - (b % Size)) % Size = (k - b) % Size  BY Constants, ModArith
<1> QED  BY <1>2, <1>3, <1>4, <1>5 DEF Slot

-----------------------------------------------------------------------------
(* The invariant.                                                            *)

\* The places of a call that holds pulsebuf_lock.
Writing == {"write_sync", "write_room", "write_publish"}
Clearing == {"clear_read", "clear_load"}

Reading == \E p \in Procs : pc[p] = "clear_read"
Loading == \E p \in Procs : pc[p] = "clear_load"

LockInv == \A p \in Procs : pc[p] \in Writing \cup Clearing <=> lock = p

\* A clear keeps runs away and a write keeps backward runs away; what each
\* call holds in arg.
CallInv ==
  \A p \in Procs :
    /\ pc[p] \in Clearing => run = "no"
    /\ pc[p] \in Writing => run # "backward"
    /\ pc[p] \in {"write_sync", "write_room"} =>
         arg[p] \in 1..MaxWrite /\ total + arg[p] <= MaxTotal
    /\ pc[p] = "write_publish" => arg[p] <= total
    /\ pc[p] = "clear_read" => fifo_in = 0 /\ fifo_out = 0
    /\ pc[p] = "clear_load" => total = 0 /\ arg[p] = 0 /\ furthest = 0

\* The head's register holds the number it is on, the write index the number
\* of bytes enqueued, except while a clear is half done.
IndexInv ==
  /\ head = Reg(at)
  /\ ~Reading => fifo_in = Reg(total)
  /\ furthest <= total
  /\ ~Loading => at <= furthest

\* A forward run's tail is never past what is enqueued.
ScriptInv ==
  /\ run = "forward" => dir # -1 /\ Sub(tail, head) <= total - at
  /\ run = "backward" => dir # 1

\* The number of the byte a backward run ends on.
Dead == total - Span(Size, total)

\* Without a failed clear the head is on an enqueued byte that is still in the
\* ring; a backward run starts behind the write index and has its waypoint and
\* ramp before it; a writer's fetched head is not ahead of the script.
RingInv ==
  Cleared =>
    /\ at >= 0
    /\ ~Loading => total - at <= Size
    /\ run = "backward" =>
         /\ tail = Reg(Dead) /\ at < total
         /\ left + reserve <= at - Dead
         /\ dir = 0 => left + reserve = 0
    /\ \A p \in Procs :
         /\ pc[p] = "run_asked" /\ run = "no" => at < total \/ total = 0
         /\ pc[p] = "write_room" => /\ total - at <= Sub(fifo_in, fifo_out)
                                    /\ Sub(fifo_in, fifo_out) <= Size

\* The numbers that the ring still holds: all of a ring's size, or what the gap
\* keeps when a user copy has faulted.
Kept(k) ==
  /\ k < total
  /\ k >= furthest - Gap \/ (harm = {} /\ k >= total - Size)

SlotInv == Cleared => \A k \in Nat : Kept(k) => slots[Slot(k)] = k

IInv == /\ TypeOK /\ LockInv /\ CallInv /\ IndexInv /\ ScriptInv
        /\ RingInv /\ SlotInv

\* The numeric half of TypeOK, without the ranges.
LEMMA Typed ==
  ASSUME TypeOK
  PROVE  /\ total \in Nat /\ at \in Int /\ furthest \in Nat /\ left \in Nat
         /\ reserve \in Nat
         /\ fifo_in \in Nat /\ fifo_in < Word /\ fifo_out \in Nat /\ fifo_out < Word
         /\ head \in Nat /\ head < Word /\ tail \in Nat /\ tail < Word
         /\ total <= MaxTotal /\ furthest <= MaxTotal
         /\ dir \in {-1, 0, 1} /\ dir \in Int
         /\ \A p \in Procs : arg[p] \in Nat /\ arg[p] < Word /\ pc[p] \in Places
<1>1. /\ Word \in Nat /\ Size \in Nat /\ MaxTotal \in Nat  BY Constants, SMT
<1>2. /\ total \in 0..MaxTotal /\ furthest \in 0..MaxTotal /\ left \in 0..(Word - 1)
      /\ reserve \in 0..(Word - 1)
      /\ fifo_in \in 0..(Word - 1) /\ fifo_out \in 0..(Word - 1)
      /\ head \in 0..(Word - 1) /\ tail \in 0..(Word - 1) /\ at \in Int
      /\ dir \in {-1, 0, 1}
  BY DEF TypeOK
<1>3. \A p \in Procs : arg[p] \in 0..(Word - 1) /\ pc[p] \in Places
  BY DEF TypeOK
<1>4. /\ total \in Nat /\ at \in Int /\ furthest \in Nat /\ left \in Nat
      /\ reserve \in Nat
      /\ fifo_in \in Nat /\ fifo_in < Word /\ fifo_out \in Nat /\ fifo_out < Word
      /\ head \in Nat /\ head < Word /\ tail \in Nat /\ tail < Word
      /\ total <= MaxTotal /\ furthest <= MaxTotal
      /\ dir \in {-1, 0, 1} /\ dir \in Int
  BY <1>1, <1>2, SMT
<1>5. \A p \in Procs : arg[p] \in Nat /\ arg[p] < Word /\ pc[p] \in Places
  BY <1>1, <1>3, SMT
<1> QED  BY <1>4, <1>5

\* How far back the ring's data reaches.
LEMMA DeadIs ==
  ASSUME TypeOK
  PROVE  /\ Dead \in Nat /\ Dead <= total /\ Span(Size, total) \in Nat
         /\ total - Dead <= Size
         /\ total < Size => Dead = 0
         /\ total >= Size => Dead = total - Size
  BY Typed, Constants, SMT DEF Dead, Span

\* While the lock is free no call is half done.
LEMMA LockFree ==
  ASSUME LockInv, lock = Free
  PROVE  /\ ~Reading /\ ~Loading
         /\ \A p \in Procs : pc[p] \notin Writing \cup Clearing
<1>1. \A p \in Procs : pc[p] \notin Writing \cup Clearing
  BY Constants DEF LockInv
<1> QED  BY <1>1 DEF Reading, Loading, Clearing

\* While a run lasts no clear is half done.
LEMMA NoClearInRun ==
  ASSUME CallInv, run # "no"
  PROVE  ~Reading /\ ~Loading
  BY DEF CallInv, Reading, Loading, Clearing

\* With the lock free, the difference of the indices is the unplayed bytes.
LEMMA Unplayed ==
  ASSUME IInv, ~Reading, ~Loading, Cleared
  PROVE  /\ Sub(fifo_in, head) = total - at
         /\ total - at \in 0..Size
<1>1. total \in Nat /\ at \in Int /\ furthest \in Nat  BY Typed DEF IInv
<1>2. at <= total /\ total - at <= Size
  BY <1>1, SMT DEF IInv, IndexInv, RingInv
<1>3. total - at \in Int /\ 0 <= total - at /\ total - at < Word
  BY <1>1, <1>2, Constants, SMT
<1>4. Sub(fifo_in, head) = Reg(total - at)
  BY <1>1, RegArith DEF IInv, IndexInv
<1>5. Reg(total - at) = total - at  BY <1>3, RegFits
<1>6. total - at \in 0..Size  BY <1>1, <1>2, <1>3, Constants, SMT
<1> QED  BY <1>4, <1>5, <1>6

\* A backward run with something left is short of its dead stop.
LEMMA ShortOfDead ==
  ASSUME IInv, Cleared, run = "backward"
  PROVE  /\ at - Dead \in 0..(Size - 1)
         /\ OutOfData <=> at = Dead
<1>1. /\ total \in Nat /\ at \in Int /\ Dead \in Nat /\ left + reserve \in Nat
      /\ total < Size => Dead = 0
      /\ total >= Size => Dead = total - Size
  <2>1. left \in Nat /\ reserve \in Nat  BY Typed DEF IInv
  <2>2. left + reserve \in Nat  BY <2>1, SMT
  <2> QED  BY <2>2, Typed, DeadIs DEF IInv
<1>2. at < total /\ left + reserve <= at - Dead /\ tail = Reg(Dead) /\ head = Reg(at)
  BY DEF IInv, RingInv, IndexInv
<1>3. at - Dead \in 0..(Size - 1)  BY <1>1, <1>2, Constants, SMT
<1>4. OutOfData <=> Slot(at) = Slot(Dead)
  <2>1. Slot(Reg(at)) = Slot(at) /\ Slot(Reg(Dead)) = Slot(Dead)
    BY <1>1, SlotOfReg
  <2> QED  BY <2>1, <1>2 DEF OutOfData
<1>5. Slot(at) = Slot(Dead) => at = Dead
  <2>1. at - Dead < Size /\ Dead - at < Size  BY <1>1, <1>3, Constants, SMT
  <2> QED  BY <2>1, <1>1, SlotApart
<1> QED  BY <1>3, <1>4, <1>5

\* A forward run that has data is short of what is enqueued.
LEMMA ShortOfTail ==
  ASSUME IInv, run = "forward", ~OutOfData
  PROVE  /\ at < total
         /\ Sub(tail, head) # 0 /\ Sub(tail, head) \in Nat
<1>1. /\ tail \in 0..(Word - 1) /\ head \in 0..(Word - 1)
      /\ total \in Nat /\ at \in Int
  BY Typed DEF IInv, TypeOK
<1>2. Sub(tail, head) # 0  BY <1>1, RegEqual DEF OutOfData
<1>3. Sub(tail, head) \in Nat
  <2>1. tail \in Int /\ head \in Int  BY <1>1, SMT
  <2>2. Sub(tail, head) = Reg(tail - head)  BY <2>1, RegArith
  <2>3. Reg(tail - head) \in Int /\ 0 <= Reg(tail - head)
    BY <2>1, RegArith, SMT
  <2> QED  BY <2>2, <2>3, SMT
<1>4. Sub(tail, head) <= total - at  BY DEF IInv, ScriptInv
<1> QED  BY <1>1, <1>2, <1>3, <1>4, SMT

-----------------------------------------------------------------------------
(* What the invariant says of the properties.                                *)

\* The indices agree and a backtrack's room is there.
LEMMA InvFollows == IInv => Inv
<1> SUFFICES ASSUME IInv PROVE Inv  OBVIOUS
<1>1. IndicesAgree
  <2> SUFFICES ASSUME Cleared, lock = Free
               PROVE  at = total - Sub(fifo_in, head) /\ Sub(fifo_in, head) <= Size
    BY DEF IndicesAgree
  <2>1. ~Reading /\ ~Loading  BY LockFree DEF IInv
  <2>2. Sub(fifo_in, head) = total - at /\ total - at \in 0..Size
    BY <2>1, Unplayed
  <2>3. total \in Nat /\ at \in Int  BY Typed DEF IInv
  <2> QED  BY <2>2, <2>3, Constants, SMT
<1>2. BacktrackHasRoom
  <2> SUFFICES ASSUME Cleared, run = "backward", left + reserve > 0
               PROVE  dir # 0 /\ ~OutOfData
    BY DEF BacktrackHasRoom
  <2>1. left + reserve <= at - Dead /\ (dir = 0 => left + reserve = 0)
    BY DEF IInv, RingInv
  <2>2. OutOfData <=> at = Dead  BY ShortOfDead
  <2>3. left \in Nat /\ reserve \in Nat /\ at \in Int /\ Dead \in Nat
    BY Typed, DeadIs DEF IInv
  <2> QED  BY <2>1, <2>2, <2>3, SMT
<1> QED  BY <1>1, <1>2 DEF IInv, Inv

\* What plays is in the ring.
LEMMA GenuineFollows == IInv => PlaysGenuine
<1> SUFFICES ASSUME IInv, Playing, harm = {}
             PROVE  slots[Slot(head)] = at /\ at >= 0
  BY DEF PlaysGenuine
<1>1. Cleared  BY DEF Cleared
<1>2. run # "no" /\ dir # 0 /\ ~OutOfData /\ run \in {"no", "forward", "backward"}
  BY DEF Playing, IInv, TypeOK
<1>3. ~Reading /\ ~Loading  BY <1>2, NoClearInRun DEF IInv
<1>4. total \in Nat /\ at \in Int /\ at >= 0 /\ total - at <= Size
  BY <1>1, <1>3, Typed DEF IInv, RingInv
<1>5. at < total
  <2>1. CASE run = "forward"  BY <2>1, <1>2, ShortOfTail
  <2>2. CASE run = "backward"  BY <2>2, <1>1 DEF IInv, RingInv
  <2> QED  BY <1>2, <2>1, <2>2
<1>6. at \in Nat /\ at >= total - Size  BY <1>4, Constants, SMT
<1>7. slots[Slot(at)] = at  BY <1>1, <1>5, <1>6 DEF IInv, SlotInv, Kept
<1>8. Slot(head) = Slot(at)  BY <1>4, SlotOfReg DEF IInv, IndexInv
<1> QED  BY <1>4, <1>7, <1>8

\* What is still to be played is in the ring.
LEMMA KeptFollows == IInv => UnplayedKept
<1> SUFFICES ASSUME IInv, Cleared,
                    NEW k \in (IF harm = {} THEN at ELSE furthest)..(total - 1)
             PROVE  slots[Slot(k)] = k
  BY DEF UnplayedKept, Slot
<1>1. total \in Nat /\ at \in Int /\ furthest \in Nat /\ at >= 0
  BY Typed DEF IInv, RingInv
<1>2. k \in Nat /\ k < total  BY <1>1, SMT
<1>3. CASE harm = {}
  <2>1. k >= at /\ total # 0  BY <1>1, <1>2, <1>3, SMT
  <2>2. ~Loading  BY <2>1 DEF IInv, CallInv, Loading
  <2>3. total - at <= Size  BY <2>2 DEF IInv, RingInv
  <2>4. k >= total - Size  BY <1>1, <1>2, <2>1, <2>3, Constants, SMT
  <2> QED  BY <1>2, <1>3, <2>4 DEF IInv, SlotInv, Kept
<1>4. CASE harm # {}
  <2>1. k >= furthest - Gap  BY <1>1, <1>2, <1>4, Constants, SMT
  <2> QED  BY <1>2, <2>1 DEF IInv, SlotInv, Kept
<1> QED  BY <1>3, <1>4

\* The gap behind the furthest point is in the ring.
LEMMA FloorFollows == IInv => HistoryFloor
<1> SUFFICES ASSUME IInv, Cleared, NEW k \in 0..(furthest - 1), k >= furthest - Gap
             PROVE  slots[Slot(k)] = k
  BY DEF HistoryFloor, Slot
<1>1. total \in Nat /\ furthest \in Nat /\ furthest <= total
  BY Typed DEF IInv, IndexInv
<1>2. k \in Nat /\ k < total  BY <1>1, SMT
<1> QED  BY <1>2 DEF IInv, SlotInv, Kept

-----------------------------------------------------------------------------
(* The invariant's start, and the steps that leave the ring alone.           *)

\* Nothing has been enqueued.
LEMMA RingInit == Init => IInv
<1> SUFFICES ASSUME Init PROVE IInv  OBVIOUS
<1> USE DEF Init
<1>1. TypeOK
  <2>1. /\ 0 \in 0..(Word - 1) /\ 0 \in 0..MaxTotal /\ Empty \in Empty..MaxTotal
    BY Constants, SMT DEF Empty
  <2> QED  BY <2>1 DEF TypeOK, Places
<1>2. LockInv  BY Constants DEF LockInv, Writing, Clearing
<1>3. CallInv  BY DEF CallInv, Writing, Clearing
<1>4. Reg(0) = 0  BY Constants, RegFits, SMT
<1>5. IndexInv  BY <1>4, SMT DEF IndexInv
<1>6. ScriptInv  BY DEF ScriptInv
<1>7. RingInv  BY Constants, SMT DEF RingInv
<1>8. SlotInv  BY SMT DEF SlotInv, Kept
<1> QED  BY <1>1, <1>2, <1>3, <1>5, <1>6, <1>7, <1>8 DEF IInv

\* The places by name, and what a task holds.
LEMMA PlaceNames ==
  /\ "idle" \in Places /\ "write_sync" \in Places /\ "write_room" \in Places
  /\ "write_publish" \in Places /\ "clear_read" \in Places
  /\ "clear_load" \in Places /\ "free_store" \in Places
  /\ "run_asked" \in Places
  BY DEF Places, Busy

LEMMA ArgTyped ==
  ASSUME TypeOK, NEW p \in Procs
  PROVE  arg[p] \in 0..(Word - 1)
  BY DEF TypeOK

\* A task that goes to another place of its call.
LEMMA Moved ==
  ASSUME TypeOK, NEW p \in Procs, NEW place \in Places, NEW n \in 0..(Word - 1),
         Enter(p, place, n)
  PROVE  /\ pc' \in [Procs -> Places] /\ arg' \in [Procs -> 0..(Word - 1)]
         /\ pc'[p] = place /\ arg'[p] = n
         /\ \A q \in Procs \ {p} : pc'[q] = pc[q] /\ arg'[q] = arg[q]
  BY DEF TypeOK, Enter

\* A task that goes back to where it was called from.
LEMMA Left ==
  ASSUME TypeOK, NEW p \in Procs, Leave(p)
  PROVE  /\ pc' \in [Procs -> Places] /\ arg' \in [Procs -> 0..(Word - 1)]
         /\ pc'[p] = "idle"
         /\ \A q \in Procs \ {p} : pc'[q] = pc[q] /\ arg'[q] = arg[q]
<1>1. 0 \in 0..(Word - 1) /\ "idle" \in Places  BY Constants, SMT DEF Places
<1> QED  BY <1>1, Moved DEF Leave

\* A step that leaves the indices, the run and the memory alone.
LEMMA Aside ==
  ASSUME IInv, TypeOK', LockInv', CallInv',
         UNCHANGED <<slots, fifo_in, total, scriptVars, run, owed, histVars>>,
         Reading' <=> Reading, Loading' <=> Loading,
         Cleared => \A q \in Procs :
           /\ pc'[q] = "run_asked" /\ run = "no" => at < total \/ total = 0
           /\ pc'[q] = "write_room" => /\ total - at <= Sub(fifo_in, fifo_out')
                                       /\ Sub(fifo_in, fifo_out') <= Size
  PROVE  IInv'
<1> USE DEF IInv, scriptVars, histVars
<1>1. IndexInv'  BY DEF IndexInv, Reg
<1>2. ScriptInv'  BY DEF ScriptInv, Sub
<1>3. RingInv'
  BY DEF RingInv, Cleared, Dead, Span, Reg, Sub
<1>4. SlotInv'  BY DEF SlotInv, Kept, Slot, Cleared
<1> QED  BY <1>1, <1>2, <1>3, <1>4

\* The one task that holds the lock.
LEMMA Holder ==
  ASSUME LockInv, NEW p \in Procs, pc[p] \in Writing \cup Clearing
  PROVE  /\ lock = p
         /\ \A q \in Procs \ {p} : pc[q] \notin Writing \cup Clearing
  BY DEF LockInv

\* Without preemption, a task that moves finds no other one between statements.
LEMMA OthersAsleep ==
  ASSUME ~Preempt, NEW p \in Procs, NEW place, At(p, place)
  PROVE  /\ pc[p] = place
         /\ \A q \in Procs \ {p} : pc[q] # "write_room" /\ pc[q] # "clear_read"
  BY DEF At, Busy

\* write() takes the lock.
LEMMA StepWriteBegin ==
  ASSUME IInv, NEW p \in Procs, NEW n \in 1..MaxWrite, WriteBegin(p, n)
  PROVE  IInv'
<1>0. /\ TypeOK /\ LockInv /\ CallInv  BY DEF IInv
<1>1. n \in 0..(Word - 1) /\ "write_sync" \in Places
  BY Constants, SMT DEF Places
<1>2. /\ pc[p] = "idle" /\ lock = Free /\ lock' = p /\ run # "backward"
      /\ total + n <= MaxTotal /\ Enter(p, "write_sync", n)
      /\ UNCHANGED <<slots, hostVars, scriptVars, run, owed, histVars>>
  BY DEF WriteBegin, At, WriteRejected
<1>3. /\ pc' \in [Procs -> Places] /\ arg' \in [Procs -> 0..(Word - 1)]
      /\ pc'[p] = "write_sync" /\ arg'[p] = n
      /\ \A q \in Procs \ {p} : pc'[q] = pc[q] /\ arg'[q] = arg[q]
  BY <1>0, <1>1, <1>2, Moved
<1>4. \A q \in Procs : pc[q] \notin Writing \cup Clearing
  BY <1>0, <1>2, LockFree
<1>5. TypeOK'
  BY <1>0, <1>2, <1>3 DEF TypeOK, hostVars, scriptVars, histVars
<1>6. LockInv'  BY <1>2, <1>3, <1>4 DEF LockInv, Writing, Clearing
<1>7. CallInv'
  BY <1>2, <1>3, <1>4 DEF CallInv, Writing, Clearing, hostVars, histVars
<1>8. (Reading' <=> Reading) /\ (Loading' <=> Loading)
  BY <1>2, <1>3 DEF Reading, Loading
<1>9. Cleared => \A q \in Procs :
        /\ pc'[q] = "run_asked" /\ run = "no" => at < total \/ total = 0
        /\ pc'[q] = "write_room" => /\ total - at <= Sub(fifo_in, fifo_out')
                                    /\ Sub(fifo_in, fifo_out') <= Size
  BY <1>2, <1>3 DEF IInv, RingInv, hostVars
<1> QED  BY <1>2, <1>5, <1>6, <1>7, <1>8, <1>9, Aside DEF hostVars

\* The fetch of the head: from then on the writer knows where the script is,
\* or was.
LEMMA StepWriteSync ==
  ASSUME IInv, ~Preempt, NEW p \in Procs, WriteSync(p)
  PROVE  IInv'
<1>0. /\ TypeOK /\ LockInv /\ CallInv  BY DEF IInv
<1>1. /\ pc[p] = "write_sync"
      /\ UNCHANGED <<slots, fifo_in, total, scriptVars, run, owed, histVars>>
  BY DEF WriteSync, At
<1>2. /\ lock = p
      /\ \A q \in Procs \ {p} : pc[q] \notin Writing \cup Clearing
  BY <1>0, <1>1, Holder DEF Writing
<1>3. ~Reading /\ ~Loading
  BY <1>1, <1>2 DEF Reading, Loading, Clearing
<1>4. arg[p] \in 1..MaxWrite /\ total + arg[p] <= MaxTotal /\ run # "backward"
  BY <1>0, <1>1 DEF CallInv, Writing
<1>5. CASE fifo_out' = head /\ Enter(p, "write_room", arg[p]) /\ UNCHANGED lock
  <2>1. arg[p] \in 0..(Word - 1) /\ "write_room" \in Places
    BY <1>0, ArgTyped, PlaceNames
  <2>2. /\ pc' \in [Procs -> Places] /\ arg' \in [Procs -> 0..(Word - 1)]
        /\ pc'[p] = "write_room" /\ arg'[p] = arg[p]
        /\ \A q \in Procs \ {p} : pc'[q] = pc[q] /\ arg'[q] = arg[q]
    BY <1>0, <1>5, <2>1, Moved
  <2>3. TypeOK'
    BY <1>0, <1>1, <1>5, <2>2 DEF TypeOK, scriptVars, histVars
  <2>4. LockInv'  BY <1>2, <1>5, <2>2 DEF LockInv, Writing, Clearing
  <2>5. CallInv'
    <3>1. total' = total /\ run' = run  BY <1>1
    <3>2. \A q \in Procs \ {p} : pc'[q] \notin Writing \cup Clearing
      BY <1>2, <2>2
    <3> QED  BY <1>4, <2>2, <3>1, <3>2 DEF CallInv, Writing, Clearing
  <2>6. (Reading' <=> Reading) /\ (Loading' <=> Loading)
    BY <1>1, <2>2 DEF Reading, Loading
  <2>7. ASSUME Cleared, NEW q \in Procs
        PROVE  /\ pc'[q] = "run_asked" /\ run = "no" => at < total \/ total = 0
               /\ pc'[q] = "write_room" =>
                    /\ total - at <= Sub(fifo_in, fifo_out')
                    /\ Sub(fifo_in, fifo_out') <= Size
    <3>1. Sub(fifo_in, head) = total - at /\ total - at \in 0..Size
      BY <1>3, <2>7, Unplayed
    <3>2. total - at <= Sub(fifo_in, fifo_out') /\ Sub(fifo_in, fifo_out') <= Size
      BY <1>5, <3>1, Constants, SMT
    <3>3. pc'[q] = "run_asked" => pc[q] = "run_asked"  BY <2>2
    <3> QED  BY <2>7, <3>2, <3>3 DEF IInv, RingInv
  <2> QED  BY <1>1, <2>3, <2>4, <2>5, <2>6, <2>7, Aside
<1>6. CASE Leave(p) /\ lock' = Free /\ UNCHANGED fifo_out
  <2>2. /\ pc' \in [Procs -> Places] /\ arg' \in [Procs -> 0..(Word - 1)]
        /\ pc'[p] = "idle"
        /\ \A q \in Procs \ {p} : pc'[q] = pc[q] /\ arg'[q] = arg[q]
    BY <1>0, <1>6, Left
  <2>3. TypeOK'
    BY <1>0, <1>1, <1>6, <2>2 DEF TypeOK, scriptVars, histVars
  <2>4. LockInv'
    BY <1>2, <1>6, <2>2, Constants DEF LockInv, Writing, Clearing
  <2>5. CallInv'
    <3>1. \A q \in Procs : pc'[q] \notin Writing \cup Clearing
      BY <1>2, <2>2 DEF Writing, Clearing
    <3> QED  BY <3>1 DEF CallInv, Writing, Clearing
  <2>6. (Reading' <=> Reading) /\ (Loading' <=> Loading)
    BY <1>1, <2>2 DEF Reading, Loading
  <2>7. ASSUME Cleared, NEW q \in Procs
        PROVE  /\ pc'[q] = "run_asked" /\ run = "no" => at < total \/ total = 0
               /\ pc'[q] = "write_room" =>
                    /\ total - at <= Sub(fifo_in, fifo_out')
                    /\ Sub(fifo_in, fifo_out') <= Size
    BY <1>6, <2>2, <2>7 DEF IInv, RingInv
  <2> QED  BY <1>1, <2>3, <2>4, <2>5, <2>6, <2>7, Aside
<1> QED  BY <1>5, <1>6 DEF WriteSync

\* free_show() fetches the head without the lock.
LEMMA StepFreeFetch ==
  ASSUME IInv, ~Preempt, NEW p \in Procs, FreeFetch(p)
  PROVE  IInv'
<1>0. /\ TypeOK /\ LockInv /\ CallInv  BY DEF IInv
<1>1. /\ pc[p] = "idle" /\ Enter(p, "free_store", head)
      /\ UNCHANGED <<slots, hostVars, scriptVars, run, owed, lock, histVars>>
  BY DEF FreeFetch, At
<1>2. /\ pc' \in [Procs -> Places] /\ arg' \in [Procs -> 0..(Word - 1)]
      /\ pc'[p] = "free_store"
      /\ \A q \in Procs \ {p} : pc'[q] = pc[q] /\ arg'[q] = arg[q]
  <2>1. head \in 0..(Word - 1)  BY <1>0 DEF TypeOK
  <2> QED  BY <1>0, <1>1, <2>1, PlaceNames, Moved
<1>3. TypeOK'
  BY <1>0, <1>1, <1>2 DEF TypeOK, hostVars, scriptVars, histVars
<1>4. LockInv'  BY <1>0, <1>1, <1>2 DEF LockInv, Writing, Clearing
<1>5. CallInv'
  BY <1>0, <1>1, <1>2 DEF CallInv, Writing, Clearing, hostVars, histVars
<1>6. (Reading' <=> Reading) /\ (Loading' <=> Loading)
  BY <1>1, <1>2 DEF Reading, Loading
<1>7. Cleared => \A q \in Procs :
        /\ pc'[q] = "run_asked" /\ run = "no" => at < total \/ total = 0
        /\ pc'[q] = "write_room" => /\ total - at <= Sub(fifo_in, fifo_out')
                                    /\ Sub(fifo_in, fifo_out') <= Size
  BY <1>1, <1>2 DEF IInv, RingInv, hostVars
<1> QED  BY <1>1, <1>3, <1>4, <1>5, <1>6, <1>7, Aside DEF hostVars

\* The head stored by a reader may be an old one, but no writer or clear is
\* between two statements to be misled by it.
LEMMA StepFreeStore ==
  ASSUME IInv, ~Preempt, NEW p \in Procs, FreeStore(p)
  PROVE  IInv'
<1>0. /\ TypeOK /\ LockInv /\ CallInv  BY DEF IInv
<1>1. /\ fifo_out' = arg[p] /\ Leave(p)
      /\ UNCHANGED <<slots, fifo_in, total, scriptVars, run, owed, lock, histVars>>
  BY DEF FreeStore
<1>2. /\ pc' \in [Procs -> Places] /\ arg' \in [Procs -> 0..(Word - 1)]
      /\ pc'[p] = "idle"
      /\ \A q \in Procs \ {p} : pc'[q] = pc[q] /\ arg'[q] = arg[q]
  BY <1>0, <1>1, Left
<1>3. /\ pc[p] = "free_store"
      /\ \A q \in Procs \ {p} : pc[q] # "write_room" /\ pc[q] # "clear_read"
  <2>1. At(p, "free_store")  BY DEF FreeStore
  <2> QED  BY <2>1, OthersAsleep
<1>4. TypeOK'
  <2>1. fifo_out' \in 0..(Word - 1)  BY <1>0, <1>1, ArgTyped
  <2> QED  BY <1>0, <1>1, <1>2, <2>1 DEF TypeOK, scriptVars, histVars
<1>5. LockInv'  BY <1>0, <1>1, <1>2, <1>3 DEF LockInv, Writing, Clearing
<1>6. CallInv'
  BY <1>0, <1>1, <1>2, <1>3 DEF CallInv, Writing, Clearing, histVars
<1>7. (Reading' <=> Reading) /\ (Loading' <=> Loading)
  BY <1>2, <1>3 DEF Reading, Loading
<1>8. Cleared => \A q \in Procs :
        /\ pc'[q] = "run_asked" /\ run = "no" => at < total \/ total = 0
        /\ pc'[q] = "write_room" => /\ total - at <= Sub(fifo_in, fifo_out')
                                    /\ Sub(fifo_in, fifo_out') <= Size
  BY <1>2, <1>3 DEF IInv, RingInv
<1> QED  BY <1>1, <1>4, <1>5, <1>6, <1>7, <1>8, Aside

\* A run is asked for: there is a byte to play.
LEMMA StepRunAsk ==
  ASSUME IInv, ~Preempt, NEW p \in Procs, RunAsk(p)
  PROVE  IInv'
<1>0. /\ TypeOK /\ LockInv /\ CallInv  BY DEF IInv
<1>1. /\ fifo_out' = head /\ fifo_in # head /\ Enter(p, "run_asked", 0)
      /\ UNCHANGED <<slots, fifo_in, total, scriptVars, run, owed, lock, histVars>>
  BY DEF RunAsk, HasData
<1>2. /\ pc' \in [Procs -> Places] /\ arg' \in [Procs -> 0..(Word - 1)]
      /\ pc'[p] = "run_asked"
      /\ \A q \in Procs \ {p} : pc'[q] = pc[q] /\ arg'[q] = arg[q]
  <2>1. 0 \in 0..(Word - 1)  BY Constants, SMT
  <2> QED  BY <1>0, <1>1, <2>1, PlaceNames, Moved
<1>3. /\ pc[p] = "idle"
      /\ \A q \in Procs \ {p} : pc[q] # "write_room" /\ pc[q] # "clear_read"
  <2>1. At(p, "idle")  BY DEF RunAsk
  <2> QED  BY <2>1, OthersAsleep
<1>4. TypeOK'
  BY <1>0, <1>1, <1>2 DEF TypeOK, scriptVars, histVars
<1>5. LockInv'  BY <1>0, <1>1, <1>2, <1>3 DEF LockInv, Writing, Clearing
<1>6. CallInv'
  BY <1>0, <1>1, <1>2, <1>3 DEF CallInv, Writing, Clearing, histVars
<1>7. (Reading' <=> Reading) /\ (Loading' <=> Loading)
  BY <1>2, <1>3 DEF Reading, Loading
<1>8. at < total \/ total = 0
  <2>1. CASE Loading  BY <1>0, <2>1 DEF CallInv, Loading
  <2>2. CASE ~Loading
    <3>1. ~Reading  BY <1>3 DEF Reading
    <3>2. fifo_in = Reg(total) /\ head = Reg(at) /\ at <= furthest /\ furthest <= total
      BY <2>2, <3>1 DEF IInv, IndexInv
    <3>3. total # at  BY <1>1, <3>2
    <3>4. total \in Nat /\ at \in Int /\ furthest \in Nat  BY <1>0, Typed
    <3> QED  BY <3>2, <3>3, <3>4, SMT
  <2> QED  BY <2>1, <2>2
<1>9. Cleared => \A q \in Procs :
        /\ pc'[q] = "run_asked" /\ run = "no" => at < total \/ total = 0
        /\ pc'[q] = "write_room" => /\ total - at <= Sub(fifo_in, fifo_out')
                                    /\ Sub(fifo_in, fifo_out') <= Size
  BY <1>2, <1>3, <1>8
<1> QED  BY <1>1, <1>4, <1>5, <1>6, <1>7, <1>9, Aside

\* A run that is refused.
LEMMA StepRunRefused ==
  ASSUME IInv, NEW p \in Procs, RunRefused(p)
  PROVE  IInv'
<1>0. /\ TypeOK /\ LockInv /\ CallInv  BY DEF IInv
<1>1. /\ pc[p] = "run_asked" /\ Leave(p)
      /\ UNCHANGED <<slots, hostVars, scriptVars, run, owed, lock, histVars>>
  BY DEF RunRefused, At
<1>2. /\ pc' \in [Procs -> Places] /\ arg' \in [Procs -> 0..(Word - 1)]
      /\ pc'[p] = "idle"
      /\ \A q \in Procs \ {p} : pc'[q] = pc[q] /\ arg'[q] = arg[q]
  BY <1>0, <1>1, Left
<1>3. TypeOK'
  BY <1>0, <1>1, <1>2 DEF TypeOK, hostVars, scriptVars, histVars
<1>4. LockInv'  BY <1>0, <1>1, <1>2 DEF LockInv, Writing, Clearing
<1>5. CallInv'
  BY <1>0, <1>1, <1>2 DEF CallInv, Writing, Clearing, hostVars, histVars
<1>6. (Reading' <=> Reading) /\ (Loading' <=> Loading)
  BY <1>1, <1>2 DEF Reading, Loading
<1>7. Cleared => \A q \in Procs :
        /\ pc'[q] = "run_asked" /\ run = "no" => at < total \/ total = 0
        /\ pc'[q] = "write_room" => /\ total - at <= Sub(fifo_in, fifo_out')
                                    /\ Sub(fifo_in, fifo_out') <= Size
  BY <1>1, <1>2 DEF IInv, RingInv, hostVars
<1> QED  BY <1>1, <1>3, <1>4, <1>5, <1>6, <1>7, Aside DEF hostVars

-----------------------------------------------------------------------------
(* Copying into the ring.                                                    *)

\* The slots just behind a ring's size ago are at the ring's end.
LEMMA SlotBehind ==
  ASSUME NEW x \in Int, -Size <= x, x < 0
  PROVE  Slot(x) = x + Size
<1>1. Multiple((x + Size) - x, Size)
  <2>1. (x + Size) - x = Size * 1  BY Constants, SMT
  <2> QED  BY <2>1 DEF Multiple
<1>2. x + Size \in Int /\ 0 <= x + Size /\ x + Size < Size  BY Constants, SMT
<1>3. (x + Size) % Size = x % Size  BY <1>1, <1>2, Constants, ModCongruent
<1>4. (x + Size) % Size = x + Size  BY <1>2, Constants, ModSmall
<1> QED  BY <1>3, <1>4 DEF Slot

\* What a copy leaves in the slot of a number.
LEMMA CopiedSlot ==
  ASSUME TypeOK, fifo_in = Reg(total), NEW n, NEW k \in Int
  PROVE  CopiedIn(n, total)[Slot(k)]
           = IF Slot(k - total) < n THEN total + Slot(k - total) ELSE slots[Slot(k)]
<1>1. Slot(k) \in DOMAIN slots  BY SlotOfReg DEF TypeOK
<1>2. total \in Int  BY Typed
<1>3. (Slot(k) - fifo_in) % Size = Slot(k - total)  BY <1>2, SlotAhead
<1> QED  BY <1>1, <1>3 DEF CopiedIn

\* The bytes that are copied in are found at their numbers.
LEMMA CopyPuts ==
  ASSUME TypeOK, fifo_in = Reg(total), NEW n \in Nat, n <= Size,
         NEW k \in Int, total <= k, k < total + n
  PROVE  CopiedIn(n, total)[Slot(k)] = k
<1>1. total \in Nat  BY Typed
<1>2. k - total \in Int /\ 0 <= k - total /\ k - total < n /\ k - total < Size
  BY <1>1, Constants, SMT
<1>3. Slot(k - total) = k - total
  BY <1>2, Constants, ModSmall DEF Slot
<1>4. CopiedIn(n, total)[Slot(k)] = total + (k - total)
  BY <1>2, <1>3, CopiedSlot
<1> QED  BY <1>1, <1>4, SMT

\* The bytes less than a ring's size behind the end of the copy stay.
LEMMA CopySpares ==
  ASSUME TypeOK, fifo_in = Reg(total), NEW n \in Nat, n <= Size,
         NEW k \in Int, k < total, k >= total + n - Size
  PROVE  CopiedIn(n, total)[Slot(k)] = slots[Slot(k)]
<1>1. total \in Nat  BY Typed
<1>2. k - total \in Int /\ -Size <= k - total /\ k - total < 0
  BY <1>1, Constants, SMT
<1>3. Slot(k - total) = (k - total) + Size  BY <1>2, SlotBehind
<1>4. ~(Slot(k - total) < n)  BY <1>1, <1>2, <1>3, Constants, SMT
<1> QED  BY <1>4, CopiedSlot

\* A copy keeps the ring a function from its slots to bytes' numbers.
LEMMA CopyTyped ==
  ASSUME TypeOK, NEW n \in Nat, total + n <= MaxTotal
  PROVE  CopiedIn(n, total) \in [0..(Size - 1) -> Empty..MaxTotal]
<1> SUFFICES ASSUME NEW i \in 0..(Size - 1)
             PROVE  (IF (i - fifo_in) % Size < n THEN total + ((i - fifo_in) % Size)
                     ELSE slots[i]) \in Empty..MaxTotal
  BY DEF CopiedIn, TypeOK
<1>1. slots[i] \in Empty..MaxTotal  BY DEF TypeOK
<1>2. i - fifo_in \in Int  BY Typed, Constants, SMT
<1> DEFINE k == (i - fifo_in) % Size
<1>3. k \in Int /\ 0 <= k  BY <1>2, Constants, ModSplit
<1> HIDE DEF k
<1>4. k < n => total + k \in Empty..MaxTotal
  <2>1. total \in Nat  BY Typed
  <2> QED  BY <2>1, <1>3, Constants, SMT DEF Empty
<1>5. (IF k < n THEN total + k ELSE slots[i]) \in Empty..MaxTotal
  BY <1>1, <1>4
<1> QED  BY <1>5 DEF k

\* The room test is made on a head that the script may have left since, but not
\* backward: what it grants leaves the gap behind the head.
LEMMA RoomLeft ==
  ASSUME IInv, Cleared, NEW p \in Procs, pc[p] = "write_room", HasRoom(arg[p])
  PROVE  total + arg[p] - at <= Size - Gap
<1>1. /\ total \in Nat /\ at \in Int /\ arg[p] \in Nat
      /\ fifo_in \in Int /\ fifo_out \in Int
  BY Typed DEF IInv
<1> DEFINE s == Sub(fifo_in, fifo_out)
<1>2. total - at <= s /\ s <= Size  BY DEF IInv, RingInv
<1>3. s \in Int /\ 0 <= s
  <2>1. s = Reg(fifo_in - fifo_out) /\ fifo_in - fifo_out \in Int
    BY <1>1, RegArith
  <2> HIDE DEF s
  <2> QED  BY <2>1, RegArith
<1>4. Sub(Size, s) >= arg[p] + Gap  BY DEF HasRoom, Avail
<1> HIDE DEF s
<1>5. Sub(Size, s) = Size - s
  <2>1. Size - s \in Int /\ 0 <= Size - s /\ Size - s < Word /\ Size \in Int
    BY <1>2, <1>3, Constants, SMT
  <2>2. Sub(Size, s) = Reg(Size - s)  BY <2>1, <1>3, RegArith
  <2> QED  BY <2>1, <2>2, RegFits
<1> QED  BY <1>1, <1>2, <1>3, <1>4, <1>5, Constants, SMT

\* A copy of up to n bytes where there is room for n leaves everything that is
\* kept in its place.
LEMMA CopyKeeps ==
  ASSUME IInv, Cleared, NEW p \in Procs, pc[p] = "write_room", HasRoom(arg[p]),
         NEW n \in Nat, n <= arg[p], NEW k \in Nat, k < total,
         k >= furthest - Gap \/ k >= total + n - Size
  PROVE  CopiedIn(n, total)[Slot(k)] = slots[Slot(k)]
<1>1. /\ total \in Nat /\ at \in Int /\ furthest \in Nat /\ arg[p] \in Nat
      /\ TypeOK
  BY Typed DEF IInv
<1>2. total + arg[p] - at <= Size - Gap  BY RoomLeft
<1>3. ~Reading /\ ~Loading
  <2>1. \A q \in Procs \ {p} : pc[q] \notin Writing \cup Clearing
    BY Holder DEF IInv, Writing
  <2> QED  BY <2>1 DEF Reading, Loading, Clearing
<1>4. fifo_in = Reg(total) /\ at <= furthest /\ furthest <= total
  BY <1>3 DEF IInv, IndexInv
<1>5. n <= Size /\ k >= total + n - Size /\ k \in Int
  BY <1>1, <1>2, <1>4, Constants, SMT
<1> QED  BY <1>1, <1>4, <1>5, CopySpares

\* The room test and the copy, which may fault half way.
LEMMA StepWriteRoom ==
  ASSUME IInv, NEW p \in Procs, WriteRoom(p)
  PROVE  IInv'
<1>0. TypeOK /\ LockInv /\ CallInv  BY DEF IInv
<1> DEFINE n == arg[p]
<1>1. /\ pc[p] = "write_room"
      /\ UNCHANGED <<fifo_out, scriptVars, run, owed, at, furthest, refused>>
  BY DEF WriteRoom, At
<1>2. /\ lock = p
      /\ \A q \in Procs \ {p} : pc[q] \notin Writing \cup Clearing
  BY <1>0, <1>1, Holder DEF Writing
<1>3. ~Reading /\ ~Loading
  BY <1>1, <1>2 DEF Reading, Loading, Clearing
<1>4. n \in 1..MaxWrite /\ total + n <= MaxTotal /\ run # "backward"
  BY <1>0, <1>1 DEF CallInv, Writing
<1>5. /\ total \in Nat /\ at \in Int /\ furthest \in Nat /\ n \in Nat /\ n > 0
      /\ n < Word /\ total + n \in 0..MaxTotal
  BY <1>0, <1>4, Typed, Constants, SMT
<1>6. /\ head = Reg(at) /\ fifo_in = Reg(total)
      /\ furthest <= total /\ at <= furthest
  BY <1>3 DEF IInv, IndexInv
<1>7. CASE /\ HasRoom(n)
           /\ slots' = CopiedIn(n, total)
           /\ fifo_in' = Add(fifo_in, n) /\ total' = total + n
           /\ Enter(p, "write_publish", n)
           /\ UNCHANGED <<lock, harm>>
  <2>1. /\ pc' \in [Procs -> Places] /\ arg' \in [Procs -> 0..(Word - 1)]
        /\ pc'[p] = "write_publish" /\ arg'[p] = n
        /\ \A q \in Procs \ {p} : pc'[q] = pc[q] /\ arg'[q] = arg[q]
    BY <1>0, <1>7, ArgTyped, PlaceNames, Moved
  <2>2. fifo_in' = Reg(total + n) /\ Reg(total + n) \in 0..(Word - 1)
    <3>1. fifo_in' = Reg(total + n)
      <4>1. total \in Int /\ n \in Int  BY <1>5, SMT
      <4>2. Add(Reg(total), n) = Reg(total + n)  BY <4>1, RegArith
      <4> QED  BY <4>2, <1>6, <1>7
    <3>2. total + n \in Int  BY <1>5, SMT
    <3> QED  BY <3>1, <3>2, RegArith
  <2>3. TypeOK'
    <3>1. slots' \in [0..(Size - 1) -> Empty..MaxTotal]
      BY <1>0, <1>4, <1>5, <1>7, CopyTyped
    <3>2. fifo_in' \in 0..(Word - 1) /\ total' \in 0..MaxTotal
      BY <2>2, <1>5, <1>7
    <3> QED  BY <1>0, <1>1, <1>7, <2>1, <3>1, <3>2 DEF TypeOK, scriptVars
  <2>4. LockInv'  BY <1>2, <1>7, <2>1 DEF LockInv, Writing, Clearing
  <2>5. CallInv'
    <3>1. \A q \in Procs \ {p} : pc'[q] \notin Writing \cup Clearing
      BY <1>2, <2>1
    <3>2. run' = run /\ arg'[p] <= total'  BY <1>1, <1>5, <1>7, <2>1, SMT
    <3> QED  BY <1>4, <2>1, <3>1, <3>2 DEF CallInv, Writing, Clearing
  <2>6. IndexInv'
    <3>1. furthest' <= total' /\ at' <= furthest' /\ head' = Reg(at')
      BY <1>1, <1>5, <1>6, <1>7, SMT DEF scriptVars
    <3> QED  BY <2>2, <3>1, <1>7 DEF IndexInv, Reg
  <2>7. ScriptInv'
    <3>1. tail' = tail /\ head' = head /\ dir' = dir /\ run' = run /\ at' = at
      BY <1>1 DEF scriptVars
    <3>2. run = "forward" => dir # -1 /\ Sub(tail, head) <= total - at
      BY DEF IInv, ScriptInv
    <3>3. Sub(tail, head) \in Int
      <4>1. tail \in Int /\ head \in Int  BY <1>0, Typed, SMT
      <4>2. Sub(tail, head) = Reg(tail - head) /\ tail - head \in Int
        BY <4>1, RegArith
      <4> QED  BY <4>2, RegArith
    <3>4. run = "forward" => Sub(tail, head) <= total' - at
      BY <1>5, <1>7, <3>2, <3>3, SMT
    <3> QED  BY <1>4, <3>1, <3>2, <3>4 DEF ScriptInv, Sub
  <2>8. RingInv'
    <3> SUFFICES ASSUME Cleared PROVE RingInv'  BY <1>7 DEF RingInv, Cleared
    <3>1. total + n - at <= Size - Gap  BY <1>1, <1>7, RoomLeft
    <3>2. total' - at' <= Size /\ at' >= 0
      BY <1>1, <1>5, <1>7, <3>1, Constants, SMT DEF IInv, RingInv
    <3>3. \A q \in Procs : pc'[q] # "write_room"
      BY <1>2, <2>1 DEF Writing
    <3>4. at < total \/ total = 0 => at' < total'
      BY <1>1, <1>5, <1>6, <1>7, SMT
    <3>5. \A q \in Procs : pc'[q] = "run_asked" /\ run' = "no" => at' < total'
      BY <1>1, <2>1, <3>4 DEF IInv, RingInv
    <3> QED  BY <1>1, <1>4, <3>2, <3>3, <3>5 DEF RingInv
  <2>9. SlotInv'
    <3> SUFFICES ASSUME Cleared, NEW k \in Nat, Kept(k)'
                 PROVE  CopiedIn(n, total)[Slot(k)] = k
      BY <1>7 DEF SlotInv, Cleared, Slot
    <3>1. total + n - at <= Size - Gap  BY <1>1, <1>7, RoomLeft
    <3>2. /\ k < total + n
          /\ k >= furthest - Gap \/ (harm = {} /\ k >= total + n - Size)
      <4>1. total' = total + n /\ furthest' = furthest /\ harm' = harm
        BY <1>1, <1>7
      <4>2. k < total' /\ (k >= furthest' - Gap \/ (harm' = {} /\ k >= total' - Size))
        BY DEF Kept
      <4>3. harm' = {} <=> harm = {}  BY <4>1
      <4> QED  BY <1>5, <4>1, <4>2, <4>3, Constants, SMT
    <3>3. CASE k >= total
      <4>1. n <= Size  BY <1>5, <1>6, <3>1, Constants, SMT
      <4>2. k \in Int  OBVIOUS
      <4> QED  BY <1>0, <1>5, <1>6, <3>2, <3>3, <4>1, <4>2, CopyPuts
    <3>4. CASE ~(k >= total)
      <4>1. k < total  BY <1>5, <3>4, SMT
      <4>2. n <= arg[p]  BY <1>5, SMT
      <4>3. CopiedIn(n, total)[Slot(k)] = slots[Slot(k)]
        BY <1>1, <1>5, <1>7, <3>2, <4>1, <4>2, CopyKeeps
      <4>4. Kept(k)
        <5>1. k >= total + n - Size => k >= total - Size
          BY <1>5, Constants, SMT
        <5> QED  BY <3>2, <4>1, <5>1 DEF Kept
      <4> QED  BY <4>3, <4>4 DEF IInv, SlotInv
    <3> QED  BY <3>3, <3>4
  <2> QED  BY <2>3, <2>4, <2>5, <2>6, <2>7, <2>8, <2>9 DEF IInv
<1>8. CASE /\ IF HasRoom(n)
              THEN /\ "copy" \in Failing
                   /\ \E part \in 0..(n - 1) :
                        /\ slots' = CopiedIn(part, total)
                        /\ harm' = IF part > 0 THEN harm \cup {"copy"} ELSE harm
              ELSE UNCHANGED <<slots, harm>>
           /\ Leave(p) /\ lock' = Free
           /\ UNCHANGED <<fifo_in, total>>
  <2>1. /\ pc' \in [Procs -> Places] /\ arg' \in [Procs -> 0..(Word - 1)]
        /\ pc'[p] = "idle"
        /\ \A q \in Procs \ {p} : pc'[q] = pc[q] /\ arg'[q] = arg[q]
    BY <1>0, <1>8, Left
  <2>2. \A q \in Procs : pc'[q] \notin Writing \cup Clearing
    BY <1>2, <2>1 DEF Writing, Clearing
  <2>3. PICK part \in Nat :
          /\ part <= n
          /\ \/ slots' = slots /\ harm' = harm
             \/ /\ HasRoom(n) /\ slots' = CopiedIn(part, total)
                /\ harm' = IF part > 0 THEN harm \cup {"copy"} ELSE harm
    <3>1. CASE HasRoom(n)
      <4>1. PICK part \in 0..(n - 1) :
              /\ slots' = CopiedIn(part, total)
              /\ harm' = IF part > 0 THEN harm \cup {"copy"} ELSE harm
        BY <1>8, <3>1
      <4>2. part \in Nat /\ part <= n  BY <1>5, SMT
      <4> QED  BY <3>1, <4>1, <4>2
    <3>2. CASE ~HasRoom(n)
      <4>1. slots' = slots /\ harm' = harm  BY <1>8, <3>2
      <4>2. 0 \in Nat /\ 0 <= n  BY <1>5, SMT
      <4> QED  BY <4>1, <4>2
    <3> QED  BY <3>1, <3>2
  <2>4. harm' \subseteq {"copy", "clear"} /\ (Cleared' <=> Cleared)
    BY <1>0, <2>3 DEF TypeOK, Cleared
  <2>5. TypeOK'
    <3>1. total + part <= MaxTotal  BY <1>4, <1>5, <2>3, Constants, SMT
    <3>2. slots' \in [0..(Size - 1) -> Empty..MaxTotal]
      BY <1>0, <2>3, <3>1, CopyTyped DEF TypeOK
    <3> QED  BY <1>0, <1>1, <1>8, <2>1, <2>4, <3>2 DEF TypeOK, scriptVars
  <2>6. LockInv'  BY <1>8, <2>2, Constants DEF LockInv
  <2>7. CallInv'  BY <2>2 DEF CallInv, Writing, Clearing
  <2>8. IndexInv'  BY <1>1, <1>6, <1>8 DEF IndexInv, Reg, scriptVars
  <2>9. ScriptInv'
    BY <1>1, <1>8 DEF IInv, ScriptInv, Sub, scriptVars
  <2>10. RingInv'
    <3> SUFFICES ASSUME Cleared PROVE RingInv'  BY <2>4 DEF RingInv
    <3>1. at' >= 0 /\ total' - at' <= Size
      BY <1>1, <1>3, <1>8 DEF IInv, RingInv
    <3>2. \A q \in Procs : pc'[q] # "write_room"  BY <2>2 DEF Writing
    <3>3. \A q \in Procs : pc'[q] = "run_asked" /\ run' = "no"
                             => at' < total' \/ total' = 0
      BY <1>1, <1>8, <2>1 DEF IInv, RingInv
    <3> QED  BY <1>1, <1>4, <3>1, <3>2, <3>3 DEF RingInv
  <2>11. SlotInv'
    <3> SUFFICES ASSUME Cleared, NEW k \in Nat, Kept(k)'
                 PROVE  slots'[Slot(k)] = k
      BY <2>4 DEF SlotInv, Slot
    <3>1. /\ k < total
          /\ k >= furthest - Gap \/ (harm' = {} /\ k >= total - Size)
      BY <1>1, <1>8 DEF Kept
    <3>2. Kept(k)  BY <2>3, <3>1 DEF Kept
    <3>3. slots[Slot(k)] = k  BY <3>2 DEF IInv, SlotInv
    <3>4. CASE HasRoom(n) /\ slots' = CopiedIn(part, total)
                 /\ harm' = IF part > 0 THEN harm \cup {"copy"} ELSE harm
      <4>1. k >= furthest - Gap \/ k >= total + part - Size
        <5>1. harm' = {} => part = 0  BY <3>4, <2>3, SMT
        <5> QED  BY <1>5, <3>1, <5>1, Constants, SMT
      <4>2. CopiedIn(part, total)[Slot(k)] = slots[Slot(k)]
        BY <1>1, <2>3, <3>1, <3>4, <4>1, CopyKeeps
      <4> QED  BY <3>3, <3>4, <4>2
    <3> QED  BY <2>3, <3>3, <3>4
  <2> QED  BY <2>5, <2>6, <2>7, <2>8, <2>9, <2>10, <2>11 DEF IInv
<1> QED  BY <1>7, <1>8 DEF WriteRoom

\* The tail is told to the script, or is not.
LEMMA StepWritePublish ==
  ASSUME IInv, NEW p \in Procs, WritePublish(p)
  PROVE  IInv'
<1>0. TypeOK /\ LockInv /\ CallInv  BY DEF IInv
<1>1. /\ pc[p] = "write_publish" /\ lock' = Free /\ Leave(p)
      /\ UNCHANGED <<slots, hostVars, head, dir, run, owed, at, furthest, harm>>
      /\ \/ tail' = fifo_in /\ refused' = refused
         \/ tail' = tail /\ refused' = total - arg[p]
  BY DEF WritePublish, At
<1>2. /\ lock = p
      /\ \A q \in Procs \ {p} : pc[q] \notin Writing \cup Clearing
  BY <1>0, <1>1, Holder DEF Writing
<1>3. ~Reading /\ ~Loading
  BY <1>1, <1>2 DEF Reading, Loading, Clearing
<1>4. /\ pc' \in [Procs -> Places] /\ arg' \in [Procs -> 0..(Word - 1)]
      /\ pc'[p] = "idle"
      /\ \A q \in Procs \ {p} : pc'[q] = pc[q] /\ arg'[q] = arg[q]
  BY <1>0, <1>1, Left
<1>5. \A q \in Procs : pc'[q] \notin Writing \cup Clearing
  BY <1>2, <1>4 DEF Writing, Clearing
<1>6. arg[p] <= total /\ run # "backward"  BY <1>0, <1>1 DEF CallInv, Writing
<1>7. /\ total \in Nat /\ at \in Int /\ furthest \in Nat /\ arg[p] \in Nat
      /\ total <= MaxTotal
  BY <1>0, Typed
<1>8. /\ head = Reg(at) /\ fifo_in = Reg(total)
      /\ furthest <= total /\ at <= furthest
  BY <1>3 DEF IInv, IndexInv
<1>9. TypeOK'
  <2>1. total - arg[p] \in Empty..MaxTotal
    BY <1>6, <1>7, Constants, SMT DEF Empty
  <2>2. tail' \in 0..(Word - 1) /\ refused' \in Empty..MaxTotal
    BY <1>0, <1>1, <2>1 DEF TypeOK
  <2> QED  BY <1>0, <1>1, <1>4, <2>2 DEF TypeOK, hostVars
<1>10. LockInv'  BY <1>1, <1>5, Constants DEF LockInv
<1>11. CallInv'  BY <1>5 DEF CallInv, Writing, Clearing
<1>12. IndexInv'  BY <1>1, <1>8 DEF IndexInv, Reg, hostVars
<1>13. ScriptInv'
  <2>1. Sub(fifo_in, head) <= total - at
    <3>1. Sub(fifo_in, head) = Reg(total - at)
      <4>1. total \in Int /\ at \in Int  BY <1>7, SMT
      <4> QED  BY <4>1, <1>8, RegArith
    <3>2. total - at \in Nat  BY <1>7, <1>8, SMT
    <3> QED  BY <3>1, <3>2, RegAtMost
  <2>2. run = "forward" => dir # -1 /\ Sub(tail', head) <= total - at
    BY <1>1, <2>1 DEF IInv, ScriptInv
  <2> QED  BY <1>1, <1>6, <2>2 DEF ScriptInv, Sub, hostVars
<1>14. RingInv'
  <2> SUFFICES ASSUME Cleared PROVE RingInv'  BY <1>1 DEF RingInv, Cleared
  <2>1. at' >= 0 /\ total' - at' <= Size
    BY <1>1, <1>3 DEF IInv, RingInv, hostVars
  <2>2. \A q \in Procs : pc'[q] # "write_room"  BY <1>5 DEF Writing
  <2>3. \A q \in Procs : pc'[q] = "run_asked" /\ run' = "no"
                           => at' < total' \/ total' = 0
    BY <1>1, <1>4 DEF IInv, RingInv, hostVars
  <2> QED  BY <1>1, <1>6, <2>1, <2>2, <2>3 DEF RingInv
<1>15. SlotInv'
  BY <1>1 DEF IInv, SlotInv, Kept, Slot, Cleared, hostVars
<1> QED  BY <1>9, <1>10, <1>11, <1>12, <1>13, <1>14, <1>15 DEF IInv

\* kfifo_reset(), with the lock held and no run.
LEMMA StepClearBegin ==
  ASSUME IInv, NEW p \in Procs, ClearBegin(p)
  PROVE  IInv'
<1>0. TypeOK /\ LockInv /\ CallInv  BY DEF IInv
<1>1. /\ pc[p] = "idle" /\ lock = Free /\ lock' = p /\ run = "no"
      /\ fifo_in' = 0 /\ fifo_out' = 0 /\ Enter(p, "clear_read", 0)
      /\ UNCHANGED <<slots, total, scriptVars, run, owed, histVars>>
  BY DEF ClearBegin, At
<1>2. /\ pc' \in [Procs -> Places] /\ arg' \in [Procs -> 0..(Word - 1)]
      /\ pc'[p] = "clear_read" /\ arg'[p] = 0
      /\ \A q \in Procs \ {p} : pc'[q] = pc[q] /\ arg'[q] = arg[q]
  <2>1. 0 \in 0..(Word - 1)  BY Constants, SMT
  <2> QED  BY <1>0, <1>1, <2>1, PlaceNames, Moved
<1>3. /\ \A q \in Procs : pc[q] \notin Writing \cup Clearing
      /\ ~Reading /\ ~Loading
  BY <1>0, <1>1, LockFree
<1>4. \A q \in Procs \ {p} : pc'[q] \notin Writing \cup Clearing
  BY <1>2, <1>3
<1>5. TypeOK'
  <2>1. 0 \in 0..(Word - 1)  BY Constants, SMT
  <2> QED  BY <1>0, <1>1, <1>2, <2>1 DEF TypeOK, scriptVars, histVars
<1>6. LockInv'  BY <1>1, <1>2, <1>4 DEF LockInv, Writing, Clearing
<1>7. CallInv'  BY <1>1, <1>2, <1>4 DEF CallInv, Writing, Clearing
<1>8. Reading' /\ ~Loading'
  BY <1>2, <1>4 DEF Reading, Loading, Clearing
<1>9. IndexInv'
  BY <1>1, <1>3, <1>8 DEF IInv, IndexInv, Reg, scriptVars, histVars
<1>10. ScriptInv'  BY <1>1 DEF ScriptInv
<1>11. RingInv'
  <2> SUFFICES ASSUME Cleared PROVE RingInv'
    BY <1>1 DEF RingInv, Cleared, histVars
  <2>1. at' >= 0 /\ total' - at' <= Size
    BY <1>1, <1>3 DEF IInv, RingInv, histVars
  <2>2. \A q \in Procs : pc'[q] # "write_room"  BY <1>2, <1>4 DEF Writing
  <2>3. \A q \in Procs : pc'[q] = "run_asked" => at' < total' \/ total' = 0
    BY <1>1, <1>2 DEF IInv, RingInv, histVars
  <2> QED  BY <1>1, <2>1, <2>2, <2>3 DEF RingInv
<1>12. SlotInv'
  BY <1>1 DEF IInv, SlotInv, Kept, Slot, Cleared, histVars
<1> QED  BY <1>5, <1>6, <1>7, <1>9, <1>10, <1>11, <1>12 DEF IInv

\* The play index is read back: no one has stored another one meanwhile.
LEMMA StepClearRead ==
  ASSUME IInv, NEW p \in Procs, ClearRead(p)
  PROVE  IInv'
<1>0. TypeOK /\ LockInv /\ CallInv  BY DEF IInv
<1>1. /\ pc[p] = "clear_read" /\ Enter(p, "clear_load", fifo_out)
      /\ total' = 0 /\ slots' = [i \in DOMAIN slots |-> Empty]
      /\ furthest' = 0 /\ refused' = Empty
      /\ UNCHANGED <<fifo_in, fifo_out, scriptVars, run, owed, lock, at, harm>>
  BY DEF ClearRead, At
<1>2. /\ lock = p
      /\ \A q \in Procs \ {p} : pc[q] \notin Writing \cup Clearing
  BY <1>0, <1>1, Holder DEF Clearing
<1>3. fifo_in = 0 /\ fifo_out = 0 /\ run = "no"
  BY <1>0, <1>1 DEF CallInv, Clearing
<1>4. /\ pc' \in [Procs -> Places] /\ arg' \in [Procs -> 0..(Word - 1)]
      /\ pc'[p] = "clear_load" /\ arg'[p] = 0
      /\ \A q \in Procs \ {p} : pc'[q] = pc[q] /\ arg'[q] = arg[q]
  <2>1. 0 \in 0..(Word - 1)  BY Constants, SMT
  <2> QED  BY <1>0, <1>1, <1>3, <2>1, PlaceNames, Moved
<1>5. \A q \in Procs \ {p} : pc'[q] \notin Writing \cup Clearing
  BY <1>2, <1>4
<1>6. TypeOK'
  <2>1. 0 \in 0..MaxTotal /\ Empty \in Empty..MaxTotal
    BY Constants, SMT DEF Empty
  <2>2. slots' \in [0..(Size - 1) -> Empty..MaxTotal]
    BY <1>0, <1>1, <2>1 DEF TypeOK
  <2> QED  BY <1>0, <1>1, <1>4, <2>1, <2>2 DEF TypeOK, scriptVars
<1>7. LockInv'  BY <1>1, <1>2, <1>4, <1>5 DEF LockInv, Writing, Clearing
<1>8. CallInv'  BY <1>1, <1>3, <1>4, <1>5 DEF CallInv, Writing, Clearing
<1>9. Loading'  BY <1>4 DEF Loading
<1>10. IndexInv'
  <2>1. Reg(0) = 0  BY Constants, RegFits, SMT
  <2>2. head' = Reg(at')  BY <1>1 DEF IInv, IndexInv, scriptVars
  <2>3. fifo_in' = Reg(total')  BY <1>1, <1>3, <2>1
  <2>4. furthest' <= total'  BY <1>1, SMT
  <2> QED  BY <1>9, <2>2, <2>3, <2>4 DEF IndexInv, Reg
<1>11. ScriptInv'  BY <1>1, <1>3 DEF ScriptInv
<1>12. RingInv'
  <2> SUFFICES ASSUME Cleared PROVE RingInv'  BY <1>1 DEF RingInv, Cleared
  <2>1. at' >= 0  BY <1>1 DEF IInv, RingInv
  <2>2. \A q \in Procs : pc'[q] # "write_room"  BY <1>4, <1>5 DEF Writing
  <2> QED  BY <1>1, <1>3, <1>9, <2>1, <2>2 DEF RingInv
<1>13. SlotInv'  BY <1>1, SMT DEF SlotInv, Kept
<1> QED  BY <1>6, <1>7, <1>8, <1>10, <1>11, <1>12, <1>13 DEF IInv

\* The script's registers are loaded, or the load fails and the head stays.
LEMMA StepClearLoad ==
  ASSUME IInv, NEW p \in Procs, ClearLoad(p)
  PROVE  IInv'
<1>0. TypeOK /\ LockInv /\ CallInv  BY DEF IInv
<1>1. /\ pc[p] = "clear_load" /\ lock' = Free /\ Leave(p)
      /\ at' = 0 - Sub(fifo_in, head')
      /\ UNCHANGED <<slots, hostVars, dir, run, owed, furthest, refused>>
      /\ \/ head' = arg[p] /\ tail' = fifo_in /\ harm' = {}
         \/ head' = head /\ tail' = tail /\ harm' = {"clear"}
  BY DEF ClearLoad, At, ClearedHead
<1>2. /\ lock = p
      /\ \A q \in Procs \ {p} : pc[q] \notin Writing \cup Clearing
  BY <1>0, <1>1, Holder DEF Clearing
<1>3. run = "no" /\ total = 0 /\ arg[p] = 0 /\ furthest = 0
  BY <1>0, <1>1 DEF CallInv, Clearing
<1>4. fifo_in = 0
  <2>1. ~Reading  BY <1>1, <1>2 DEF Reading, Clearing
  <2>2. Reg(0) = 0  BY Constants, RegFits, SMT
  <2> QED  BY <1>3, <2>1, <2>2 DEF IInv, IndexInv
<1>5. /\ pc' \in [Procs -> Places] /\ arg' \in [Procs -> 0..(Word - 1)]
      /\ pc'[p] = "idle"
      /\ \A q \in Procs \ {p} : pc'[q] = pc[q] /\ arg'[q] = arg[q]
  BY <1>0, <1>1, Left
<1>6. \A q \in Procs : pc'[q] \notin Writing \cup Clearing
  BY <1>2, <1>5 DEF Writing, Clearing
<1>7. /\ head' \in 0..(Word - 1) /\ tail' \in 0..(Word - 1)
      /\ harm' \subseteq {"copy", "clear"}
  <2>1. 0 \in 0..(Word - 1)  BY Constants, SMT
  <2> QED  BY <1>0, <1>1, <1>3, <1>4, <2>1 DEF TypeOK
<1>8. /\ at' \in Int /\ at' <= 0 /\ head' = Reg(at')
  <2> DEFINE h == head'
  <2>1. h \in Int /\ 0 <= h /\ h < Word  BY <1>7, Constants, SMT
  <2> HIDE DEF h
  <2>2. Sub(0, h) = Reg(0 - h) /\ 0 - h \in Int  BY <2>1, RegArith, SMT
  <2> DEFINE u == 0 - h  r == Reg(u)
  <2>3. r \in Int /\ 0 <= r  BY <2>2, RegArith
  <2>4. Sub(0, Reg(u)) = Reg(0 - u) /\ Sub(0, r) = Reg(0 - r)
    <3>1. u \in Int  BY <2>2
    <3> HIDE DEF u
    <3>2. Sub(0, Reg(u)) = Reg(0 - u)  BY <3>1, RegArith, SMT
    <3>3. r \in Int  BY <2>3
    <3> HIDE DEF r
    <3>4. Sub(0, r) = Reg(0 - r)  BY <3>3, RegArith, SMT
    <3> QED  BY <3>2, <3>4
  <2>5. 0 - u = h  BY <2>1, SMT
  <2>6. Reg(h) = h  BY <2>1, RegFits
  <2>7. Reg(0 - r) = h  BY <2>4, <2>5, <2>6
  <2>8. at' = 0 - r  BY <1>1, <1>4, <2>2 DEF h
  <2>9. 0 - r \in Int /\ 0 - r <= 0
    <3> HIDE DEF r
    <3> QED  BY <2>3, SMT
  <2> QED  BY <2>7, <2>8, <2>9 DEF h
<1>9. TypeOK'
  BY <1>0, <1>1, <1>5, <1>7, <1>8 DEF TypeOK, hostVars
<1>10. LockInv'  BY <1>1, <1>6, Constants DEF LockInv
<1>11. CallInv'  BY <1>6 DEF CallInv, Writing, Clearing
<1>12. IndexInv'
  <2>1. Reg(0) = 0  BY Constants, RegFits, SMT
  <2>2. fifo_in' = 0 /\ total' = 0 /\ furthest' = 0
    BY <1>1, <1>3, <1>4 DEF hostVars
  <2>3. fifo_in' = Reg(total')  BY <2>1, <2>2
  <2>4. furthest' <= total' /\ at' <= furthest'  BY <2>2, <1>8, SMT
  <2> QED  BY <2>3, <2>4, <1>8 DEF IndexInv, Reg
<1>13. ScriptInv'  BY <1>1, <1>3 DEF ScriptInv
<1>14. RingInv'
  <2> SUFFICES ASSUME Cleared' PROVE RingInv'  BY DEF RingInv
  <2>1. head' = 0  BY <1>1, <1>3 DEF Cleared
  <2>2. at' = 0
    <3>1. Sub(0, 0) = Reg(0 - 0) /\ Reg(0) = 0  BY RegArith, RegFits, Constants, SMT
    <3> QED  BY <1>1, <1>4, <2>1, <3>1, SMT
  <2>3. total' = 0 /\ run' = "no"  BY <1>1, <1>3 DEF hostVars
  <2>4. at' >= 0 /\ total' - at' <= Size  BY <2>2, <2>3, Constants, SMT
  <2>5. \A q \in Procs : pc'[q] # "write_room"  BY <1>6 DEF Writing
  <2> QED  BY <2>3, <2>4, <2>5 DEF RingInv
<1>15. SlotInv'  BY <1>1, <1>3, SMT DEF SlotInv, Kept, hostVars
<1> QED  BY <1>9, <1>10, <1>11, <1>12, <1>13, <1>14, <1>15 DEF IInv

-----------------------------------------------------------------------------
(* Runs.                                                                     *)

\* A forward run starts with the tail at the write index.
LEMMA StepRunForward ==
  ASSUME IInv, NEW p \in Procs, RunForward(p)
  PROVE  IInv'
<1>0. TypeOK /\ LockInv /\ CallInv  BY DEF IInv
<1>1. /\ pc[p] = "run_asked" /\ lock = Free /\ run = "no"
      /\ tail' = fifo_in /\ dir' = 1 /\ run' = "forward" /\ Leave(p)
      /\ UNCHANGED <<slots, hostVars, head, owed, lock, histVars>>
  BY DEF RunForward, At
<1>2. /\ \A q \in Procs : pc[q] \notin Writing \cup Clearing
      /\ ~Reading /\ ~Loading
  BY <1>0, <1>1, LockFree
<1>3. /\ pc' \in [Procs -> Places] /\ arg' \in [Procs -> 0..(Word - 1)]
      /\ pc'[p] = "idle"
      /\ \A q \in Procs \ {p} : pc'[q] = pc[q] /\ arg'[q] = arg[q]
  BY <1>0, <1>1, Left
<1>4. \A q \in Procs : pc'[q] \notin Writing \cup Clearing
  BY <1>2, <1>3 DEF Writing, Clearing
<1>5. /\ total \in Nat /\ at \in Int /\ furthest \in Nat
      /\ fifo_in = Reg(total) /\ head = Reg(at)
      /\ at <= furthest /\ furthest <= total
  BY <1>0, <1>2, Typed DEF IInv, IndexInv
<1>6. TypeOK'
  <2>1. tail' \in 0..(Word - 1)  BY <1>0, <1>1 DEF TypeOK
  <2> QED  BY <1>0, <1>1, <1>3, <2>1 DEF TypeOK, hostVars, histVars
<1>7. LockInv'  BY <1>1, <1>4, Constants DEF LockInv
<1>8. CallInv'  BY <1>4 DEF CallInv, Writing, Clearing
<1>9. IndexInv'
  BY <1>1, <1>5 DEF IndexInv, Reg, hostVars, histVars
<1>10. ScriptInv'
  <2>1. Sub(fifo_in, head) = Reg(total - at)
    <3>1. total \in Int /\ at \in Int  BY <1>5, SMT
    <3> QED  BY <3>1, <1>5, RegArith
  <2>2. total - at \in Nat  BY <1>5, SMT
  <2>3. Sub(fifo_in, head) <= total - at  BY <2>1, <2>2, RegAtMost
  <2>4. Sub(tail', head') <= total' - at'
    BY <1>1, <2>3 DEF hostVars, histVars
  <2> QED  BY <1>1, <2>4, SMT DEF ScriptInv
<1>11. RingInv'
  <2> SUFFICES ASSUME Cleared PROVE RingInv'
    BY <1>1 DEF RingInv, Cleared, histVars
  <2>1. at' >= 0 /\ total' - at' <= Size
    BY <1>1, <1>2 DEF IInv, RingInv, hostVars, histVars
  <2>2. \A q \in Procs : pc'[q] # "write_room"  BY <1>4 DEF Writing
  <2> QED  BY <1>1, <2>1, <2>2 DEF RingInv
<1>12. SlotInv'
  BY <1>1 DEF IInv, SlotInv, Kept, Slot, Cleared, hostVars, histVars
<1> QED  BY <1>6, <1>7, <1>8, <1>9, <1>10, <1>11, <1>12 DEF IInv

\* A granted backtrack fits a register, whatever the indices say.
LEMMA GrantTyped ==
  ASSUME NEW size \in Nat, NEW unplayed \in Nat, NEW sum \in Nat, NEW t \in Nat,
         NEW n \in Nat \ {0}, n <= MaxSteps(size, unplayed, sum, t)
  PROVE  n + t \in 0..(Word - 1) /\ n + t <= Genuine(size, unplayed, sum)
<1> DEFINE played == IF sum > unplayed THEN sum - unplayed ELSE 0
           resident == (size - unplayed) % Word
           genuine == IF played < resident THEN played ELSE resident
<1>1. played \in Nat  BY SMT
<1>2. resident \in Int /\ 0 <= resident /\ resident < Word
  <2>1. size - unplayed \in Int  BY SMT
  <2> QED  BY <2>1, Constants, ModSplit
<1>3. genuine = Genuine(size, unplayed, sum)  BY DEF Genuine
<1>4. n <= IF genuine > t THEN genuine - t ELSE 0  BY <1>3 DEF MaxSteps
<1> HIDE DEF played, resident
<1>5. genuine \in Nat /\ genuine < Word  BY <1>1, <1>2, Constants, SMT
<1> HIDE DEF genuine
<1>6. n + t <= genuine  BY <1>4, <1>5, SMT
<1>7. n + t \in 0..(Word - 1)  BY <1>5, <1>6, Constants, SMT
<1> QED  BY <1>3, <1>6, <1>7

\* A backward run starts with its dead stop a genuine span behind the write
\* index, and with room for its waypoint and its ramp.
LEMMA StepRunBackward ==
  ASSUME IInv, ~Preempt, NEW p \in Procs, NEW n \in 1..Size, NEW t \in Tails,
         RunBackward(p, n, t)
  PROVE  IInv'
<1>0. TypeOK /\ LockInv /\ CallInv  BY DEF IInv
<1>1. /\ pc[p] = "run_asked" /\ lock = Free /\ run = "no"
      /\ fifo_out' = head /\ n <= MaxBacktrack(t)
      /\ tail' = Sub(fifo_in, Span(Size, total)) /\ dir' = -1
      /\ run' = "backward" /\ left' = n /\ reserve' = t /\ Leave(p)
      /\ UNCHANGED <<slots, fifo_in, total, head, lock, histVars>>
  BY DEF RunBackward, At, DeadStop
<1>2. /\ \A q \in Procs : pc[q] \notin Writing \cup Clearing
      /\ ~Reading /\ ~Loading
  BY <1>0, <1>1, LockFree
<1>3. /\ pc' \in [Procs -> Places] /\ arg' \in [Procs -> 0..(Word - 1)]
      /\ pc'[p] = "idle"
      /\ \A q \in Procs \ {p} : pc'[q] = pc[q] /\ arg'[q] = arg[q]
  BY <1>0, <1>1, Left
<1>4. \A q \in Procs : pc'[q] \notin Writing \cup Clearing
  BY <1>2, <1>3 DEF Writing, Clearing
<1>5. /\ total \in Nat /\ at \in Int /\ furthest \in Nat
      /\ fifo_in = Reg(total) /\ head = Reg(at)
      /\ at <= furthest /\ furthest <= total
      /\ fifo_in \in Nat /\ head \in Nat
  BY <1>0, <1>2, Typed DEF IInv, IndexInv
<1>6. t \in Nat /\ n \in Nat \ {0} /\ Size \in Nat
  BY Constants, RingAssumption, SMT
<1> DEFINE u == Sub(fifo_in, head)
<1>7. u \in Nat
  <2>1. fifo_in \in Int /\ head \in Int  BY <1>5, SMT
  <2>2. fifo_in - head \in Int  BY <2>1, SMT
  <2>3. Sub(fifo_in, head) = Reg(fifo_in - head)  BY <2>1, RegArith
  <2>4. Reg(fifo_in - head) \in Int /\ 0 <= Reg(fifo_in - head)
    BY <2>2, RegArith
  <2> QED  BY <2>3, <2>4, SMT
<1>8. n <= MaxSteps(Size, u, total, t)  BY <1>1 DEF MaxBacktrack
<1> HIDE DEF u
<1>9. n + t \in 0..(Word - 1) /\ n + t <= Genuine(Size, u, total)
  BY <1>5, <1>6, <1>7, <1>8, GrantTyped
<1>10. /\ Dead \in Nat /\ Dead <= total /\ Span(Size, total) \in Nat
  BY <1>0, DeadIs
<1>11. tail' = Reg(Dead)
  <2> DEFINE s == Span(Size, total)
  <2>1. s \in Int /\ total \in Int  BY <1>5, <1>10, SMT
  <2> HIDE DEF s
  <2>2. Sub(Reg(total), s) = Reg(total - s)  BY <2>1, RegArith
  <2> QED  BY <1>1, <1>5, <2>2 DEF s, Dead
<1>12. TypeOK'
  <2>1. Dead \in Int  BY <1>10, SMT
  <2>2. Reg(Dead) \in 0..(Word - 1)  BY <2>1, RegArith
  <2>3. n \in 0..(Word - 1) /\ t \in 0..(Word - 1)
    BY <1>6, <1>9, Constants, SMT
  <2>5. /\ tail' \in 0..(Word - 1)
        /\ left' \in 0..(Word - 1) /\ reserve' \in 0..(Word - 1)
    BY <1>1, <1>11, <2>2, <2>3
  <2>4. fifo_out' \in 0..(Word - 1)  BY <1>0, <1>1 DEF TypeOK
  <2> QED  BY <1>0, <1>1, <1>3, <2>5, <2>4 DEF TypeOK, histVars
<1>13. LockInv'  BY <1>1, <1>4, Constants DEF LockInv
<1>14. CallInv'  BY <1>4 DEF CallInv, Writing, Clearing
<1>15. IndexInv'
  BY <1>1, <1>5 DEF IndexInv, Reg, histVars
<1>16. ScriptInv'  BY <1>1, SMT DEF ScriptInv
<1>17. RingInv'
  <2> SUFFICES ASSUME Cleared PROVE RingInv'
    BY <1>1 DEF RingInv, Cleared, histVars
  <2>1. at' >= 0 /\ total' - at' <= Size
    BY <1>1, <1>2 DEF IInv, RingInv, histVars
  <2>2. \A q \in Procs : pc'[q] # "write_room"  BY <1>4 DEF Writing
  <2>3. u = total - at /\ total - at \in 0..Size
    BY <1>2, Unplayed DEF u
  <2>4. at \in Nat  BY <1>5, <2>1, <1>1, SMT DEF histVars
  <2>5. u \in 0..Size /\ u <= total /\ Size \in Nat /\ Size < Word
    BY <1>5, <1>6, <2>3, <2>4, Constants, SMT
  <2>6. /\ n + t <= total - u
        /\ u + n + t <= Span(Size, total)
    BY <1>5, <1>6, <1>8, <2>5, GrantFits
  <2>7. n + t <= at - Dead
    BY <1>5, <1>6, <1>10, <2>3, <2>6, SMT DEF Dead
  <2>8. at < total
    <3>1. at < total \/ total = 0  BY <1>1 DEF IInv, RingInv
    <3>2. total # 0  BY <1>5, <1>6, <1>7, <2>6, SMT
    <3> QED  BY <3>1, <3>2
  <2>9. /\ tail' = Reg(Dead)' /\ at' < total' /\ dir' # 0
        /\ left' + reserve' <= at' - Dead'
    BY <1>1, <1>11, <2>7, <2>8, SMT DEF Dead, Reg, histVars
  <2> QED  BY <1>1, <2>1, <2>2, <2>9 DEF RingInv
<1>18. SlotInv'
  BY <1>1 DEF IInv, SlotInv, Kept, Slot, Cleared, histVars
<1> QED  BY <1>12, <1>13, <1>14, <1>15, <1>16, <1>17, <1>18 DEF IInv

\* A run ends, and with it whatever was asked for.
LEMMA StepStopRun ==
  ASSUME IInv, StopRun
  PROVE  IInv'
<1>0. TypeOK /\ LockInv /\ CallInv  BY DEF IInv
<1>1. /\ run # "no" /\ run' = "no" /\ left' = 0 /\ reserve' = 0
      /\ pc' = [p \in Procs |-> IF pc[p] = "run_asked" THEN "idle" ELSE pc[p]]
      /\ UNCHANGED <<slots, hostVars, scriptVars, lock, arg, histVars>>
  BY DEF StopRun
<1>2. ~Reading /\ ~Loading  BY <1>0, <1>1, NoClearInRun
<1>3. \A q \in Procs :
        /\ pc'[q] \in Places /\ pc'[q] # "run_asked"
        /\ pc'[q] = pc[q] \/ (pc'[q] = "idle" /\ pc[q] = "run_asked")
  BY <1>0, <1>1, PlaceNames DEF TypeOK
<1>4. \A q \in Procs : /\ pc'[q] \in Writing => pc'[q] = pc[q]
                       /\ pc'[q] \in Clearing <=> pc[q] \in Clearing
                       /\ pc'[q] \in Writing <=> pc[q] \in Writing
  BY <1>3 DEF Writing, Clearing
<1>5. \A q \in Procs : pc[q] \notin Clearing
  BY <1>0, <1>1 DEF CallInv
<1>6. ~Reading' /\ ~Loading'
  BY <1>4, <1>5 DEF Reading, Loading, Clearing
<1>7. TypeOK'
  <2>1. 0 \in 0..(Word - 1)  BY Constants, SMT
  <2>2. pc' \in [Procs -> Places]  BY <1>1, <1>3
  <2> QED  BY <1>0, <1>1, <2>1, <2>2 DEF TypeOK, hostVars, scriptVars, histVars
<1>8. LockInv'  BY <1>0, <1>1, <1>4 DEF LockInv
<1>9. CallInv'
  <2>1. \A q \in Procs : pc'[q] \notin Clearing  BY <1>4, <1>5
  <2>2. arg' = arg /\ total' = total  BY <1>1 DEF hostVars
  <2>3. \A q \in Procs :
          /\ pc'[q] \in {"write_sync", "write_room"} =>
               arg'[q] \in 1..MaxWrite /\ total' + arg'[q] <= MaxTotal
          /\ pc'[q] = "write_publish" => arg'[q] <= total'
    BY <1>0, <1>3, <2>2 DEF CallInv
  <2> QED  BY <1>1, <2>1, <2>3 DEF CallInv, Clearing
<1>10. IndexInv'
  BY <1>1, <1>2 DEF IInv, IndexInv, Reg, hostVars, scriptVars, histVars
<1>11. ScriptInv'  BY <1>1 DEF ScriptInv
<1>12. RingInv'
  <2> SUFFICES ASSUME Cleared PROVE RingInv'
    BY <1>1 DEF RingInv, Cleared, histVars
  <2>1. at' >= 0 /\ total' - at' <= Size
    BY <1>1, <1>2 DEF IInv, RingInv, hostVars, histVars
  <2>2. ASSUME NEW q \in Procs, pc'[q] = "write_room"
        PROVE  /\ total' - at' <= Sub(fifo_in, fifo_out)'
               /\ Sub(fifo_in, fifo_out)' <= Size
    <3>1. pc[q] = "write_room"  BY <1>3, <2>2
    <3> QED  BY <1>1, <3>1 DEF IInv, RingInv, Sub, hostVars, histVars
  <2> QED  BY <1>1, <1>3, <2>1, <2>2 DEF RingInv
<1>13. SlotInv'
  BY <1>1 DEF IInv, SlotInv, Kept, Slot, Cleared, hostVars, histVars
<1> QED  BY <1>7, <1>8, <1>9, <1>10, <1>11, <1>12, <1>13 DEF IInv

-----------------------------------------------------------------------------
(* The script.                                                               *)

\* A byte is played forward: it was enqueued, and the tail is one nearer.
LEMMA PlaysOn ==
  ASSUME IInv, Consume, run = "forward"
  PROVE  /\ dir = 1 /\ at < total /\ at' = at + 1 /\ head' = Reg(at')
         /\ Sub(tail, head') <= total - at'
<1>1. Playing /\ head' = Add(head, dir) /\ at' = at + dir  BY DEF Consume
<1>2. /\ total \in Nat /\ at \in Int /\ tail \in Int /\ dir \in {-1, 0, 1}
      /\ head = Reg(at)
  BY Typed, SMT DEF IInv, IndexInv
<1>3. dir = 1  BY <1>1, <1>2 DEF Playing, IInv, ScriptInv
<1>4. at < total /\ Sub(tail, head) # 0 /\ Sub(tail, head) <= total - at
  BY <1>1, ShortOfTail DEF Playing, IInv, ScriptInv
<1>5. at' = at + 1 /\ head' = Reg(at + 1)  BY <1>1, <1>2, <1>3, RegArith
<1> DEFINE d == tail - at
<1>6. d \in Int /\ at + 1 \in Int  BY <1>2, SMT
<1>7. Sub(tail, Reg(at)) = Reg(d)  BY <1>2, RegArith
<1>8. Sub(tail, Reg(at + 1)) = Reg(d - 1)
  <2>1. Sub(tail, Reg(at + 1)) = Reg(tail - (at + 1))  BY <1>2, <1>6, RegArith
  <2>2. tail - (at + 1) = d - 1  BY <1>2, SMT
  <2> QED  BY <2>1, <2>2
<1> HIDE DEF d
<1>9. Reg(d - 1) = Reg(d) - 1  BY <1>2, <1>4, <1>6, <1>7, RegDown
<1>10. Reg(d) \in Int  BY <1>6, RegArith
<1>11. Sub(tail, head') = Reg(d) - 1 /\ Reg(d) <= total - at
  BY <1>2, <1>4, <1>5, <1>7, <1>8, <1>9
<1>12. Sub(tail, head') <= total - (at + 1)
  BY <1>2, <1>10, <1>11, SMT
<1> QED  BY <1>3, <1>4, <1>5, <1>12

\* A byte is played.
LEMMA StepConsume ==
  ASSUME IInv, Consume
  PROVE  IInv'
<1>0. TypeOK /\ LockInv /\ CallInv  BY DEF IInv
<1>1. /\ run # "no" /\ dir # 0 /\ ~OutOfData
      /\ head' = Add(head, dir) /\ at' = at + dir
      /\ furthest' = IF at' > furthest THEN at' ELSE furthest
      /\ left' = IF left > 0 THEN left - 1 ELSE 0
      /\ reserve' = IF left > 0 \/ reserve = 0 THEN reserve ELSE reserve - 1
      /\ UNCHANGED <<slots, hostVars, tail, dir, run, lock, pc, arg, refused,
                     harm>>
  BY DEF Consume, Playing
<1>2. run \in {"forward", "backward"}  BY <1>0, <1>1 DEF TypeOK
<1>3. ~Reading /\ ~Loading /\ \A q \in Procs : pc[q] \notin Clearing
  BY <1>0, <1>1, NoClearInRun DEF CallInv
<1>4. /\ total \in Nat /\ at \in Int /\ furthest \in Nat /\ left \in Nat
      /\ reserve \in Nat
      /\ total <= MaxTotal /\ dir \in {-1, 0, 1} /\ dir \in Int
      /\ fifo_in = Reg(total) /\ head = Reg(at)
      /\ at <= furthest /\ furthest <= total
  BY <1>0, <1>3, Typed DEF IInv, IndexInv
<1>5. at' \in Int /\ head' = Reg(at') /\ head' \in 0..(Word - 1)
  <2>1. Add(Reg(at), dir) = Reg(at + dir) /\ at + dir \in Int
    BY <1>4, RegArith, SMT
  <2>2. Reg(at + dir) \in 0..(Word - 1)  BY <2>1, RegArith
  <2> QED  BY <1>1, <1>4, <2>1, <2>2
<1>6. /\ at' <= total /\ at' <= at + 1
      /\ run = "backward" => dir = -1 /\ at' = at - 1
  <2>1. CASE run = "forward"
    <3>1. at < total /\ at' = at + 1  BY <2>1, PlaysOn
    <3> QED  BY <1>4, <2>1, <3>1, SMT
  <2>2. CASE run = "backward"
    <3>1. dir = -1  BY <1>1, <1>4, <2>2 DEF IInv, ScriptInv
    <3> QED  BY <1>1, <1>4, <3>1, SMT
  <2> QED  BY <1>2, <2>1, <2>2
<1>7. /\ furthest' \in Nat /\ furthest <= furthest' /\ furthest' <= total
      /\ at' <= furthest'
  BY <1>1, <1>4, <1>5, <1>6, SMT
<1>8. TypeOK'
  <2>1. furthest' \in 0..MaxTotal  BY <1>4, <1>7, Constants, SMT
  <2>2. left' \in 0..(Word - 1) /\ reserve' \in 0..(Word - 1)
    <3>1. left \in 0..(Word - 1) /\ reserve \in 0..(Word - 1)
      BY <1>0 DEF TypeOK
    <3> QED  BY <1>1, <3>1, Constants, SMT
  <2> QED  BY <1>0, <1>1, <1>5, <2>1, <2>2 DEF TypeOK, hostVars
<1>9. LockInv'  BY <1>0, <1>1 DEF LockInv
<1>10. CallInv'
  BY <1>0, <1>1, <1>3 DEF CallInv, Clearing, hostVars
<1>11. ~Reading' /\ ~Loading'
  BY <1>1, <1>3 DEF Reading, Loading
<1>12. IndexInv'
  BY <1>1, <1>4, <1>5, <1>7 DEF IndexInv, Reg, hostVars
<1>13. ScriptInv'
  <2>1. CASE run = "forward"
    <3>1. dir = 1 /\ Sub(tail, head') <= total - at'  BY <2>1, PlaysOn
    <3> QED  BY <1>1, <2>1, <3>1, SMT DEF ScriptInv, Sub, hostVars
  <2>2. CASE run = "backward"
    BY <1>1, <1>6, <2>2, SMT DEF ScriptInv
  <2> QED  BY <1>2, <2>1, <2>2
<1>14. RingInv'
  <2> SUFFICES ASSUME Cleared PROVE RingInv'  BY <1>1 DEF RingInv, Cleared
  <2>1. at >= 0 /\ total - at <= Size  BY <1>3 DEF IInv, RingInv
  <2>2. CASE run = "forward"
    <3>1. at' = at + 1  BY <2>2, PlaysOn
    <3>2. at' >= 0 /\ total - at' <= Size /\ total - at' <= total - at
      BY <1>4, <2>1, <3>1, Constants, SMT
    <3>3. ASSUME NEW q \in Procs, pc[q] = "write_room"
          PROVE  /\ total - at' <= Sub(fifo_in, fifo_out)
                 /\ Sub(fifo_in, fifo_out) <= Size
      <4>1. /\ total - at <= Sub(fifo_in, fifo_out)
            /\ Sub(fifo_in, fifo_out) <= Size
        BY <3>3 DEF IInv, RingInv
      <4>2. Sub(fifo_in, fifo_out) \in Int
        <5>1. fifo_in \in Int /\ fifo_out \in Int  BY <1>0, Typed, SMT
        <5>2. fifo_in - fifo_out \in Int  BY <5>1, SMT
        <5> QED  BY <5>1, <5>2, RegArith
      <4>3. total - at \in Int /\ total - at' \in Int  BY <1>4, <1>5, SMT
      <4>4. total - at' <= total - at  BY <3>2
      <4> QED  BY <4>1, <4>2, <4>3, <4>4, SMT
    <3> QED  BY <1>1, <2>2, <3>2, <3>3 DEF RingInv, Sub, hostVars
  <2>3. CASE run = "backward"
    <3>1. /\ at - Dead \in 0..(Size - 1) /\ at # Dead
      BY <1>1, <2>3, ShortOfDead
    <3>2. /\ Dead \in Nat /\ total - Dead <= Size
      BY <1>0, DeadIs
    <3>3. tail = Reg(Dead) /\ at < total /\ left + reserve <= at - Dead
      BY <2>3 DEF IInv, RingInv
    <3>4. at' = at - 1 /\ dir = -1  BY <1>6, <2>3
    <3>5. /\ at' >= 0 /\ total - at' <= Size /\ at' < total
          /\ left' + reserve' <= at' - Dead
      BY <1>1, <1>4, <3>1, <3>2, <3>3, <3>4, Constants, SMT
    <3>6. \A q \in Procs : pc[q] # "write_room"
      BY <1>0, <2>3 DEF CallInv, Writing
    <3>7. Dead' = Dead  BY <1>1 DEF Dead, hostVars
    <3> QED  BY <1>1, <2>3, <3>3, <3>4, <3>5, <3>6, <3>7 DEF RingInv, Reg, hostVars
  <2> QED  BY <1>2, <2>2, <2>3
<1>15. SlotInv'
  <2> SUFFICES ASSUME Cleared, NEW k \in Nat, Kept(k)'
               PROVE  slots'[Slot(k)] = k
    BY <1>1 DEF SlotInv, Slot, Cleared
  <2>1. Kept(k)
    <3>1. /\ k < total
          /\ k >= furthest' - Gap \/ (harm = {} /\ k >= total - Size)
      BY <1>1 DEF Kept, hostVars
    <3>2. k >= furthest' - Gap => k >= furthest - Gap
      <4> DEFINE f == furthest  g == furthest'
      <4>1. Gap \in Int /\ k \in Int  BY Constants, SMT
      <4>2. f \in Int /\ g \in Int /\ f <= g  BY <1>4, <1>7, SMT
      <4> HIDE DEF f, g
      <4>3. f - Gap <= g - Gap /\ f - Gap \in Int /\ g - Gap \in Int
        BY <4>1, <4>2, SMT
      <4>4. k >= g - Gap => k >= f - Gap  BY <4>1, <4>3, SMT
      <4> QED  BY <4>4 DEF f, g
    <3> QED  BY <3>1, <3>2 DEF Kept
  <2> QED  BY <1>1, <2>1 DEF IInv, SlotInv
<1> QED  BY <1>8, <1>9, <1>10, <1>12, <1>13, <1>14, <1>15 DEF IInv

\* The script finds its tail.
LEMMA StepPark ==
  ASSUME IInv, Park
  PROVE  IInv'
<1>0. TypeOK /\ LockInv /\ CallInv  BY DEF IInv
<1>1. /\ run # "no" /\ OutOfData /\ dir' = 0 /\ left' = 0
      /\ UNCHANGED <<slots, hostVars, head, tail, run, reserve, lock, pc, arg,
                     histVars>>
  BY DEF Park
<1>2. TypeOK'
  <2>1. 0 \in 0..(Word - 1)  BY Constants, SMT
  <2> QED  BY <1>0, <1>1, <2>1 DEF TypeOK, hostVars, histVars
<1>3. LockInv'  BY <1>0, <1>1 DEF LockInv
<1>4. CallInv'  BY <1>0, <1>1 DEF CallInv, hostVars, histVars
<1>5. (Reading' <=> Reading) /\ (Loading' <=> Loading)
  BY <1>1 DEF Reading, Loading
<1>6. IndexInv'
  BY <1>1, <1>5 DEF IInv, IndexInv, Reg, hostVars, histVars
<1>7. ScriptInv'
  BY <1>1 DEF IInv, ScriptInv, Sub, hostVars, histVars
<1>8. RingInv'
  <2> SUFFICES ASSUME Cleared PROVE RingInv'
    BY <1>1 DEF RingInv, Cleared, histVars
  <2>1. run = "backward" =>
          left' + reserve' = 0 /\ left' + reserve' <= at - Dead
    <3> SUFFICES ASSUME run = "backward"
                 PROVE  left' + reserve' = 0 /\ left' + reserve' <= at - Dead
      OBVIOUS
    <3>1. at = Dead /\ left + reserve <= at - Dead
      BY <1>1, ShortOfDead DEF IInv, RingInv
    <3>2. left \in Nat /\ reserve \in Nat /\ at \in Int  BY <1>0, Typed
    <3> QED  BY <1>1, <3>1, <3>2, SMT
  <2> QED
    BY <1>1, <1>5, <2>1
    DEF IInv, RingInv, Reg, Sub, Dead, hostVars, histVars
<1>9. SlotInv'
  BY <1>1 DEF IInv, SlotInv, Kept, Slot, Cleared, hostVars, histVars
<1> QED  BY <1>2, <1>3, <1>4, <1>6, <1>7, <1>8, <1>9 DEF IInv

-----------------------------------------------------------------------------
(* The ring's guarantees.                                                    *)

\* Every step keeps the invariant.
LEMMA RingNext ==
  ASSUME ~Preempt
  PROVE  IInv /\ [Next]_vars => IInv'
<1> SUFFICES ASSUME IInv, [Next]_vars PROVE IInv'  OBVIOUS
<1>1. CASE UNCHANGED vars
  <2> USE <1>1 DEF vars, hostVars, scriptVars, histVars
  <2>1. TypeOK'  BY DEF IInv, TypeOK
  <2>2. LockInv'  BY DEF IInv, LockInv
  <2>3. CallInv'  BY DEF IInv, CallInv
  <2>4. (Reading' <=> Reading) /\ (Loading' <=> Loading)
    BY DEF Reading, Loading
  <2>5. IndexInv'  BY <2>4 DEF IInv, IndexInv, Reg
  <2>6. ScriptInv'  BY DEF IInv, ScriptInv, Sub
  <2>7. RingInv'  BY <2>4 DEF IInv, RingInv, Cleared, Dead, Span, Reg, Sub
  <2>8. SlotInv'  BY DEF IInv, SlotInv, Kept, Slot, Cleared
  <2> QED  BY <2>1, <2>2, <2>3, <2>5, <2>6, <2>7, <2>8 DEF IInv
<1>2. ASSUME NEW p \in Procs,
             \/ \E n \in 1..MaxWrite : WriteBegin(p, n)
             \/ WriteSync(p) \/ WriteRoom(p) \/ WritePublish(p)
             \/ ClearBegin(p) \/ ClearRead(p) \/ ClearLoad(p)
             \/ FreeFetch(p) \/ FreeStore(p)
             \/ RunAsk(p) \/ RunForward(p) \/ RunRefused(p)
             \/ \E n \in 1..Size, t \in Tails : RunBackward(p, n, t)
      PROVE  IInv'
  BY <1>2, StepWriteBegin, StepWriteSync, StepWriteRoom, StepWritePublish,
     StepClearBegin, StepClearRead, StepClearLoad, StepFreeFetch, StepFreeStore,
     StepRunAsk, StepRunForward, StepRunRefused, StepRunBackward
<1>3. CASE StopRun \/ Consume \/ Park
  BY <1>3, StepStopRun, StepConsume, StepPark
<1> QED  BY <1>1, <1>2, <1>3 DEF Next

LEMMA RingInvariance == ASSUME ~Preempt PROVE Spec => []IInv
<1>1. Init => IInv  BY RingInit
<1>2. IInv /\ [Next]_vars => IInv'  BY RingNext
<1> QED  BY <1>1, <1>2, PTL DEF Spec

\* cnc_buffer.c keeps kfifo.in, kfifo.out and the script's registers apart and
\* brings them together one transfer at a time: whenever the lock is free, the
\* bytes between the script's head and the write index are the ones enqueued and
\* not played, at most a ring of them, and a backward run meets its dead stop only
\* after the bytes it asked for and as many as were held back for its ramp.
THEOREM RingAccounted == ASSUME ~Preempt PROVE Spec => []Inv
<1>1. Spec => []IInv  BY RingInvariance
<1>2. IInv => Inv  BY InvFollows
<1> QED  BY <1>1, <1>2, PTL

\* What the script (asm/sdma.asm) loads is the byte that its head's number was
\* given when it was enqueued, however often the registers and the slots have
\* wrapped, forward and backward, with cnc_buffer_add_user_data() copying and
\* publishing beside it.
THEOREM GenuinePlays == ASSUME ~Preempt PROVE Spec => []PlaysGenuine
<1>1. Spec => []IInv  BY RingInvariance
<1>2. IInv => PlaysGenuine  BY GenuineFollows
<1> QED  BY <1>1, <1>2, PTL

\* The room test of cnc_buffer_add_user_data() never lets a copy reach a byte
\* that is yet to be played, also while the head it fetched grows old.
THEOREM UnplayedStays == ASSUME ~Preempt PROVE Spec => []UnplayedKept
<1>1. Spec => []IInv  BY RingInvariance
<1>2. IInv => UnplayedKept  BY KeptFollows
<1> QED  BY <1>1, <1>2, PTL

\* CNC_BUFFER_GAP_SIZE: that much of what was played is always there to go
\* back over, faulting copies included.
THEOREM GapHolds == ASSUME ~Preempt PROVE Spec => []HistoryFloor
<1>1. Spec => []IInv  BY RingInvariance
<1>2. IInv => HistoryFloor  BY FloorFollows
<1> QED  BY <1>1, <1>2, PTL
=============================================================================
