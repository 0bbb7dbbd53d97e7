------------------------------ MODULE Backtrack ------------------------------
(***************************************************************************)
(* The bounds of a backward run over the pulse ring, src/cnc_backtrack.h:  *)
(* pure arithmetic on 32-bit registers, and what it promises.              *)
(***************************************************************************)
EXTENDS Integers

CONSTANT Word   \* the registers wrap at Word (2^32)

ASSUME WordAssumption == Word \in Nat \ {0}

\* cnc_backtrack_decel_steps(): the v^2/2a tail of a controlled stop.
DecelTail(freq, rate) ==
  LET khz == (freq + 999) \div 1000
      per == IF rate \div 1000 = 0 THEN 1 ELSE rate \div 1000
  IN  ((freq * khz) % Word) \div (2 * per)

\* cnc_backtrack_max_steps(): what is played, genuine and still resident, less
\* the tail.  unplayed is a 32-bit difference of indices, total is 64 bits wide.
Genuine(size, unplayed, total) ==
  LET played == IF total > unplayed THEN total - unplayed ELSE 0
      resident == (size - unplayed) % Word
  IN  IF played < resident THEN played ELSE resident

MaxSteps(size, unplayed, total, decel) ==
  LET genuine == Genuine(size, unplayed, total)
  IN  IF genuine > decel THEN genuine - decel ELSE 0

\* cnc_backtrack_span(): how far behind the write index the data is genuine.
Span(size, total) == IF total < size THEN total ELSE size
=============================================================================
