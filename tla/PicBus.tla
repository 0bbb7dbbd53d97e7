------------------------------- MODULE PicBus --------------------------------
(***************************************************************************)
(* The PIC behind its SPI bus: the exchange of src/pic.c with its mutex    *)
(* and its one pair of buffers, the stores of src/pic_api.c, the work      *)
(* queue of LED brightness writes of src/pic_leds.c, and pic_make_safe().  *)
(*                                                                         *)
(* An exchange is three steps: its caller takes the lock and fills the     *)
(* transmit buffer; the bus transfers; the caller compares what the        *)
(* receive buffer holds and releases.  Buffers are slots with one command  *)
(* each.  External: the PIC, which may miss a write, and the bus, which    *)
(* may fail.  The reads are left out: they leave nothing but what a read   *)
(* of the last transfer's data shows.                                      *)
(***************************************************************************)
EXTENDS Integers, Sequences, MakeSafe

CONSTANT Values     \* values written to the output registers

ASSUME PicAssumption == Values \subseteq Nat /\ {"task", "worker", "free"} \cap Callers = {}

VARIABLES
  outputs,      \* the output registers
  lock,         \* the mutex
  txbuf, rxbuf, \* the buffers: commands to send, values received
  asked,        \* per user: the exchange it is inside
  stage,        \* per user: how far that has come
  verdict,      \* what the last exchange returned: "ok" or an error
  led_wq,       \* brightness values in the queue
  led_asked,    \* history: the brightness last asked for
  led_excused,  \* history: it was dropped for want of memory, a write of it was missed,
                \* or another user wrote the register
  pic_done,     \* per caller: it has made the PIC safe
  pic_excused   \* history, per caller: registers written since, or that a transfer
                \* known to have failed left on

busVars == <<lock, txbuf, rxbuf, asked, stage>>
ledVars == <<led_wq, led_asked, led_excused>>
picVars == <<outputs, verdict, pic_done, pic_excused, busVars, ledVars>>

Registers == {"dac", "led"}
Users == Callers \cup {"task", "worker"}
Free == "free"
Keep == -1     \* a register that an exchange does not write
Nothing == [dac |-> Keep, led |-> Keep, verify |-> TRUE]

\* Zero every output register; the initial values, written raw; one register; raw.
Zeros == [dac |-> 0, led |-> 0, verify |-> TRUE]
Exchanges ==
  [dac : Values \cup {Keep}, led : Values \cup {Keep}, verify : BOOLEAN]

Slots == 1..4  \* a write of each register and a read of each
Blank == [reg |-> "dac", value |-> Keep]

PicTypeOK ==
  /\ outputs \in [Registers -> Values \cup {0}]
  /\ lock \in Users \cup {Free}
  /\ txbuf \in [Slots -> [reg : Registers, value : Int]]
  /\ rxbuf \in [Slots -> Int]
  /\ asked \in [Users -> [dac : Int, led : Int, verify : BOOLEAN]]
  /\ stage \in [Users -> {"idle", "filled", "sent", "failed"}]
  /\ verdict \in {"ok", "error"}
  /\ led_wq \in Seq(Values \cup {0}) /\ led_asked \in Values \cup {0}
  /\ led_excused \in BOOLEAN
  /\ pic_done \in [Callers -> BOOLEAN]
  /\ pic_excused \in [Callers -> SUBSET Registers]

PicInit ==
  /\ outputs = [r \in Registers |-> 0]
  /\ lock = Free /\ verdict = "ok"
  /\ txbuf = [s \in Slots |-> Blank] /\ rxbuf = [s \in Slots |-> 0]
  /\ asked = [u \in Users |-> Nothing] /\ stage = [u \in Users |-> "idle"]
  /\ led_wq = <<>> /\ led_asked = 0 /\ led_excused = FALSE
  /\ pic_done = [c \in Callers |-> FALSE]
  /\ pic_excused = [c \in Callers |-> {}]

-----------------------------------------------------------------------------
(* pic_write_one_register(), pic_write_register_range(), pic_write_data().  *)

\* The registers an exchange writes, in order, ...
Writes(x) == {r \in Registers : x[r] # Keep}
Count(x) == (IF x.dac # Keep THEN 1 ELSE 0) + (IF x.led # Keep THEN 1 ELSE 0)
Nth(x, i) == IF i = 1 /\ x.dac # Keep THEN "dac" ELSE "led"

\* ... and its commands: the writes, and to verify them a read of each.
Length(x) == IF x.verify THEN 2 * Count(x) ELSE Count(x)
Command(x, s) ==
  IF s <= Count(x) THEN [reg |-> Nth(x, s), value |-> x[Nth(x, s)]]
                   ELSE [reg |-> Nth(x, s - Count(x)), value |-> Keep]

Mut_Fill(u, x) ==
  /\ asked[u] = Nothing
  /\ lock' = u
  /\ txbuf' = [s \in Slots |-> IF s <= Length(x) THEN Command(x, s) ELSE txbuf[s]]
  /\ asked' = [asked EXCEPT ![u] = x] /\ stage' = [stage EXCEPT ![u] = "filled"]
  /\ UNCHANGED rxbuf
Fill(u, x) ==
  /\ asked[u] = Nothing /\ lock = Free
  /\ lock' = u
  /\ txbuf' = [s \in Slots |-> IF s <= Length(x) THEN Command(x, s) ELSE txbuf[s]]
  /\ asked' = [asked EXCEPT ![u] = x] /\ stage' = [stage EXCEPT ![u] = "filled"]
  /\ UNCHANGED rxbuf

\* What the first n slots may make of the outputs: the PIC may miss a write, and a
\* transfer that fails may have come any distance.
Landing(n) ==
  {o \in [Registers -> Values \cup {0}] :
     \A r \in Registers :
       o[r] # outputs[r] => \E s \in 1..n : txbuf[s] = [reg |-> r, value |-> o[r]]}

\* A register that somebody writes no longer owes its zero to whoever made the PIC
\* safe, nor its brightness to the last that was asked for.
Disturb(u) ==
  /\ pic_excused' = [c \in Callers |->
                       pic_excused[c] \cup {r \in Writes(asked[u]) : asked[u][r] # 0}]
  /\ led_excused' = (led_excused \/ /\ asked[u].led # Keep
                                    /\ u = "worker" => outputs'["led"] # asked[u].led)

\* The bus sends the user's number of slots and fills as many.
Transfer(u) ==
  /\ stage[u] = "filled"
  /\ outputs' \in Landing(Length(asked[u]))
  /\ \/ /\ stage' = [stage EXCEPT ![u] = "sent"]
        /\ rxbuf' = [s \in Slots |->
                       IF s <= Length(asked[u]) /\ txbuf[s].value = Keep
                       THEN outputs'[txbuf[s].reg] ELSE rxbuf[s]]
     \/ stage' = [stage EXCEPT ![u] = "failed"] /\ UNCHANGED rxbuf
  /\ Disturb(u)
  /\ UNCHANGED <<lock, txbuf, asked, verdict, led_wq, led_asked, pic_done>>

\* The values read back are compared.
ReadBack(x) ==
  \A i \in 1..Count(x) : rxbuf[Count(x) + i] = x[Nth(x, i)]

Verdict(u) ==
  IF stage[u] = "sent" /\ (asked[u].verify => ReadBack(asked[u])) THEN "ok" ELSE "error"

\* The comparison, and the lock is released.  What the buffers keep is nobody's.
Mut_Finish(u) ==
  /\ stage[u] \in {"sent", "failed"}
  /\ verdict' = Verdict(u)
  /\ lock' = (IF verdict' = "ok" THEN Free ELSE lock)
  /\ asked' = [asked EXCEPT ![u] = Nothing] /\ stage' = [stage EXCEPT ![u] = "idle"]
  /\ txbuf' = [s \in Slots |-> Blank] /\ rxbuf' = [s \in Slots |-> 0]
Finish(u) ==
  /\ stage[u] \in {"sent", "failed"}
  /\ verdict' = Verdict(u)
  /\ lock' = Free
  /\ asked' = [asked EXCEPT ![u] = Nothing] /\ stage' = [stage EXCEPT ![u] = "idle"]
  /\ txbuf' = [s \in Slots |-> Blank] /\ rxbuf' = [s \in Slots |-> 0]

\* The stores: one register, a group of registers, or a raw sequence.
StoreBegin(x) ==
  /\ x \in Exchanges /\ x # Nothing
  /\ Fill("task", x)
  /\ UNCHANGED <<outputs, verdict, ledVars, pic_done, pic_excused>>

StoreEnd ==
  /\ Finish("task")
  /\ UNCHANGED <<outputs, ledVars, pic_done, pic_excused>>

\* pic_led_set(): brightness writes are queued for the worker, if there is memory, ...
LedSet(v) ==
  /\ led_asked' = v
  /\ \/ led_wq' = Append(led_wq, v) /\ led_excused' = FALSE
     \/ led_wq' = led_wq /\ led_excused' = TRUE
  /\ UNCHANGED <<outputs, busVars, verdict, pic_done, pic_excused>>

\* ... which takes them one at a time, in order, and ignores the result.
Mut_WorkBegin ==
  /\ led_wq # <<>>
  /\ Fill("worker", [Nothing EXCEPT !.led = led_wq[Len(led_wq)]])
  /\ led_wq' = SubSeq(led_wq, 1, Len(led_wq) - 1)
  /\ UNCHANGED <<outputs, verdict, led_asked, led_excused, pic_done, pic_excused>>
WorkBegin ==
  /\ led_wq # <<>>
  /\ Fill("worker", [Nothing EXCEPT !.led = Head(led_wq)])
  /\ led_wq' = Tail(led_wq)
  /\ UNCHANGED <<outputs, verdict, led_asked, led_excused, pic_done, pic_excused>>

WorkEnd ==
  /\ Finish("worker")
  /\ UNCHANGED <<outputs, ledVars, pic_done, pic_excused>>

\* pic_probe() writes the initial currents, raw and without a look at the result.
InitialValues(v) == [dac |-> v, led |-> Keep, verify |-> FALSE]

ValuesBegin(c, v) ==
  /\ Fill(c, InitialValues(v))
  /\ UNCHANGED <<outputs, verdict, ledVars, pic_done, pic_excused>>

ValuesEnd(c) ==
  /\ asked[c].verify = FALSE
  /\ Finish(c)
  /\ UNCHANGED <<outputs, ledVars, pic_done, pic_excused>>

LedIdle == led_wq = <<>> /\ asked["worker"] = Nothing

\* pic_make_safe(), for caller c.
MakeSafeBegin(c) ==
  /\ Fill(c, Zeros)
  /\ pic_done' = [pic_done EXCEPT ![c] = FALSE]
  /\ UNCHANGED <<outputs, verdict, ledVars, pic_excused>>

MakeSafeEnd(c) ==
  /\ asked[c] = Zeros
  /\ Finish(c)
  /\ pic_done' = [pic_done EXCEPT ![c] = TRUE]
  /\ pic_excused' = [pic_excused EXCEPT ![c] =
                        IF verdict' = "ok" THEN {} ELSE {r \in Registers : outputs[r] # 0}]
  /\ UNCHANGED <<outputs, ledVars>>

PicNext ==
  \/ \E x \in Exchanges : StoreBegin(x)
  \/ StoreEnd \/ WorkBegin \/ WorkEnd
  \/ \E u \in Users : Transfer(u)
  \/ \E v \in Values \cup {0} : LedSet(v)
  \/ \E c \in Callers : \/ MakeSafeBegin(c) \/ MakeSafeEnd(c) \/ ValuesEnd(c)
                         \/ \E v \in Values : ValuesBegin(c, v)

PicSpec == PicInit /\ [][PicNext]_picVars

-----------------------------------------------------------------------------
(* Properties.                                                             *)

\* A verified write that returns success has reached its registers when it returns:
\* the buffers are one pair for all users, and neither they nor the registers were
\* another's meanwhile, whatever the PIC misses (pic_write_register_range()).
WriteTruth ==
  [][\A u \in Users :
       asked[u] # Nothing /\ asked'[u] = Nothing /\ verdict' = "ok" /\ asked[u].verify
         => \A r \in Writes(asked[u]) : outputs'[r] = asked[u][r]]_picVars

\* The PIC's outputs stay at zero once made safe, but for registers written since
\* (which LED writes queued before are: pic_leds.c) and a transfer that failed.
PicStaysZero ==
  \A c \in Callers : pic_done[c] =>
    \A r \in Registers \ pic_excused[c] : outputs[r] = 0

\* With no brightness write on its way the LED shows the last one asked for: a
\* burst of writes lands in the order it was made (comment in pic_register_leds()).
\* Excused is a request that pic_led_set() dropped, for which the code has no answer.
LedShowsLast == LedIdle /\ ~led_excused => outputs["led"] = led_asked
=============================================================================
