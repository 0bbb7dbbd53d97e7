------------------------------ MODULE HeadBoard ------------------------------
(***************************************************************************)
(* What src/head.c and src/head_api.c energise on the head board - the     *)
(* lens motor, the measure laser and the UV LED - the stores that do, and  *)
(* head_make_safe(), three I2C writes, each of which may fail.  The mutex  *)
(* makes one I2C transfer a step.                                          *)
(***************************************************************************)
EXTENDS Naturals, MakeSafe

VARIABLES
  energized,     \* outputs that are on
  head_at,       \* per caller: the write it comes to next, "idle" or "done"
  head_excused   \* history, per caller: outputs whose own write failed while they
                 \* were on, or that a store has turned on since

headVars == <<energized, head_at, head_excused>>

Outputs == {"motor", "laser", "uv"}

HeadTypeOK ==
  /\ energized \subseteq Outputs
  /\ head_at \in [Callers -> {"idle", "motor", "laser", "uv", "done"}]
  /\ head_excused \in [Callers -> SUBSET Outputs]

HeadInit ==
  /\ energized = {}
  /\ head_at = [c \in Callers |-> "idle"]
  /\ head_excused = [c \in Callers |-> {}]

\* head_write_bit_ascii() and head_write_dword_ascii(), when the write succeeds.
HeadStore(o) ==
  /\ \/ /\ energized' = energized \cup {o}
        /\ head_excused' = [c \in Callers |-> head_excused[c] \cup {o}]
     \/ energized' = energized \ {o} /\ UNCHANGED head_excused
  /\ UNCHANGED head_at

\* head_make_safe(): every write is tried, whatever became of the one before.
SafeStart(c) ==
  /\ head_at[c] \in {"idle", "done"}
  /\ head_at' = [head_at EXCEPT ![c] = "motor"]
  /\ head_excused' = [head_excused EXCEPT ![c] = {}]
  /\ UNCHANGED energized

Following == [motor |-> "laser", laser |-> "uv", uv |-> "done"]

SafeWrite(c, o) ==
  /\ head_at[c] = o
  /\ \/ energized' = energized \ {o} /\ UNCHANGED head_excused
     \/ /\ head_excused' = [head_excused EXCEPT ![c] = @ \cup (energized \cap {o})]
        /\ UNCHANGED energized
  /\ head_at' = [head_at EXCEPT ![c] = Following[o]]

HeadNext ==
  \/ \E o \in Outputs : HeadStore(o)
  \/ \E c \in Callers : SafeStart(c) \/ \E o \in Outputs : SafeWrite(c, o)

HeadSpec == HeadInit /\ [][HeadNext]_headVars

-----------------------------------------------------------------------------
(* Properties.                                                             *)

\* After the head has been made safe an output is on only if its own write failed
\* or a store has turned it on since: one failing transfer keeps no other output
\* energised (head_make_safe()).
HeadStaysOff ==
  \A c \in Callers : head_at[c] = "done" => energized \subseteq head_excused[c]
=============================================================================
