-------------------------------- MODULE MCCnc --------------------------------
(* Small instances of the driver: two callers that share the work, with the *)
(* runs and the power in one hand or in two.                                *)
EXTENDS Cnc, TLC

CONSTANTS p1, p2

\* One task runs and powers the machine, another feeds it, stops and halts it and
\* works the latch.
RunnerCommands ==
  (p1 :> {"run", "disable", "enable", "stop", "z_step", "write", "clear",
          "ignored_faults"}) @@
  (p2 :> {"halt", "stop", "latch", "write", "clear"})

\* One task feeds and runs, another works the power, the latch and the halt.
SplitCommands ==
  (p1 :> {"run", "stop", "write", "latch", "streaming"}) @@
  (p2 :> {"halt", "disable", "enable"})
=============================================================================
