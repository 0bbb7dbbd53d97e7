------------------------------ MODULE MCDevice -------------------------------
(* The pulse driver alone, one task at the attributes, two that open the file. *)
EXTENDS Device, TLC

\* Two tasks with the file open are alike.
FileSymmetry == Permutations(Files)

\* Once a file left over from an unbind gets at later data, the memory is anyone's
\* and the properties claim nothing: what follows is not explored.
Defined == ~meddled
=============================================================================
