------------------------------ MODULE MCTransfer ------------------------------
(* A folder with a file and a sub-folder holding another file, then a file   *)
(* beside it: every position a skipped item can have towards a deleted one.  *)
EXTENDS Transfer

CONSTANTS late1

MCDirs == {1, 3}
MCAbove == <<{}, {1}, {1}, {1, 3}, {}>>
MCBlocks == [f \in {2, 4, 5} |-> CASE f = 2 -> 1 [] f = 4 -> 0 [] f = 5 -> 2]
MCLateIn == [l \in {late1} |-> 3]

===============================================================================
