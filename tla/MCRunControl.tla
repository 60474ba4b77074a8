---------------------------- MODULE MCRunControl -----------------------------
(* Runs of two tasks: run1 and run2 are runs of the same one, run3 of another.         *)
EXTENDS RunControl, TLC

CONSTANTS run1, run2, run3, first, second

Tasks == [r \in Runs |-> IF r = run3 THEN second ELSE first]
Interchangeable == Permutations(Controllers) \cup Permutations(Launchers) \cup Permutations(Commands)
=============================================================================
