---------------------------- MODULE MCFileStats ----------------------------
(* FileStats with what TLC needs. *)
EXTENDS FileStats, TLC

Threads == Permutations(Thread)

\* Two rows, a gap, and a last row that is lost.
Table == <<[nr |-> 0, name |-> "brk"], [nr |-> 2, name |-> "poll"], [nr |-> 3, name |-> "last"]>>

\* An error, end of file, and two sizes.
Results == {-1, 0, 1, 3}

\* The hypotheses of the theorems hold of the run.
ASSUME Hypotheses == BelowInitials /\ BelowLast
=============================================================================
