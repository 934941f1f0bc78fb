----------------------------- MODULE MCTracers -----------------------------
(***************************************************************************)
(* Small instances of Tracers for TLC.                                     *)
(***************************************************************************)
EXTENDS TracersInv, TLC

\* The tasks other than the first are interchangeable.
OtherTasks == Permutations(Pid \ {Root})

=============================================================================
