----------------------------- MODULE MCWaitLoop -----------------------------
(* WaitLoop with what TLC needs. *)
EXTENDS WaitLoopInv
=============================================================================
