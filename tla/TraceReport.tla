---------------------------- MODULE TraceReport ----------------------------
(***************************************************************************)
(* What iotrace promises its user: every syscall of the traced program     *)
(* that was handled is in the report, once, and the report is written once,*)
(* when nothing more will be handled.  No thread, lock or counter of the   *)
(* implementation appears here; module Tracers implements it.              *)
(***************************************************************************)
EXTENDS Naturals

CONSTANTS Pid,    \* the tracees
          None    \* no report yet

VARIABLES handled,   \* [Pid -> Tally]: the syscalls handled so far
          published  \* None, or the tallies the report shows

vars == <<handled, published>>

\* A syscall is tallied under the file it concerns, or as "unconsidered".
Tally == [file : Nat, sys : Nat]

ZeroTally == [file |-> 0, sys |-> 0]

Init == /\ handled = [p \in Pid |-> ZeroTally]
        /\ published = None

Record(p) == /\ published = None
             /\ \/ handled' = [handled EXCEPT ![p].file = @ + 1]
                \/ handled' = [handled EXCEPT ![p].sys = @ + 1]
             /\ UNCHANGED published

Publish == /\ published = None
           /\ published' = handled
           /\ UNCHANGED handled

Next == Publish \/ \E p \in Pid : Record(p)

Spec == Init /\ [][Next]_vars

=============================================================================
