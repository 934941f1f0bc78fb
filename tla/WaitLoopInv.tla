----------------------------- MODULE WaitLoopInv -----------------------------
(***************************************************************************)
(* The inductive invariant of WaitLoop.  That the handlers keep step with  *)
(* the syscalls rests on turn and in_call being changed together; that a   *)
(* status left by a new task is never taken for the end of its creator, on *)
(* who can end a task that nobody has restarted yet.                       *)
(***************************************************************************)
EXTENDS WaitLoop

\* A thread that has not restarted its task.
Before == {"none", "attach", "first"}

\* q was created by p and has not been given a thread.
NewChild(p, q) == q # p /\ tracer[q] = p /\ pc[q] = "none"

\* stop says what a stopped task is stopped for, and nothing for the others.
StopTold ==
  \A p \in Pid : IF run[p] = "stopped" THEN stop[p].kind \in Stops ELSE stop[p] = NoStop

Unborn ==
  \A p \in Pid : run[p] = "unborn" => /\ pc[p] = "none"
                                      /\ tracer[p] = None
                                      /\ leader[p] = p

\* A task whose thread has not restarted it has made no syscall, and no
\* signal sent to it counts.
Untouched ==
  \A p \in Pid : pc[p] \in Before => ~in_call[p] /\ turn[p] = "call" /\ owed[p] = {}

\* Where a task can be before and after its thread attaches to it.
NotYetThere ==
  \A p \in Pid :
    /\ pc[p] = "none" =>
         /\ tracer[p] # p
         /\ run[p] \in {"unborn", "new", "stopped", "exited", "killed", "reaped"}
         /\ run[p] = "stopped" => stop[p].kind = "signal"
    /\ pc[p] = "attach" /\ Alive(p) => tracer[p] = None /\ run[p] \in {"running", "halted"}
    /\ pc[p] = "first" /\ Alive(p) =>
         /\ tracer[p] = p
         /\ run[p] \in {"running", "stopped"}
         /\ run[p] = "stopped" => stop[p].kind \in {"signal", "group"}

\* Where a task can be while its thread is in the loop.
InLoop ==
  \A p \in Pid : pc[p] \in Loop /\ Alive(p) =>
    /\ tracer[p] = p
    /\ pc[p] \in {"child", "tests"} => run[p] = "stopped" /\ stop[p].kind = "new"
    /\ pc[p] = "child" => stop[p].new = new_child[p]
    /\ pc[p] = "handler" => run[p] = "stopped" /\ stop[p].kind = "syscall"

\* turn tells the entry from the exit: at a stop of a syscall the kernel is
\* one step ahead of the thread, and nowhere else.
InStep ==
  \A p \in Pid : pc[p] \in Loop /\ Alive(p) =>
    (turn[p] = "call" <=> IF run[p] = "stopped" /\ stop[p].kind = "syscall"
                          THEN in_call[p] ELSE ~in_call[p])

\* The leader of a group was there before the others.
LeaderFirst == \A p \in Pid : leader[p] # p => pc[leader[p]] # "none"

\* A new task is in its creator's group or in one of its own.
Creators ==
  \A p, q \in Pid : q # p /\ tracer[q] = p =>
    /\ pc[p] # "none"
    /\ pc[q] = "none" => leader[q] \in {q, leader[p]}

\* A creator does not go on before its new task has a thread, and it has one
\* new task at a time.
CreatorStopped ==
  \A p, q \in Pid : NewChild(p, q) /\ Alive(p) =>
    /\ run[p] = "stopped" /\ stop[p].kind = "new" /\ stop[p].new = q
    /\ pc[p] \in {"wait", "child"}

\* The new task a thread is about to wait for.
ChildThere ==
  \A p \in Pid :
    /\ pc[p] = "child" => new_child[p] \in Pid /\ NewChild(p, new_child[p])
    /\ pc[p] = "wait" /\ stop[p].kind = "new" =>
         stop[p].new \in Pid /\ NewChild(p, stop[p].new)

\* A new task that has exited was taken by its group, and its creator too.
ExitedTogether == \A p, q \in Pid : NewChild(p, q) /\ run[q] = "exited" => Gone(p)

\* The status tested apart from the step that waited for it.
StatusTold ==
  \A p \in Pid : pc[p] = "tests" /\ Alive(p) =>
    status[p].kind \notin {"syscall", "exited", "garbage"}

\* A task that runs, untraced or just attached to, was woken.
Woken == \A p \in Pid : pc[p] \in {"attach", "first"} /\ Running(p) => woken[p]

\* A task that is gone is owed nothing.
NothingOwed == \A p \in Pid : Gone(p) => owed[p] = {}

-----------------------------------------------------------------------------
Places == StopTold /\ Unborn /\ Untouched /\ NotYetThere /\ InLoop

Family == LeaderFirst /\ Creators /\ CreatorStopped /\ ChildThere /\ ExitedTogether

Tested == InStep /\ StatusTold /\ LeftOnlyIfGone

Told == Woken /\ UnseenOnlyIfWoken /\ NothingOwed /\ SignalsPassed

\* Everything the proofs need, and inductive.
IInv == TypeOK /\ Places /\ Family /\ Tested /\ Told

=============================================================================
