------------------------------ MODULE WaitLoop ------------------------------
(***************************************************************************)
(* wait_for_syscall and start_tracer (main.c) against ptrace: the stops of *)
(* the traced tasks, the statuses the tracer threads wait for and what     *)
(* they make of them.  Tracers has the events that come out of this loop;  *)
(* what the handlers do between the stops is in Descriptors.               *)
(*                                                                         *)
(* A task is stopped by the kernel when it enters or leaves a syscall,     *)
(* when it has created a task or executed a program, before a signal       *)
(* is delivered, and when its thread group is stopped by SIGSTOP.  A new   *)
(* task is traced by the thread of its creator, which detaches it with     *)
(* SIGSTOP, so that it waits until a thread of its own attaches to it.     *)
(***************************************************************************)
EXTENDS Naturals, FiniteSets

CONSTANTS Pid,          \* the tasks that may be traced
          Root,         \* the first of them, forked by main
          None,
          Signals,      \* the ordinary signals
          Signalled,    \* the tasks they are sent to
          Killable,     \* the tasks a signal may kill, with their group
          Continuable   \* the tasks SIGCONT may reach while nobody traces them

ASSUME WaitLoopAssumption ==
  /\ Root \in Pid
  /\ None \notin Pid \cup Signals \cup {"SIGSTOP"}
  /\ "SIGSTOP" \notin Signals
  /\ Signalled \subseteq Pid /\ Killable \subseteq Pid /\ Continuable \subseteq Pid

VARIABLES
  run,       \* the kernel: state of each task
  in_call,   \* whether the task is between the entry and the exit of a syscall
  stop,      \* what it is stopped for
  pending,   \* its pending signals
  trap,      \* whether a stop of its group is still to reach it
  leader,    \* the leader of its group
  tracer,    \* the task whose thread traces it
  pc,        \* where the thread of each task is
  turn,      \* which of the two calls of wait_for_syscall it is in
  status,    \* its local status
  new_child, \* its local new_child
  owed,      \* signals sent while it was in the loop and not delivered yet
  unseen,    \* whether the task, before it was traced, made a syscall
  woken      \* whether SIGCONT woke it in that time

kernel == <<run, in_call, stop, pending, trap, leader, tracer>>
thread == <<pc, turn, status, new_child>>
ghost == <<owed, unseen, woken>>
vars == <<kernel, thread, ghost>>

-----------------------------------------------------------------------------
STOP == "SIGSTOP"
TRAP == "SIGTRAP"
SYSTRAP == "SIGTRAP|0x80"
Sig == Signals \cup {STOP}

\* A wait status.  WIFSTOPPED holds for the kinds of Stops; sig is WSTOPSIG, and
\* kind tells the stops of one signal apart: "new" is a status with an event
\* CLONE, FORK or VFORK, whose message is new, "exec" one with the event EXEC.
Stops == {"syscall", "new", "exec", "signal", "group"}
Stop(kind, sig, new) == [kind |-> kind, sig |-> sig, new |-> new]
NoStop == Stop("none", None, None)
Garbage == Stop("garbage", None, None)

\* Mutant: the code of the end is taken for a signal.
Ended_code(how) == Stop(how, how, None)

Ended(how) == Stop(how, None, None)

Gone(p) == run[p] \in {"exited", "killed", "reaped"}
Alive(p) == run[p] # "unborn" /\ ~Gone(p)
Others(p) == {q \in Pid \ {p} : run[q] # "unborn" /\ leader[q] = leader[p]}

\* The task has the options and the flag that make it stop: its own thread
\* has restarted it once with PTRACE_SYSCALL.
Traced(p) == tracer[p] = p /\ pc[p] \notin {"attach", "first"}

\* The kernel reports the end of a leader only when its threads are reaped.
Reportable(p) ==
  /\ run[p] \in {"exited", "killed"}
  /\ leader[p] = p => \A q \in Others(p) : run[q] = "reaped"

Goto(p, l) == pc' = [pc EXCEPT ![p] = l]

\* fork by main; start_tracee asks to be traced and stops itself.
Init ==
  /\ run = [p \in Pid |-> IF p = Root THEN "stopped" ELSE "unborn"]
  /\ in_call = [p \in Pid |-> FALSE]
  /\ stop = [p \in Pid |-> IF p = Root THEN Stop("signal", STOP, None) ELSE NoStop]
  /\ pending = [p \in Pid |-> {}]
  /\ trap = [p \in Pid |-> FALSE]
  /\ leader = [p \in Pid |-> p]
  /\ tracer = [p \in Pid |-> IF p = Root THEN Root ELSE None]
  /\ pc = [p \in Pid |-> IF p = Root THEN "first" ELSE "none"]
  /\ turn = [p \in Pid |-> "call"]
  /\ status = [p \in Pid |-> Garbage]
  /\ new_child = [p \in Pid |-> None]
  /\ owed = [p \in Pid |-> {}]
  /\ unseen = [p \in Pid |-> FALSE]
  /\ woken = [p \in Pid |-> FALSE]

-----------------------------------------------------------------------------
(* The tasks and the kernel.                                               *)

Stopped(p, s) ==
  /\ run' = [run EXCEPT ![p] = "stopped"]
  /\ stop' = [stop EXCEPT ![p] = s]

Running(p) == run[p] = "running"

\* A syscall is entered.
enter(p) ==
  /\ Running(p) /\ ~in_call[p] /\ Traced(p)
  /\ in_call' = [in_call EXCEPT ![p] = TRUE]
  /\ Stopped(p, Stop("syscall", SYSTRAP, None))
  /\ UNCHANGED <<pending, trap, leader, tracer, thread, ghost>>

leave(p) ==
  /\ Running(p) /\ in_call[p]
  /\ in_call' = [in_call EXCEPT ![p] = FALSE]
  /\ Stopped(p, Stop("syscall", SYSTRAP, None))
  /\ UNCHANGED <<pending, trap, leader, tracer, thread, ghost>>

\* A whole syscall of a task that does not stop for it.
call_unseen(p) ==
  /\ Running(p) /\ ~Traced(p) /\ ~unseen[p]
  /\ unseen' = [unseen EXCEPT ![p] = TRUE]
  /\ UNCHANGED <<kernel, thread, owed, woken>>

\* Which number a new task gets does not matter.
NewPid == CHOOSE q \in Pid : run[q] = "unborn"

\* clone, fork or vfork: q, a thread or a process, is traced by the thread of
\* p and has SIGSTOP pending.  (A task nobody traces creates tasks nobody traces.)
spawn(p) ==
  LET q == NewPid IN
  /\ Running(p) /\ in_call[p] /\ \E u \in Pid : run[u] = "unborn"
  /\ run' = [run EXCEPT ![p] = "stopped", ![q] = "new"]
  /\ stop' = [stop EXCEPT ![p] = Stop("new", TRAP, q)]
  /\ \E l \in {q, leader[p]} : leader' = [leader EXCEPT ![q] = l]
  /\ pending' = [pending EXCEPT ![q] = {STOP}]
  /\ tracer' = [tracer EXCEPT ![q] = p]
  /\ UNCHANGED <<in_call, trap, thread, ghost>>

\* Tasks end: one that nobody traces leaves iotrace nothing to wait for.
RunAfter(tasks, how) ==
  [p \in Pid |-> IF p \notin tasks THEN run[p] ELSE IF tracer[p] = None THEN "reaped" ELSE how]

\* What is left of tasks that have ended.
Clear(tasks) ==
  /\ stop' = [p \in Pid |-> IF p \in tasks THEN NoStop ELSE stop[p]]
  /\ pending' = [p \in Pid |-> IF p \in tasks THEN {} ELSE pending[p]]
  /\ owed' = [p \in Pid |-> IF p \in tasks THEN {} ELSE owed[p]]
  /\ trap' = [p \in Pid |-> trap[p] /\ p \notin tasks]
  /\ in_call' = [p \in Pid |-> in_call[p] /\ p \notin tasks]

End(tasks, how) ==
  /\ run' = RunAfter(tasks, how)
  /\ Clear(tasks)
  /\ UNCHANGED <<leader, tracer, thread, unseen, woken>>

Partners(p) == {q \in Others(p) : Alive(q)}

InExit(p) == Running(p) /\ (in_call[p] \/ ~Traced(p))

exit(p) == InExit(p) /\ End({p}, "exited")

exit_group(p) == InExit(p) /\ End({p} \cup Partners(p), "exited")

\* execve by a leader ends its threads and waits until they are reaped.
exec_begin(p) ==
  /\ Running(p) /\ in_call[p] /\ leader[p] = p
  /\ run' = [RunAfter(Partners(p), "exited") EXCEPT ![p] = "execing"]
  /\ Clear(Partners(p))
  /\ UNCHANGED <<leader, tracer, thread, unseen, woken>>

exec_stop(p) ==
  /\ run[p] = "execing"
  /\ \A q \in Others(p) : run[q] = "reaped"
  /\ Stopped(p, Stop("exec", TRAP, None))
  /\ UNCHANGED <<in_call, pending, trap, leader, tracer, thread, ghost>>

\* A signal kills the whole group, stopped tasks too.
kill_event(p) ==
  /\ p \in Killable /\ Alive(p)
  /\ End({p} \cup Partners(p), "killed")

\* A signal is sent.
send(p, s) ==
  /\ p \in Signalled /\ Alive(p) /\ s \notin pending[p]
  /\ pending' = [pending EXCEPT ![p] = @ \cup {s}]
  /\ owed' = IF Traced(p) THEN [owed EXCEPT ![p] = @ \cup {s}] ELSE owed
  /\ UNCHANGED <<run, in_call, stop, trap, leader, tracer, thread, unseen, woken>>

\* A traced task stops before a signal is delivered.  The kernel takes the
\* lowest number first; here any.
signal_stop(p) ==
  /\ run[p] \in {"new", "running"} /\ ~in_call[p] /\ tracer[p] # None
  /\ \E s \in pending[p] :
       /\ Stopped(p, Stop("signal", s, None))
       /\ pending' = [pending EXCEPT ![p] = @ \ {s}]
  /\ UNCHANGED <<in_call, trap, leader, tracer, thread, ghost>>

\* The stop of the group reaches a task: one that nobody traces halts.
group_stop(p) ==
  /\ Running(p) /\ ~in_call[p] /\ trap[p]
  /\ trap' = [trap EXCEPT ![p] = FALSE]
  /\ \/ tracer[p] # None /\ Stopped(p, Stop("group", STOP, None))
     \/ tracer[p] = None /\ run' = [run EXCEPT ![p] = "halted"] /\ UNCHANGED stop
  /\ UNCHANGED <<in_call, pending, leader, tracer, thread, ghost>>

\* The task nobody traces takes its signals itself.
signal_untraced(p) ==
  /\ Running(p) /\ tracer[p] = None
  /\ \E s \in pending[p] :
       /\ pending' = [pending EXCEPT ![p] = @ \ {s}]
       /\ run' = IF s = STOP THEN [run EXCEPT ![p] = "halted"] ELSE run
  /\ UNCHANGED <<in_call, stop, trap, leader, tracer, thread, ghost>>

\* SIGCONT wakes a halted task before its thread attaches to it, and takes the
\* pending SIGSTOP of its group away; a new task stops all the same, by SIGCONT.
\* (That another thread takes that SIGCONT first is left out.)
continue_event(p) ==
  /\ p \in Continuable /\ run[p] = "halted"
  /\ LET group == {p} \cup Others(p) IN
       /\ run' = [q \in Pid |-> IF q \in group /\ run[q] = "halted" THEN "running" ELSE run[q]]
       /\ woken' = [q \in Pid |-> woken[q] \/ (q \in group /\ run[q] = "halted")]
       /\ pending' = [q \in Pid |-> IF q \in group /\ run[q] # "new"
                                   THEN pending[q] \ {STOP} ELSE pending[q]]
       /\ trap' = [q \in Pid |-> trap[q] /\ q \notin group]
  /\ UNCHANGED <<in_call, stop, leader, tracer, thread, owed, unseen>>

-----------------------------------------------------------------------------
(* ptrace as the threads call it.                                          *)

\* SIGSTOP is delivered to a task: those of its group are to stop.
ToStop(tasks) ==
  trap' = [q \in Pid |-> trap[q] \/ (q \in tasks /\ Alive(q) /\ run[q] # "halted")]

\* PTRACE_SYSCALL: the signal counts in a stop before its delivery, and not in
\* the others; it fails for a task that is not stopped or has another tracer.
Restart(p, sig) ==
  \/ /\ run[p] = "stopped" /\ tracer[p] = p
     /\ run' = [run EXCEPT ![p] = "running"]
     /\ stop' = [stop EXCEPT ![p] = NoStop]
     /\ IF stop[p].kind = "signal" /\ sig # None
          THEN owed' = [owed EXCEPT ![p] = @ \ ({sig} \ pending[p])]
          ELSE UNCHANGED owed
     /\ IF stop[p].kind = "signal" /\ sig = STOP THEN ToStop({p} \cup Others(p))
                                                  ELSE UNCHANGED trap
  \/ /\ run[p] # "stopped" \/ tracer[p] # p
     /\ UNCHANGED <<run, stop, trap, owed>>

\* Mutant: PTRACE_DETACH passes no signal.
Detach_nosignal(q) ==
  /\ run' = [run EXCEPT ![q] = "running"]
  /\ stop' = [stop EXCEPT ![q] = NoStop]
  /\ tracer' = [tracer EXCEPT ![q] = None]
  /\ UNCHANGED trap

\* PTRACE_DETACH with SIGSTOP, in a stop before the delivery of a signal.
Detach(q) ==
  /\ run' = [run EXCEPT ![q] = "halted"]
  /\ stop' = [stop EXCEPT ![q] = NoStop]
  /\ tracer' = [tracer EXCEPT ![q] = None]
  /\ ToStop(Others(q))

\* thread_func: PTRACE_ATTACH stops the task by SIGSTOP, one that halts already
\* at once, and fails when the task is gone or has a tracer.
attach(p) ==
  /\ pc[p] = "attach"
  /\ Goto(p, "first")
  /\ IF ~Alive(p) \/ tracer[p] # None THEN UNCHANGED <<run, stop, pending, tracer>>
     ELSE /\ tracer' = [tracer EXCEPT ![p] = p]
          /\ pending' = [pending EXCEPT ![p] = @ \cup {STOP}]
          /\ IF run[p] = "halted" THEN Stopped(p, Stop("group", STOP, None))
                                  ELSE UNCHANGED <<run, stop>>
  /\ UNCHANGED <<in_call, trap, leader, turn, status, new_child, ghost>>

\* start_tracer up to its first wait_for_syscall, and PTRACE_SYSCALL in that: the
\* signal of the first stop is not passed on.
start_tracer(p) ==
  /\ pc[p] = "first"
  /\ \/ /\ run[p] = "stopped"
        /\ Restart(p, None)
     \/ /\ Reportable(p)
        /\ run' = [run EXCEPT ![p] = "reaped"]
        /\ UNCHANGED <<stop, trap, owed>>
     \/ /\ run[p] = "reaped"
        /\ UNCHANGED <<run, stop, trap, owed>>
  /\ Goto(p, "wait")
  /\ unseen' = [unseen EXCEPT ![p] = FALSE]
  /\ woken' = [woken EXCEPT ![p] = FALSE]
  /\ UNCHANGED <<in_call, pending, leader, tracer, turn, status, new_child>>

-----------------------------------------------------------------------------
(* wait_for_syscall.  A status is tested in the step that waited for it    *)
(* when the task is stopped: nothing but its end can come between.  The    *)
(* variable status is set where a later step may read it.                  *)

\* Mutant: without PTRACE_O_TRACESYSGOOD a stop by a syscall is a SIGTRAP.
IsSyscall_trap(st) == st.sig \in {TRAP, SYSTRAP} \/ st.kind = "garbage"

\* Mutant: the loop is left for every end.
IsExit_signaled(st) == st.kind \in {"exited", "killed", "garbage"}

\* The tests a status passes; one nobody wrote may pass any.
IsSyscall(st) == st.kind \in {"syscall", "garbage"}
IsExit(st) == st.kind \in {"exited", "garbage"}
IsOtherStop(st) == st.kind \in (Stops \ {"syscall"}) \cup {"garbage"}
IsNeither(st) == st.kind \in {"killed", "garbage"}

\* Mutant: signals are not passed on.
Tests_dropped(p, st) ==
  \/ IsSyscall(st) /\ Goto(p, "handler") /\ UNCHANGED <<run, stop, trap, owed>>
  \/ IsExit(st) /\ Goto(p, "left") /\ UNCHANGED <<run, stop, trap, owed>>
  \/ (IsOtherStop(st) \/ IsNeither(st)) /\ Goto(p, "wait") /\ Restart(p, None)

\* What follows: a handler, the end of the loop, or PTRACE_SYSCALL with the
\* signal of the status and the next waitpid.
Tests(p, st) ==
  \/ IsSyscall(st) /\ Goto(p, "handler") /\ UNCHANGED <<run, stop, trap, owed>>
  \/ IsExit(st) /\ Goto(p, "left") /\ UNCHANGED <<run, stop, trap, owed>>
  \/ IsOtherStop(st) /\ Goto(p, "wait") /\ Restart(p, st.sig)
  \/ IsNeither(st) /\ Goto(p, "wait") /\ Restart(p, None)

\* waitpid returns a stop.
wait_stop(p) ==
  /\ pc[p] = "wait" /\ run[p] = "stopped" /\ stop[p].kind # "new"
  /\ Tests(p, stop[p])
  /\ UNCHANGED <<in_call, pending, leader, tracer, turn, status, new_child, unseen, woken>>

\* waitpid returns the stop of a task that has created another, and
\* PTRACE_GETEVENTMSG says which.  (That the task ends between the two, and
\* new_child is read uninitialised, is left out.)
wait_event(p) ==
  /\ pc[p] = "wait" /\ run[p] = "stopped" /\ stop[p].kind = "new"
  /\ new_child' = [new_child EXCEPT ![p] = stop[p].new]
  /\ Goto(p, "child")
  /\ UNCHANGED <<kernel, turn, status, ghost>>

\* waitpid returns the end of the task, or fails and leaves status alone.
wait_end(p) ==
  /\ pc[p] = "wait"
  /\ \/ /\ Reportable(p)
        /\ status' = [status EXCEPT ![p] = Ended(run[p])]
        /\ run' = [run EXCEPT ![p] = "reaped"]
     \/ /\ run[p] = "reaped"
        /\ UNCHANGED <<status, run>>
  /\ Goto(p, "tests")
  /\ UNCHANGED <<in_call, stop, pending, trap, leader, tracer, turn, new_child, ghost>>

\* Mutant: the thread is started without waiting for the first stop of its task.
add_child_unwaited(p) ==
  /\ pc[p] = "child"
  /\ status' = [status EXCEPT ![p] = stop[p]]
  /\ new_child' = [new_child EXCEPT ![p] = None]
  /\ pc' = [pc EXCEPT ![p] = "tests", ![new_child[p]] = "attach"]
  /\ UNCHANGED <<kernel, turn, ghost>>

\* The creator waits for the new task into the same status, detaches it with
\* SIGSTOP and starts its thread (threads_add).
add_child(p) ==
  LET q == new_child[p] IN
  /\ pc[p] = "child"
  /\ \/ /\ run[q] = "stopped"
        /\ status' = [status EXCEPT ![p] = stop[q]]
        /\ Detach(q)
     \/ /\ Reportable(q)
        /\ status' = [status EXCEPT ![p] = Ended(run[q])]
        /\ run' = [run EXCEPT ![q] = "reaped"]
        /\ UNCHANGED <<stop, tracer, trap>>
  /\ new_child' = [new_child EXCEPT ![p] = None]
  /\ pc' = [pc EXCEPT ![p] = "tests", ![q] = "attach"]
  /\ UNCHANGED <<in_call, pending, leader, turn, ghost>>

\* The status left by the end of the task, or by its new child.
tests(p) ==
  /\ pc[p] = "tests"
  /\ Tests(p, status[p])
  /\ status' = IF run[p] = "reaped" THEN status ELSE [status EXCEPT ![p] = Garbage]
  /\ UNCHANGED <<in_call, pending, leader, tracer, turn, new_child, unseen, woken>>

\* handle_syscall_call or handle_syscall_return, and the next wait_for_syscall.
handler(p) ==
  /\ pc[p] = "handler"
  /\ Restart(p, None)
  /\ turn' = [turn EXCEPT ![p] = IF @ = "call" THEN "return" ELSE "call"]
  /\ Goto(p, "wait")
  /\ UNCHANGED <<in_call, pending, leader, tracer, status, new_child, unseen, woken>>

\* The thread is over: the kernel kills the tasks it still traces (EXITKILL), and
\* what it has not waited for is reaped.  main does not end before the report.
thread_end(p) ==
  /\ pc[p] = "left" /\ p # Root
  /\ Goto(p, "ended")
  /\ LET mine == {q \in Pid : tracer[q] = p} IN
       /\ tracer' = [q \in Pid |-> IF q \in mine THEN None ELSE tracer[q]]
       /\ run' = [q \in Pid |-> IF q \in mine THEN "reaped" ELSE run[q]]
       /\ Clear(mine)
  /\ UNCHANGED <<leader, turn, status, new_child, unseen, woken>>

-----------------------------------------------------------------------------
\* What the tasks, the senders of signals and the kernel do.
Environment(p) ==
  \/ enter(p) \/ leave(p) \/ call_unseen(p) \/ spawn(p)
  \/ exit(p) \/ exit_group(p) \/ exec_begin(p) \/ exec_stop(p) \/ kill_event(p)
  \/ \E s \in Signals : send(p, s)
  \/ signal_stop(p) \/ group_stop(p) \/ signal_untraced(p) \/ continue_event(p)

Thread(p) ==
  \/ attach(p) \/ start_tracer(p)
  \/ wait_stop(p) \/ wait_event(p) \/ wait_end(p) \/ add_child(p) \/ tests(p)
  \/ handler(p) \/ thread_end(p)

Next == \E p \in Pid : Environment(p) \/ Thread(p)

Spec == Init /\ [][Next]_vars

\* What the kernel does of itself: a new task comes to its first stop, and an
\* execve goes on when its threads are reaped.
KernelStep(p) == (run[p] = "new" /\ signal_stop(p)) \/ exec_stop(p)

\* The threads of iotrace and the kernel go on.  (While the kernel has a step to
\* take for p, the thread of p has none.)  Nothing else need happen.
Fairness == \A p \in Pid : WF_vars(Thread(p) \/ KernelStep(p))

FairSpec == Spec /\ Fairness

-----------------------------------------------------------------------------
Loop == {"wait", "child", "tests", "handler"}

Status == [kind : Stops \cup {"none", "garbage", "exited", "killed"},
           sig : Sig \cup {TRAP, SYSTRAP, None}, new : Pid \cup {None}]

\* Every variable keeps its type.
TypeOK ==
  /\ run \in [Pid -> {"unborn", "new", "running", "stopped", "halted", "execing",
                      "exited", "killed", "reaped"}]
  /\ in_call \in [Pid -> BOOLEAN]
  /\ stop \in [Pid -> Status]
  /\ pending \in [Pid -> SUBSET Sig]
  /\ trap \in [Pid -> BOOLEAN]
  /\ leader \in [Pid -> Pid]
  /\ tracer \in [Pid -> Pid \cup {None}]
  /\ pc \in [Pid -> Loop \cup {"none", "attach", "first", "left", "ended"}]
  /\ turn \in [Pid -> {"call", "return"}]
  /\ status \in [Pid -> Status]
  /\ new_child \in [Pid -> Pid \cup {None}]
  /\ owed \in [Pid -> SUBSET Signals]
  /\ unseen \in [Pid -> BOOLEAN]
  /\ woken \in [Pid -> BOOLEAN]

\* handle_syscall_call runs exactly at the entry of a syscall and
\* handle_syscall_return at its exit, through signals, stops of the group, new
\* tasks and execve: start_tracer only counts the stops (main.c:175 to 189).
HandlersInStep ==
  \A p \in Pid : pc[p] = "handler" /\ Alive(p) =>
    /\ run[p] = "stopped" /\ stop[p].kind = "syscall"
    /\ turn[p] = "call" <=> in_call[p]

\* The first syscall of a new task is seen, although nobody traces it between
\* PTRACE_DETACH and PTRACE_ATTACH, unless SIGCONT woke it in between.
UnseenOnlyIfWoken == \A p \in Pid : unseen[p] => woken[p]

\* A signal sent to a task whose thread is in its loop is not lost: it is
\* delivered, or pending, or what the task is stopped for.
SignalsPassed ==
  \A p \in Pid : owed[p] \subseteq pending[p] \cup
                   (IF stop[p].kind = "signal" THEN {stop[p].sig} ELSE {})

\* No thread leaves its task alone while it lives, whatever end of a new task
\* overwrote the status of its creator.
LeftOnlyIfGone == \A p \in Pid : pc[p] \in {"left", "ended"} => Gone(p)

\* A new task whose creator ended before the report of it was seen: no thread
\* waits for it.
Orphan(q) == \E p \in Pid \ {q} : tracer[q] = p /\ Gone(p)

\* What a task waits for from the threads of iotrace: to be restarted, to get a
\* thread, that the other threads of a task that executes a program are reaped,
\* and, when it has exited with its group, that its thread leaves the loop.
Waiting(p) ==
  \/ run[p] \in {"new", "stopped", "halted", "execing"} /\ ~Orphan(p)
  \/ /\ run[p] = "exited" /\ pc[p] \in Loop
     /\ \A q \in Others(p) : Gone(q) /\ ~Orphan(q)

\* None of these waits lasts for ever, although the threads wait for one another:
\* a creator for its new task, execve for the threads that reap its partners,
\* the report of a leader's end for all of its group.
WaitsEnd == \A p \in Pid : []<>~Waiting(p)

=============================================================================
