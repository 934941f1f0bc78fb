---------------------------- MODULE WaitLoopProof ----------------------------
(***************************************************************************)
(* Proofs about WaitLoop, for any tasks and signals.                       *)
(***************************************************************************)
EXTENDS WaitLoopInv, TLAPS

\* NewPid is a task that was never born.

LEMMA NewPidUnborn ==
  ASSUME TypeOK, \E u \in Pid : run[u] = "unborn"
  PROVE  NewPid \in Pid /\ run[NewPid] = "unborn"
BY DEF NewPid

\* The parts of TypeOK that several actions disturb.
RunType == run \in [Pid -> {"unborn", "new", "running", "stopped", "halted", "execing",
                            "exited", "killed", "reaped"}]
RestartedType == /\ RunType /\ stop \in [Pid -> Status] /\ trap \in [Pid -> BOOLEAN]
                 /\ owed \in [Pid -> SUBSET Signals]
PcType == pc \in [Pid -> Loop \cup {"none", "attach", "first", "left", "ended"}]

\* The statuses the actions write.
LEMMA StatusMade ==
  /\ NoStop \in Status /\ Garbage \in Status
  /\ \A how \in {"exited", "killed"} : Ended(how) \in Status
  /\ Stop("syscall", SYSTRAP, None) \in Status /\ Stop("exec", TRAP, None) \in Status
  /\ Stop("group", STOP, None) \in Status
  /\ \A q \in Pid : Stop("new", TRAP, q) \in Status
  /\ \A s \in Sig : Stop("signal", s, None) \in Status
BY DEF NoStop, Garbage, Ended, Stop, Status, Stops, Sig

\* What PTRACE_SYSCALL, a change of pc and the tests write.
LEMMA ToStopType ==
  ASSUME NEW tasks, ToStop(tasks)
  PROVE  trap' \in [Pid -> BOOLEAN]
BY Zenon DEF ToStop

LEMMA RestartType ==
  ASSUME TypeOK, NEW p \in Pid, NEW sig, Restart(p, sig)
  PROVE  RestartedType'
<1>1. CASE run[p] = "stopped" /\ tracer[p] = p
  <2>1. trap' \in [Pid -> BOOLEAN]
    BY <1>1, ToStopType DEF Restart, TypeOK
  <2>2. owed' \in [Pid -> SUBSET Signals]
    BY <1>1 DEF Restart, TypeOK
  <2>3. run' = [run EXCEPT ![p] = "running"] /\ stop' = [stop EXCEPT ![p] = NoStop]
    BY <1>1 DEF Restart
  <2> QED
    BY <2>1, <2>2, <2>3, StatusMade DEF RestartedType, RunType, TypeOK
<1>2. CASE ~(run[p] = "stopped" /\ tracer[p] = p)
  BY <1>2 DEF Restart, RestartedType, RunType, TypeOK
<1> QED
  BY <1>1, <1>2

LEMMA GotoType ==
  ASSUME TypeOK, NEW p \in Pid, NEW l \in Loop \cup {"first", "left", "ended"}, Goto(p, l)
  PROVE  PcType'
BY DEF Goto, PcType, TypeOK

LEMMA TestsType ==
  ASSUME TypeOK, NEW p \in Pid, NEW st, Tests(p, st)
  PROVE  RestartedType' /\ PcType'
<1>1. CASE Goto(p, "handler") /\ UNCHANGED <<run, stop, trap, owed>>
  BY <1>1, GotoType DEF RestartedType, RunType, Loop, TypeOK
<1>2. CASE Goto(p, "left") /\ UNCHANGED <<run, stop, trap, owed>>
  BY <1>2, GotoType DEF RestartedType, RunType, Loop, TypeOK
<1>3. ASSUME NEW sig, Goto(p, "wait"), Restart(p, sig)
      PROVE  RestartedType' /\ PcType'
  BY <1>3, GotoType, RestartType DEF Loop
<1> QED
  BY <1>1, <1>2, <1>3 DEF Tests

LEMMA TypeEnvironment ==
  ASSUME IInv, NEW p \in Pid, Environment(p)
  PROVE  TypeOK'
<1> USE StatusMade, NewPidUnborn DEF IInv, TypeOK, kernel, thread, ghost, Stopped, Running
<1>e. ASSUME NEW tasks, NEW how \in {"exited", "killed"}, End(tasks, how)
      PROVE  TypeOK'
  BY <1>e DEF End, RunAfter, Clear
<1>1. CASE enter(p)
  BY <1>1 DEF enter
<1>2. CASE leave(p)
  BY <1>2 DEF leave
<1>3. CASE call_unseen(p)
  BY <1>3 DEF call_unseen
<1>4. CASE spawn(p)
  <2>1. NewPid \in Pid /\ Stop("new", TRAP, NewPid) \in Status
    BY <1>4 DEF spawn
  <2>2. pending' \in [Pid -> SUBSET Sig]
    BY <1>4 DEF spawn, Sig
  <2>3. RunType' /\ stop' \in [Pid -> Status] /\ tracer' \in [Pid -> Pid \cup {None}]
    BY <1>4, <2>1 DEF spawn, RunType
  <2> QED
    BY <1>4, <2>2, <2>3 DEF spawn, RunType
<1>5. CASE exit(p)
  BY <1>5, <1>e DEF exit
<1>6. CASE exit_group(p)
  BY <1>6, <1>e DEF exit_group
<1>7. CASE exec_begin(p)
  BY <1>7 DEF exec_begin, RunAfter, Clear
<1>8. CASE exec_stop(p)
  BY <1>8 DEF exec_stop
<1>9. CASE kill_event(p)
  BY <1>9, <1>e DEF kill_event
<1>10. CASE \E s \in Signals : send(p, s)
  BY <1>10 DEF send, Sig
<1>11. CASE signal_stop(p)
  BY <1>11 DEF signal_stop
<1>12. CASE group_stop(p)
  <2>1. RunType' /\ stop' \in [Pid -> Status]
    <3>1. CASE Stopped(p, Stop("group", STOP, None))
      BY <3>1 DEF RunType
    <3>2. CASE run' = [run EXCEPT ![p] = "halted"] /\ UNCHANGED stop
      BY <3>2 DEF RunType
    <3> QED
      BY <1>12, <3>1, <3>2 DEF group_stop
  <2> QED
    BY <1>12, <2>1 DEF group_stop, RunType
<1>13. CASE signal_untraced(p)
  BY <1>13 DEF signal_untraced
<1>14. CASE continue_event(p)
  BY <1>14 DEF continue_event
<1> QED
  BY <1>1, <1>2, <1>3, <1>4, <1>5, <1>6, <1>7, <1>8, <1>9, <1>10, <1>11, <1>12, <1>13, <1>14
      DEF Environment

LEMMA TypeThread ==
  ASSUME IInv, NEW p \in Pid, Thread(p)
  PROVE  TypeOK'
<1> USE StatusMade DEF IInv, TypeOK, kernel, thread, ghost
<1>1. CASE attach(p)
  <2>1. pending' \in [Pid -> SUBSET Sig] /\ tracer' \in [Pid -> Pid \cup {None}]
    BY <1>1 DEF attach, Sig
  <2>2. RunType' /\ stop' \in [Pid -> Status]
    <3>1. CASE Stopped(p, Stop("group", STOP, None))
      BY <3>1 DEF Stopped, RunType
    <3>2. CASE UNCHANGED <<run, stop>>
      BY <3>2 DEF RunType
    <3> QED
      BY <1>1, <3>1, <3>2 DEF attach
  <2> QED
    BY <1>1, <2>1, <2>2, GotoType DEF attach, RunType, PcType
<1>2. CASE start_tracer(p)
  <2>1. RestartedType'
    BY <1>2, RestartType DEF start_tracer, RestartedType, RunType
  <2> QED
    BY <1>2, <2>1, GotoType DEF start_tracer, RestartedType, RunType, PcType, Loop
<1>3. CASE wait_stop(p)
  BY <1>3, TestsType DEF wait_stop, RestartedType, RunType, PcType
<1>4. CASE wait_event(p)
  BY <1>4, GotoType DEF wait_event, Loop, PcType, Status
<1>5. CASE wait_end(p)
  <2>1. RunType'
    BY <1>5 DEF wait_end, RunType
  <2>2. status' \in [Pid -> Status]
    <3>1. CASE Reportable(p) /\ status' = [status EXCEPT ![p] = Ended(run[p])]
      <4>1. Ended(run[p]) \in Status
        BY <3>1 DEF Reportable
      <4> QED
        BY <3>1, <4>1
    <3>2. CASE UNCHANGED status
      BY <3>2
    <3> QED
      BY <1>5, <3>1, <3>2 DEF wait_end
  <2> QED
    BY <1>5, <2>1, <2>2, GotoType DEF wait_end, Loop, RunType, PcType
<1>6. CASE add_child(p)
  <2>1. PcType' /\ new_child' \in [Pid -> Pid \cup {None}]
    BY <1>6 DEF add_child, PcType, Loop
  <2>2. CASE Detach(new_child[p]) /\ status' = [status EXCEPT ![p] = stop[new_child[p]]]
    <3>1. new_child[p] \in Pid
      BY <1>6 DEF add_child, Family, ChildThere
    <3>2. trap' \in [Pid -> BOOLEAN]
      BY <2>2, ToStopType DEF Detach
    <3>3. RunType' /\ stop' \in [Pid -> Status] /\ tracer' \in [Pid -> Pid \cup {None}]
      BY <2>2 DEF Detach, RunType
    <3> QED
      BY <1>6, <2>1, <2>2, <3>1, <3>2, <3>3 DEF add_child, RunType, PcType
  <2>3. CASE /\ Reportable(new_child[p])
             /\ status' = [status EXCEPT ![p] = Ended(run[new_child[p]])]
             /\ run' = [run EXCEPT ![new_child[p]] = "reaped"]
             /\ UNCHANGED <<stop, tracer, trap>>
    <3>1. RunType' /\ status' \in [Pid -> Status]
      BY <2>3 DEF Reportable, RunType
    <3> QED
      BY <1>6, <2>1, <2>3, <3>1 DEF add_child, RunType, PcType
  <2> QED
    BY <1>6, <2>2, <2>3 DEF add_child
<1>7. CASE tests(p)
  <2>1. status' \in [Pid -> Status]
    BY <1>7 DEF tests
  <2> QED
    BY <1>7, <2>1, TestsType DEF tests, RestartedType, RunType, PcType
<1>8. CASE handler(p)
  BY <1>8, RestartType, GotoType DEF handler, RestartedType, RunType, PcType, Loop
<1>9. CASE thread_end(p)
  BY <1>9, GotoType DEF thread_end, Clear, PcType
<1> QED
  BY <1>1, <1>2, <1>3, <1>4, <1>5, <1>6, <1>7, <1>8, <1>9 DEF Thread

-----------------------------------------------------------------------------
(* What the steps of a thread come to.                                     *)

Restarted(p) == /\ run' = [run EXCEPT ![p] = "running"]
                /\ stop' = [stop EXCEPT ![p] = NoStop]

\* PTRACE_SYSCALL for a live task restarts it; what the task was stopped for
\* is not owed any more unless it is pending again.
LEMMA RestartAlive ==
  ASSUME IInv, NEW p \in Pid, NEW sig, Restart(p, sig), run[p] = "stopped", tracer[p] = p
  PROVE  /\ Restarted(p)
         /\ owed' = IF stop[p].kind = "signal" /\ sig # None
                    THEN [owed EXCEPT ![p] = @ \ ({sig} \ pending[p])] ELSE owed
BY DEF Restart, Restarted

\* For a task that is gone it fails.
LEMMA RestartGone ==
  ASSUME NEW p \in Pid, NEW sig, Restart(p, sig), Gone(p)
  PROVE  UNCHANGED <<run, stop, owed>>
BY DEF Restart, Gone

\* A stop goes to the handler or is restarted, by what it is.
LEMMA WaitStop ==
  ASSUME IInv, NEW p \in Pid, wait_stop(p)
  PROVE  /\ Alive(p) /\ tracer[p] = p /\ run[p] = "stopped" /\ pc[p] = "wait"
         /\ \/ /\ stop[p].kind = "syscall"
               /\ Goto(p, "handler") /\ UNCHANGED <<run, stop, owed>>
            \/ /\ stop[p].kind \in {"exec", "signal", "group"}
               /\ Goto(p, "wait") /\ Restart(p, stop[p].sig)
<1>1. Alive(p) /\ run[p] = "stopped" /\ pc[p] = "wait"
  BY DEF wait_stop, Alive, Gone
<1>2. tracer[p] = p
  BY <1>1 DEF IInv, Places, InLoop, Loop
<1>3. stop[p].kind \in {"syscall", "exec", "signal", "group"}
  BY <1>1 DEF wait_stop, IInv, Places, StopTold, Stops
<1> QED
  BY <1>1, <1>2, <1>3 DEF wait_stop, Tests, IsSyscall, IsExit, IsOtherStop, IsNeither, Stops

\* After a new task only a live creator goes on, and it is restarted.
LEMMA TestsLater ==
  ASSUME IInv, NEW p \in Pid, tests(p)
  PROVE  \/ /\ Alive(p) /\ tracer[p] = p /\ run[p] = "stopped" /\ stop[p].kind = "new"
            /\ Goto(p, "wait") /\ Restarted(p) /\ UNCHANGED owed
         \/ /\ Gone(p)
            /\ Goto(p, "handler") \/ Goto(p, "left") \/ Goto(p, "wait")
            /\ UNCHANGED <<run, stop, owed>>
<1>1. CASE Gone(p)
  BY <1>1, RestartGone DEF tests, Tests
<1>2. CASE ~Gone(p)
  <2>1. pc[p] = "tests"
    BY DEF tests
  <2>2. Alive(p)
    BY <1>2, <2>1 DEF IInv, Places, Unborn, Alive
  <2>3. /\ tracer[p] = p /\ run[p] = "stopped" /\ stop[p].kind = "new"
        /\ status[p].kind \notin {"syscall", "exited", "garbage"}
    BY <2>1, <2>2 DEF IInv, Places, InLoop, Loop, Tested, StatusTold
  <2>4. PICK sig : Goto(p, "wait") /\ Restart(p, sig)
    BY <2>3 DEF tests, Tests, IsSyscall, IsExit
  <2> QED
    BY <2>2, <2>3, <2>4, RestartAlive
<1> QED
  BY <1>1, <1>2

\* A handler runs for a stopped task, or for one that is gone.
LEMMA HandlerLater ==
  ASSUME IInv, NEW p \in Pid, handler(p)
  PROVE  \/ /\ Alive(p) /\ tracer[p] = p /\ run[p] = "stopped" /\ stop[p].kind = "syscall"
            /\ Restarted(p) /\ UNCHANGED owed
         \/ Gone(p) /\ UNCHANGED <<run, stop, owed>>
<1>1. CASE Gone(p)
  BY <1>1, RestartGone DEF handler
<1>2. CASE ~Gone(p)
  <2>1. pc[p] = "handler"
    BY DEF handler
  <2>2. Alive(p)
    BY <1>2, <2>1 DEF IInv, Places, Unborn, Alive
  <2>3. tracer[p] = p /\ run[p] = "stopped" /\ stop[p].kind = "syscall"
    BY <2>1, <2>2 DEF IInv, Places, InLoop, Loop
  <2> QED
    BY <2>2, <2>3, RestartAlive DEF handler
<1> QED
  BY <1>1, <1>2

\* A stop of the group: one that nobody traces is not stopped by ptrace.
LEMMA GroupStop ==
  ASSUME NEW p \in Pid, group_stop(p)
  PROVE  /\ Running(p)
         /\ \/ tracer[p] # None /\ Stopped(p, Stop("group", STOP, None))
            \/ tracer[p] = None /\ run' = [run EXCEPT ![p] = "halted"] /\ UNCHANGED stop
         /\ UNCHANGED <<in_call, pending, leader, tracer, thread, ghost>>
BY DEF group_stop

\* The first stop of a task is left without a signal.
LEMMA StartTracer ==
  ASSUME IInv, NEW p \in Pid, start_tracer(p)
  PROVE  \/ Alive(p) /\ tracer[p] = p /\ run[p] = "stopped" /\ Restarted(p) /\ UNCHANGED owed
         \/ Gone(p) /\ run' = [run EXCEPT ![p] = "reaped"] /\ UNCHANGED <<stop, owed>>
<1>1. CASE run[p] = "stopped" /\ Restart(p, None)
  <2>1. Alive(p) /\ tracer[p] = p
    BY <1>1 DEF start_tracer, Alive, Gone, IInv, Places, NotYetThere
  <2> QED
    BY <1>1, <2>1, RestartAlive
<1>2. CASE Reportable(p) /\ run' = [run EXCEPT ![p] = "reaped"] /\ UNCHANGED <<stop, owed>>
  BY <1>2 DEF Reportable, Gone
<1>3. CASE run[p] = "reaped" /\ UNCHANGED <<run, stop, owed>>
  BY <1>3 DEF Gone, IInv, TypeOK
<1> QED
  BY <1>1, <1>2, <1>3 DEF start_tracer

\* The new task of a thread at "child" has no thread yet.
LEMMA AddChild ==
  ASSUME IInv, NEW p \in Pid, add_child(p)
  PROVE  /\ new_child[p] \in Pid /\ NewChild(p, new_child[p])
         /\ \/ /\ run[new_child[p]] = "stopped"
               /\ stop[new_child[p]].kind = "signal"
               /\ status' = [status EXCEPT ![p] = stop[new_child[p]]]
               /\ run' = [run EXCEPT ![new_child[p]] = "halted"]
               /\ stop' = [stop EXCEPT ![new_child[p]] = NoStop]
               /\ tracer' = [tracer EXCEPT ![new_child[p]] = None]
            \/ /\ run[new_child[p]] \in {"exited", "killed"}
               /\ status' = [status EXCEPT ![p] = Ended(run[new_child[p]])]
               /\ run' = [run EXCEPT ![new_child[p]] = "reaped"]
               /\ UNCHANGED <<stop, tracer>>
<1>1. new_child[p] \in Pid /\ NewChild(p, new_child[p])
  BY DEF add_child, IInv, Family, ChildThere
<1> QED
  BY <1>1 DEF add_child, Detach, Reportable, NewChild, IInv, Places, NotYetThere

-----------------------------------------------------------------------------
(* The invariant under each action.                                        *)

\* A task that runs is about to be attached to, or its thread waits for it.
LEMMA WhereRunning ==
  ASSUME IInv, NEW p \in Pid, Running(p)
  PROVE  /\ Alive(p)
         /\ \/ pc[p] = "attach" /\ tracer[p] = None
            \/ pc[p] = "first" /\ tracer[p] = p
            \/ pc[p] = "wait" /\ tracer[p] = p
<1>1. Alive(p)
  BY DEF Running, Alive, Gone
<1>2. pc[p] \in Loop \cup {"attach", "first"}
  BY <1>1 DEF IInv, TypeOK, Running, Alive, Places, NotYetThere, Tested, LeftOnlyIfGone
<1>3. pc[p] \in {"child", "tests", "handler"} => run[p] = "stopped"
  BY <1>1 DEF IInv, Places, InLoop, Loop
<1> QED
  BY <1>1, <1>2, <1>3 DEF Running, Loop, IInv, Places, NotYetThere, InLoop

\* A syscall is entered: turn of the thread says so already.
LEMMA EnterKeeps ==
  ASSUME IInv, TypeOK', NEW p \in Pid, enter(p)
  PROVE  IInv'
<1> USE WaitLoopAssumption DEF IInv, TypeOK, kernel, thread, ghost, Running, Traced, Gone,
      Alive, Before, NewChild, Stop, Stops, NoStop, STOP, TRAP, SYSTRAP, Sig, Loop
<1>1. Places'
  BY DEF enter, Stopped, Places, StopTold, Unborn, Untouched, NotYetThere, InLoop
<1>2. Family'
  BY DEF enter, Stopped, Family, LeaderFirst, Creators, CreatorStopped, ChildThere,
      ExitedTogether
<1>3. Tested'
  BY DEF enter, Stopped, Tested, InStep, StatusTold, LeftOnlyIfGone
<1>4. Told'
  BY DEF enter, Stopped, Places, StopTold, Unborn, Untouched, NotYetThere, InLoop, Told,
      Woken, UnseenOnlyIfWoken, NothingOwed, SignalsPassed
<1> QED
  BY <1>1, <1>2, <1>3, <1>4

\* A syscall is left.
LEMMA LeaveKeeps ==
  ASSUME IInv, TypeOK', NEW p \in Pid, leave(p)
  PROVE  IInv'
<1> USE WaitLoopAssumption DEF IInv, TypeOK, kernel, thread, ghost, Running, Traced, Gone,
      Alive, Before, NewChild, Stop, Stops, NoStop, STOP, TRAP, SYSTRAP, Sig, Loop
<1>1. Places'
  BY DEF leave, Stopped, Places, StopTold, Unborn, Untouched, NotYetThere, InLoop
<1>2. Family'
  BY DEF leave, Stopped, Family, LeaderFirst, Creators, CreatorStopped, ChildThere,
      ExitedTogether
<1>3. Tested'
  BY DEF leave, Stopped, Tested, InStep, StatusTold, LeftOnlyIfGone
<1>4. Told'
  BY DEF leave, Stopped, Places, StopTold, Unborn, Untouched, NotYetThere, InLoop, Told,
      Woken, UnseenOnlyIfWoken, NothingOwed, SignalsPassed
<1> QED
  BY <1>1, <1>2, <1>3, <1>4

\* Only a task that was woken runs while nobody traces it.
LEMMA CallUnseenKeeps ==
  ASSUME IInv, TypeOK', NEW p \in Pid, call_unseen(p)
  PROVE  IInv'
<1> USE WaitLoopAssumption DEF IInv, TypeOK, kernel, thread, ghost, Running, Traced, Gone,
      Alive, Before, NewChild, Stop, Stops, NoStop, STOP, TRAP, SYSTRAP, Sig, Loop
<1>1. Places'
  BY DEF call_unseen, Places, StopTold, Unborn, Untouched, NotYetThere, InLoop
<1>2. Family'
  BY DEF call_unseen, Family, LeaderFirst, Creators, CreatorStopped, ChildThere, ExitedTogether
<1>3. Tested'
  BY DEF call_unseen, Tested, InStep, StatusTold, LeftOnlyIfGone
<1>4. Told'
  <2>1. Woken'
    BY DEF call_unseen, Told, Woken
  <2>2. UnseenOnlyIfWoken'
    <3>1. woken[p]
      BY WhereRunning DEF call_unseen, Told, Woken
    <3> QED
      BY <3>1 DEF call_unseen, Told, UnseenOnlyIfWoken
  <2>3. NothingOwed'
    BY DEF call_unseen, Told, NothingOwed
  <2>4. SignalsPassed'
    BY DEF call_unseen, Told, SignalsPassed
  <2> QED
    BY <2>1, <2>2, <2>3, <2>4 DEF Told
<1> QED
  BY <1>1, <1>2, <1>3, <1>4

\* A new task has no thread, its creator is stopped, and it shares the group of its creator or none.
LEMMA SpawnKeeps ==
  ASSUME IInv, TypeOK', NEW p \in Pid, spawn(p)
  PROVE  IInv'
<1>n. NewPid \in Pid /\ run[NewPid] = "unborn"
  BY NewPidUnborn DEF spawn, IInv
<1> USE WaitLoopAssumption DEF IInv, TypeOK, kernel, thread, ghost, Running, Traced, Gone,
      Alive, Before, NewChild, Stop, Stops, NoStop, STOP, TRAP, SYSTRAP, Sig, Loop
<1>1. Places'
  BY <1>n DEF spawn, Places, StopTold, Unborn, Untouched, NotYetThere, InLoop
<1>2. Family'
  <2>1. LeaderFirst'
    BY <1>n DEF spawn, Places, StopTold, Unborn, Untouched, NotYetThere, InLoop, Family,
        LeaderFirst
  <2>2. Creators'
    BY <1>n DEF spawn, Places, StopTold, Unborn, Untouched, NotYetThere, InLoop, Family,
        Creators
  <2>3. CreatorStopped'
    <3>1. pc[p] = "wait"
      BY WhereRunning DEF spawn, Places, Untouched
    <3>2. SUFFICES ASSUME NEW r \in Pid, NEW q \in Pid, NewChild(r, q)', Alive(r)'
                   PROVE  /\ run'[r] = "stopped" /\ stop'[r].kind = "new" /\ stop'[r].new = q
                          /\ pc'[r] \in {"wait", "child"}
      BY DEF CreatorStopped
    <3>3. CASE q = NewPid
      BY <1>n, <3>1, <3>2, <3>3 DEF spawn
    <3>4. CASE q # NewPid
      <4>1. NewChild(r, q)
        BY <3>2, <3>4 DEF spawn
      <4>2. r # NewPid
        BY <1>n, <4>1 DEF Places, Unborn, Family, Creators
      <4>3. Alive(r)
        BY <3>2, <4>2, <1>n DEF spawn
      <4>4. r # p
        BY <4>1, <4>3 DEF spawn, Family, CreatorStopped
      <4> QED
        BY <4>1, <4>2, <4>3, <4>4 DEF spawn, Family, CreatorStopped
    <3> QED
      BY <3>3, <3>4
  <2>4. ChildThere'
    BY <1>n DEF spawn, Places, StopTold, Unborn, Untouched, NotYetThere, InLoop, Family,
        ChildThere
  <2>5. ExitedTogether'
    <3>1. SUFFICES ASSUME NEW r \in Pid, NEW q \in Pid, NewChild(r, q)', run'[q] = "exited"
                   PROVE  Gone(r)'
      BY DEF ExitedTogether
    <3>2. q # NewPid /\ q # p
      BY <1>n, <3>1 DEF spawn
    <3>3. NewChild(r, q) /\ run[q] = "exited"
      BY <3>1, <3>2 DEF spawn
    <3>4. Gone(r)
      BY <3>3 DEF Family, ExitedTogether
    <3> QED
      BY <1>n, <3>4 DEF spawn
  <2> QED
    BY <2>1, <2>2, <2>3, <2>4, <2>5 DEF Family
<1>3. Tested'
  <2>1. InStep'
    BY <1>n DEF spawn, Places, StopTold, Unborn, Untouched, NotYetThere, InLoop, Tested, InStep
  <2>2. StatusTold'
    BY <1>n DEF spawn, Places, StopTold, Unborn, Untouched, NotYetThere, InLoop, Tested,
        StatusTold
  <2>3. LeftOnlyIfGone'
    <3>1. pc[p] = "wait" /\ pc[NewPid] = "none"
      BY <1>n, WhereRunning DEF spawn, Places, Untouched, Unborn
    <3> QED
      BY <1>n, <3>1 DEF spawn, Tested, LeftOnlyIfGone
  <2> QED
    BY <2>1, <2>2, <2>3 DEF Tested
<1>4. Told'
  <2>1. Woken'
    BY <1>n DEF spawn, Told, Woken
  <2>2. UnseenOnlyIfWoken'
    BY <1>n DEF spawn, Told, UnseenOnlyIfWoken
  <2>3. NothingOwed'
    BY <1>n DEF spawn, Told, NothingOwed
  <2>4. SignalsPassed'
    BY <1>n DEF spawn, Places, StopTold, Unborn, Untouched, NotYetThere, InLoop, Told,
        SignalsPassed
  <2> QED
    BY <2>1, <2>2, <2>3, <2>4 DEF Told
<1> QED
  BY <1>1, <1>2, <1>3, <1>4

\* A task that exits has a thread.
LEMMA ExitKeeps ==
  ASSUME IInv, TypeOK', NEW p \in Pid, exit(p)
  PROVE  IInv'
<1> USE WaitLoopAssumption DEF IInv, TypeOK, kernel, thread, ghost, Running, Traced, Gone,
      Alive, Before, NewChild, Stop, Stops, NoStop, STOP, TRAP, SYSTRAP, Sig, Loop
<1>1. Places'
  BY DEF exit, InExit, End, RunAfter, Clear, Places, StopTold, Unborn, Untouched, NotYetThere,
      InLoop
<1>2. Family'
  <2>1. LeaderFirst'
    BY DEF exit, InExit, End, RunAfter, Clear, Family, LeaderFirst
  <2>2. Creators'
    BY DEF exit, InExit, End, RunAfter, Clear, Family, Creators
  <2>3. CreatorStopped'
    BY DEF exit, InExit, End, RunAfter, Clear, Family, CreatorStopped
  <2>4. ChildThere'
    BY DEF exit, InExit, End, RunAfter, Clear, Family, ChildThere
  <2>5. ExitedTogether'
    <3>1. SUFFICES ASSUME NEW r \in Pid, NEW q \in Pid, NewChild(r, q)', run'[q] = "exited"
                   PROVE  Gone(r)'
      BY DEF ExitedTogether
    <3>2. q # p
      BY <3>1, WhereRunning DEF exit, InExit, End
    <3>3. NewChild(r, q) /\ run[q] = "exited"
      BY <3>1, <3>2 DEF exit, End, RunAfter
    <3>4. Gone(r)
      BY <3>3 DEF Family, ExitedTogether
    <3> QED
      BY <3>4 DEF exit, End, RunAfter
  <2> QED
    BY <2>1, <2>2, <2>3, <2>4, <2>5 DEF Family
<1>3. Tested'
  BY DEF exit, InExit, End, RunAfter, Clear, Tested, InStep, StatusTold, LeftOnlyIfGone
<1>4. Told'
  BY DEF exit, InExit, End, RunAfter, Clear, Told, Woken, UnseenOnlyIfWoken, NothingOwed,
      SignalsPassed
<1> QED
  BY <1>1, <1>2, <1>3, <1>4

\* With a new task that exits its creator does.
LEMMA ExitGroupKeeps ==
  ASSUME IInv, TypeOK', NEW p \in Pid, exit_group(p)
  PROVE  IInv'
<1> USE WaitLoopAssumption DEF IInv, TypeOK, kernel, thread, ghost, Running, Traced, Gone,
      Alive, Before, NewChild, Stop, Stops, NoStop, STOP, TRAP, SYSTRAP, Sig, Loop
<1>1. Places'
  BY DEF exit_group, InExit, End, RunAfter, Clear, Partners, Others, Places, StopTold, Unborn,
      Untouched, NotYetThere, InLoop
<1>2. Family'
  BY DEF exit_group, InExit, End, RunAfter, Clear, Partners, Others, Places, StopTold, Unborn,
      Untouched, NotYetThere, InLoop, Family, LeaderFirst, Creators, CreatorStopped,
      ChildThere, ExitedTogether
<1>3. Tested'
  BY DEF exit_group, InExit, End, RunAfter, Clear, Partners, Others, Tested, InStep,
      StatusTold, LeftOnlyIfGone
<1>4. Told'
  BY DEF exit_group, InExit, End, RunAfter, Clear, Partners, Others, Told, Woken,
      UnseenOnlyIfWoken, NothingOwed, SignalsPassed
<1> QED
  BY <1>1, <1>2, <1>3, <1>4

\* A leader that executes a program has no new task.
LEMMA ExecBeginKeeps ==
  ASSUME IInv, TypeOK', NEW p \in Pid, exec_begin(p)
  PROVE  IInv'
<1> USE WaitLoopAssumption DEF IInv, TypeOK, kernel, thread, ghost, Running, Traced, Gone,
      Alive, Before, NewChild, Stop, Stops, NoStop, STOP, TRAP, SYSTRAP, Sig, Loop
<1>1. Places'
  BY DEF exec_begin, RunAfter, Clear, Partners, Others, Places, StopTold, Unborn, Untouched,
      NotYetThere, InLoop
<1>2. Family'
  <2>1. LeaderFirst'
    BY DEF exec_begin, RunAfter, Clear, Partners, Others, Family, LeaderFirst
  <2>2. Creators'
    BY DEF exec_begin, RunAfter, Clear, Partners, Others, Family, Creators
  <2>3. CreatorStopped'
    BY DEF exec_begin, RunAfter, Clear, Partners, Others, Family, CreatorStopped
  <2>4. ChildThere'
    BY DEF exec_begin, RunAfter, Clear, Partners, Others, Family, ChildThere
  <2>5. ExitedTogether'
    <3>1. SUFFICES ASSUME NEW r \in Pid, NEW q \in Pid, NewChild(r, q)', run'[q] = "exited"
                   PROVE  Gone(r)'
      BY DEF ExitedTogether
    <3>2. NewChild(r, q) /\ q # p
      BY <3>1, WhereRunning DEF exec_begin
    <3>3. ASSUME Gone(r) PROVE Gone(r)'
      BY <3>3 DEF exec_begin, RunAfter
    <3>4. CASE run[q] = "exited"
      BY <3>2, <3>3, <3>4 DEF Family, ExitedTogether
    <3>5. CASE run[q] # "exited" /\ Alive(r)
      <4>1. leader[q] = p
        BY <3>1, <3>2, <3>5 DEF exec_begin, RunAfter, Partners, Others
      <4>2. leader[r] = p
        BY <3>2, <4>1 DEF Family, Creators
      <4>3. r # p
        BY <3>2, <3>5 DEF exec_begin, Family, CreatorStopped
      <4> QED
        BY <3>5, <4>2, <4>3 DEF exec_begin, RunAfter, Partners, Others
    <3> QED
      BY <3>2, <3>3, <3>4, <3>5 DEF Family, Creators, Places, Unborn
  <2> QED
    BY <2>1, <2>2, <2>3, <2>4, <2>5 DEF Family
<1>3. Tested'
  <2>1. InStep'
    BY DEF exec_begin, RunAfter, Clear, Partners, Others, Tested, InStep
  <2>2. StatusTold'
    BY DEF exec_begin, RunAfter, Clear, Partners, Others, Tested, StatusTold
  <2>3. LeftOnlyIfGone'
    BY DEF exec_begin, RunAfter, Clear, Partners, Others, Tested, LeftOnlyIfGone
  <2> QED
    BY <2>1, <2>2, <2>3 DEF Tested
<1>4. Told'
  BY DEF exec_begin, RunAfter, Clear, Partners, Others, Told, Woken, UnseenOnlyIfWoken,
      NothingOwed, SignalsPassed
<1> QED
  BY <1>1, <1>2, <1>3, <1>4

\* The stop for an execve is none for a syscall.
LEMMA ExecStopKeeps ==
  ASSUME IInv, TypeOK', NEW p \in Pid, exec_stop(p)
  PROVE  IInv'
<1> USE WaitLoopAssumption DEF IInv, TypeOK, kernel, thread, ghost, Running, Traced, Gone,
      Alive, Before, NewChild, Stop, Stops, NoStop, STOP, TRAP, SYSTRAP, Sig, Loop
<1>1. Places'
  BY DEF exec_stop, Stopped, Places, StopTold, Unborn, Untouched, NotYetThere, InLoop
<1>2. Family'
  BY DEF exec_stop, Stopped, Family, LeaderFirst, Creators, CreatorStopped, ChildThere,
      ExitedTogether
<1>3. Tested'
  BY DEF exec_stop, Stopped, Tested, InStep, StatusTold, LeftOnlyIfGone
<1>4. Told'
  BY DEF exec_stop, Stopped, Places, StopTold, Unborn, Untouched, NotYetThere, InLoop, Told,
      Woken, UnseenOnlyIfWoken, NothingOwed, SignalsPassed
<1> QED
  BY <1>1, <1>2, <1>3, <1>4

\* A group is killed.
LEMMA KillEventKeeps ==
  ASSUME IInv, TypeOK', NEW p \in Pid, kill_event(p)
  PROVE  IInv'
<1> USE WaitLoopAssumption DEF IInv, TypeOK, kernel, thread, ghost, Running, Traced, Gone,
      Alive, Before, NewChild, Stop, Stops, NoStop, STOP, TRAP, SYSTRAP, Sig, Loop
<1>1. Places'
  BY DEF kill_event, End, RunAfter, Clear, Partners, Others, Places, StopTold, Unborn,
      Untouched, NotYetThere, InLoop
<1>2. Family'
  BY DEF kill_event, End, RunAfter, Clear, Partners, Others, Family, LeaderFirst, Creators,
      CreatorStopped, ChildThere, ExitedTogether
<1>3. Tested'
  BY DEF kill_event, End, RunAfter, Clear, Partners, Others, Tested, InStep, StatusTold,
      LeftOnlyIfGone
<1>4. Told'
  BY DEF kill_event, End, RunAfter, Clear, Partners, Others, Told, Woken, UnseenOnlyIfWoken,
      NothingOwed, SignalsPassed
<1> QED
  BY <1>1, <1>2, <1>3, <1>4

\* A signal is sent.
LEMMA SendKeeps ==
  ASSUME IInv, TypeOK', NEW p \in Pid, NEW s \in Signals, send(p, s)
  PROVE  IInv'
<1> USE WaitLoopAssumption DEF IInv, TypeOK, kernel, thread, ghost, Running, Traced, Gone,
      Alive, Before, NewChild, Stop, Stops, NoStop, STOP, TRAP, SYSTRAP, Sig, Loop
<1>1. Places'
  BY DEF send, Places, StopTold, Unborn, Untouched, NotYetThere, InLoop
<1>2. Family'
  BY DEF send, Family, LeaderFirst, Creators, CreatorStopped, ChildThere, ExitedTogether
<1>3. Tested'
  BY DEF send, Tested, InStep, StatusTold, LeftOnlyIfGone
<1>4. Told'
  BY DEF send, Told, Woken, UnseenOnlyIfWoken, NothingOwed, SignalsPassed
<1> QED
  BY <1>1, <1>2, <1>3, <1>4

\* A stop before a signal, in which the signal is remembered.
LEMMA SignalStopKeeps ==
  ASSUME IInv, TypeOK', NEW p \in Pid, signal_stop(p)
  PROVE  IInv'
<1> USE WaitLoopAssumption DEF IInv, TypeOK, kernel, thread, ghost, Running, Traced, Gone,
      Alive, Before, NewChild, Stop, Stops, NoStop, STOP, TRAP, SYSTRAP, Sig, Loop
<1>1. Places'
  BY DEF signal_stop, Stopped, Places, StopTold, Unborn, Untouched, NotYetThere, InLoop
<1>2. Family'
  BY DEF signal_stop, Stopped, Family, LeaderFirst, Creators, CreatorStopped, ChildThere,
      ExitedTogether
<1>3. Tested'
  BY DEF signal_stop, Stopped, Tested, InStep, StatusTold, LeftOnlyIfGone
<1>4. Told'
  BY DEF signal_stop, Stopped, Places, StopTold, Unborn, Untouched, NotYetThere, InLoop, Told,
      Woken, UnseenOnlyIfWoken, NothingOwed, SignalsPassed
<1> QED
  BY <1>1, <1>2, <1>3, <1>4

\* A task stops or halts with its group.
LEMMA GroupStopKeeps ==
  ASSUME IInv, TypeOK', NEW p \in Pid, group_stop(p)
  PROVE  IInv'
<1>1. /\ Running(p)
      /\ \/ tracer[p] # None /\ Stopped(p, Stop("group", STOP, None))
         \/ tracer[p] = None /\ run' = [run EXCEPT ![p] = "halted"] /\ UNCHANGED stop
      /\ UNCHANGED <<in_call, pending, leader, tracer, thread, ghost>>
  BY GroupStop
<1> USE WaitLoopAssumption DEF IInv, TypeOK, kernel, thread, ghost, Running, Traced, Gone,
      Alive, Before, NewChild, Stop, Stops, NoStop, STOP, TRAP, SYSTRAP, Sig, Loop
<1>2. CASE tracer[p] # None
  <2>1. Places'
    <3>1. StopTold'
      BY <1>1, <1>2 DEF Stopped, Places, StopTold
    <3>2. Unborn'
      BY <1>1, <1>2 DEF Stopped, Places, Unborn
    <3>3. Untouched'
      BY <1>1, <1>2 DEF Stopped, Places, Untouched
    <3>4. NotYetThere'
      BY <1>1, <1>2 DEF Stopped, Places, NotYetThere
    <3>5. InLoop'
      BY <1>1, <1>2 DEF Stopped, Places, InLoop
    <3> QED
      BY <3>1, <3>2, <3>3, <3>4, <3>5 DEF Places
  <2>2. Family'
    <3>1. LeaderFirst'
      BY <1>1, <1>2 DEF Stopped, Family, LeaderFirst
    <3>2. Creators'
      BY <1>1, <1>2 DEF Stopped, Family, Creators
    <3>3. CreatorStopped'
      <4>1. \A r, q \in Pid : NewChild(r, q) /\ Alive(r) => r # p
        BY <1>1 DEF Family, CreatorStopped
      <4>2. run' = [run EXCEPT ![p] = "stopped"] /\ tracer' = tracer /\ pc' = pc
        BY <1>1, <1>2 DEF Stopped
      <4>3. \A r \in Pid \ {p} : stop'[r] = stop[r]
        BY <1>1, <1>2 DEF Stopped
      <4> QED
        BY <1>1, <4>1, <4>2, <4>3 DEF Family, CreatorStopped
    <3>4. ChildThere'
      BY <1>1, <1>2 DEF Stopped, Family, ChildThere
    <3>5. ExitedTogether'
      <4>1. run' = [run EXCEPT ![p] = "stopped"] /\ tracer' = tracer /\ pc' = pc
        BY <1>1, <1>2 DEF Stopped
      <4> QED
        BY <1>1, <4>1 DEF Family, ExitedTogether
    <3> QED
      BY <3>1, <3>2, <3>3, <3>4, <3>5 DEF Family
  <2>3. Tested'
    <3>1. InStep'
      BY <1>1, <1>2 DEF Stopped, Tested, InStep
    <3>2. StatusTold'
      BY <1>1, <1>2 DEF Stopped, Tested, StatusTold
    <3>3. LeftOnlyIfGone'
      BY <1>1, <1>2 DEF Stopped, Tested, LeftOnlyIfGone
    <3> QED
      BY <3>1, <3>2, <3>3 DEF Tested
  <2>4. Told'
    BY <1>1, <1>2 DEF Stopped, Places, StopTold, Unborn, Untouched, NotYetThere, InLoop, Told,
        Woken, UnseenOnlyIfWoken, NothingOwed, SignalsPassed
  <2> QED
    BY <2>1, <2>2, <2>3, <2>4
<1>3. CASE tracer[p] = None
  <2>1. Places'
    BY <1>1, <1>3 DEF Stopped, Places, StopTold, Unborn, Untouched, NotYetThere, InLoop
  <2>2. Family'
    <3>1. LeaderFirst'
      BY <1>1, <1>3 DEF Stopped, Family, LeaderFirst
    <3>2. Creators'
      BY <1>1, <1>3 DEF Stopped, Family, Creators
    <3>3. CreatorStopped'
      BY <1>1, <1>3 DEF Stopped, Family, CreatorStopped
    <3>4. ChildThere'
      BY <1>1, <1>3 DEF Stopped, Family, ChildThere
    <3>5. ExitedTogether'
      BY <1>1, <1>3 DEF Stopped, Family, ExitedTogether
    <3> QED
      BY <3>1, <3>2, <3>3, <3>4, <3>5 DEF Family
  <2>3. Tested'
    <3>1. InStep'
      BY <1>1, <1>3 DEF Stopped, Tested, InStep
    <3>2. StatusTold'
      BY <1>1, <1>3 DEF Stopped, Tested, StatusTold
    <3>3. LeftOnlyIfGone'
      BY <1>1, <1>3 DEF Stopped, Tested, LeftOnlyIfGone
    <3> QED
      BY <3>1, <3>2, <3>3 DEF Tested
  <2>4. Told'
    BY <1>1, <1>3 DEF Stopped, Told, Woken, UnseenOnlyIfWoken, NothingOwed, SignalsPassed
  <2> QED
    BY <2>1, <2>2, <2>3, <2>4
<1> QED
  BY <1>1, <1>2, <1>3

\* Signals of a task nobody traces are not counted.
LEMMA SignalUntracedKeeps ==
  ASSUME IInv, TypeOK', NEW p \in Pid, signal_untraced(p)
  PROVE  IInv'
<1> USE WaitLoopAssumption DEF IInv, TypeOK, kernel, thread, ghost, Running, Traced, Gone,
      Alive, Before, NewChild, Stop, Stops, NoStop, STOP, TRAP, SYSTRAP, Sig, Loop
<1>1. Places'
  BY DEF signal_untraced, Places, StopTold, Unborn, Untouched, NotYetThere, InLoop
<1>2. Family'
  BY DEF signal_untraced, Family, LeaderFirst, Creators, CreatorStopped, ChildThere,
      ExitedTogether
<1>3. Tested'
  BY DEF signal_untraced, Tested, InStep, StatusTold, LeftOnlyIfGone
<1>4. Told'
  <2>1. Woken'
    BY DEF signal_untraced, Told, Woken
  <2>2. UnseenOnlyIfWoken'
    BY DEF signal_untraced, Told, UnseenOnlyIfWoken
  <2>3. NothingOwed'
    BY DEF signal_untraced, Told, NothingOwed
  <2>4. SignalsPassed'
    <3>1. owed[p] = {}
      BY WhereRunning, WaitLoopAssumption DEF signal_untraced, Places, Untouched
    <3> QED
      BY <3>1 DEF signal_untraced, Told, SignalsPassed
  <2> QED
    BY <2>1, <2>2, <2>3, <2>4 DEF Told
<1> QED
  BY <1>1, <1>2, <1>3, <1>4

\* SIGCONT wakes tasks that halt: no thread waits for those.
LEMMA ContinueEventKeeps ==
  ASSUME IInv, TypeOK', NEW p \in Pid, continue_event(p)
  PROVE  IInv'
<1> USE WaitLoopAssumption DEF IInv, TypeOK, kernel, thread, ghost, Running, Traced, Gone,
      Alive, Before, NewChild, Stop, Stops, NoStop, STOP, TRAP, SYSTRAP, Sig, Loop
<1>1. Places'
  BY DEF continue_event, Others, Places, StopTold, Unborn, Untouched, NotYetThere, InLoop
<1>2. Family'
  BY DEF continue_event, Others, Family, LeaderFirst, Creators, CreatorStopped, ChildThere,
      ExitedTogether
<1>3. Tested'
  BY DEF continue_event, Others, Tested, InStep, StatusTold, LeftOnlyIfGone
<1>4. Told'
  <2>1. Woken'
    BY DEF continue_event, Others, Told, Woken
  <2>2. UnseenOnlyIfWoken'
    BY DEF continue_event, Others, Told, UnseenOnlyIfWoken
  <2>3. NothingOwed'
    BY DEF continue_event, Others, Told, NothingOwed
  <2>4. SignalsPassed'
    BY DEF continue_event, Others, Told, SignalsPassed
  <2> QED
    BY <2>1, <2>2, <2>3, <2>4 DEF Told
<1> QED
  BY <1>1, <1>2, <1>3, <1>4

\* A thread attaches to its task.
LEMMA AttachKeeps ==
  ASSUME IInv, TypeOK', NEW p \in Pid, attach(p)
  PROVE  IInv'
<1> USE WaitLoopAssumption DEF IInv, TypeOK, kernel, thread, ghost, Running, Traced, Gone,
      Alive, Before, NewChild, Stop, Stops, NoStop, STOP, TRAP, SYSTRAP, Sig, Loop
<1>1. Places'
  <2>1. StopTold'
    BY DEF attach, Goto, Stopped, Places, StopTold
  <2>2. Unborn'
    BY DEF attach, Goto, Stopped, Places, Unborn
  <2>3. Untouched'
    BY DEF attach, Goto, Stopped, Places, Untouched
  <2>4. NotYetThere'
    BY DEF attach, Goto, Stopped, Places, NotYetThere
  <2>5. InLoop'
    BY DEF attach, Goto, Stopped, Places, InLoop
  <2> QED
    BY <2>1, <2>2, <2>3, <2>4, <2>5 DEF Places
<1>2. Family'
  BY DEF attach, Goto, Stopped, Family, LeaderFirst, Creators, CreatorStopped, ChildThere,
      ExitedTogether
<1>3. Tested'
  BY DEF attach, Goto, Stopped, Tested, InStep, StatusTold, LeftOnlyIfGone
<1>4. Told'
  BY DEF attach, Goto, Stopped, Places, StopTold, Unborn, Untouched, NotYetThere, InLoop,
      Told, Woken, UnseenOnlyIfWoken, NothingOwed, SignalsPassed
<1> QED
  BY <1>1, <1>2, <1>3, <1>4

\* A task is restarted for the first time, between syscalls.
LEMMA StartTracerKeeps ==
  ASSUME IInv, TypeOK', NEW p \in Pid, start_tracer(p)
  PROVE  IInv'
<1>1. \/ Alive(p) /\ tracer[p] = p /\ run[p] = "stopped" /\ Restarted(p) /\ UNCHANGED owed
      \/ Gone(p) /\ run' = [run EXCEPT ![p] = "reaped"] /\ UNCHANGED <<stop, owed>>
  BY StartTracer
<1> USE WaitLoopAssumption DEF IInv, TypeOK, kernel, thread, ghost, Running, Traced, Gone,
      Alive, Before, NewChild, Stop, Stops, NoStop, STOP, TRAP, SYSTRAP, Sig, Loop
<1>2. CASE Alive(p)
  <2>1. Places'
    <3>1. StopTold'
      BY <1>1, <1>2 DEF start_tracer, Restarted, Goto, Places, StopTold
    <3>2. Unborn'
      BY <1>1, <1>2 DEF start_tracer, Restarted, Goto, Places, Unborn
    <3>3. Untouched'
      BY <1>1, <1>2 DEF start_tracer, Restarted, Goto, Places, Untouched
    <3>4. NotYetThere'
      BY <1>1, <1>2 DEF start_tracer, Restarted, Goto, Places, NotYetThere
    <3>5. InLoop'
      BY <1>1, <1>2 DEF start_tracer, Restarted, Goto, Places, InLoop
    <3> QED
      BY <3>1, <3>2, <3>3, <3>4, <3>5 DEF Places
  <2>2. Family'
    BY <1>1, <1>2 DEF start_tracer, Restarted, Goto, Family, LeaderFirst, Creators,
        CreatorStopped, ChildThere, ExitedTogether
  <2>3. Tested'
    BY <1>1, <1>2 DEF start_tracer, Restarted, Goto, Places, StopTold, Unborn, Untouched,
        NotYetThere, InLoop, Tested, InStep, StatusTold, LeftOnlyIfGone
  <2>4. Told'
    <3>1. Woken'
      BY <1>1, <1>2 DEF start_tracer, Restarted, Goto, Told, Woken
    <3>2. UnseenOnlyIfWoken'
      BY <1>1, <1>2 DEF start_tracer, Restarted, Goto, Told, UnseenOnlyIfWoken
    <3>3. NothingOwed'
      BY <1>1, <1>2 DEF start_tracer, Restarted, Goto, Told, NothingOwed
    <3>4. SignalsPassed'
      BY <1>1, <1>2 DEF start_tracer, Restarted, Goto, Places, StopTold, Unborn, Untouched,
          NotYetThere, InLoop, Told, SignalsPassed
    <3> QED
      BY <3>1, <3>2, <3>3, <3>4 DEF Told
  <2> QED
    BY <2>1, <2>2, <2>3, <2>4
<1>3. CASE Gone(p)
  <2>1. Places'
    BY <1>1, <1>3 DEF start_tracer, Restarted, Goto, Places, StopTold, Unborn, Untouched,
        NotYetThere, InLoop
  <2>2. Family'
    BY <1>1, <1>3 DEF start_tracer, Restarted, Goto, Places, StopTold, Unborn, Untouched,
        NotYetThere, InLoop, Family, LeaderFirst, Creators, CreatorStopped, ChildThere,
        ExitedTogether
  <2>3. Tested'
    BY <1>1, <1>3 DEF start_tracer, Restarted, Goto, Tested, InStep, StatusTold, LeftOnlyIfGone
  <2>4. Told'
    BY <1>1, <1>3 DEF start_tracer, Restarted, Goto, Told, Woken, UnseenOnlyIfWoken,
        NothingOwed, SignalsPassed
  <2> QED
    BY <2>1, <2>2, <2>3, <2>4
<1> QED
  BY <1>1, <1>2, <1>3

\* A stop is handled or passed.
LEMMA WaitStopKeeps ==
  ASSUME IInv, TypeOK', NEW p \in Pid, wait_stop(p)
  PROVE  IInv'
<1>1. /\ Alive(p) /\ tracer[p] = p /\ run[p] = "stopped" /\ pc[p] = "wait"
      /\ \/ /\ stop[p].kind = "syscall"
            /\ Goto(p, "handler") /\ UNCHANGED <<run, stop, owed>>
         \/ /\ stop[p].kind \in {"exec", "signal", "group"}
            /\ Goto(p, "wait") /\ Restart(p, stop[p].sig)
  BY WaitStop
<1>r. stop[p].kind # "syscall" =>
        /\ Restarted(p)
        /\ owed' = IF stop[p].kind = "signal" /\ stop[p].sig # None
                   THEN [owed EXCEPT ![p] = @ \ ({stop[p].sig} \ pending[p])] ELSE owed
  BY <1>1, RestartAlive
<1> USE WaitLoopAssumption DEF IInv, TypeOK, kernel, thread, ghost, Running, Traced, Gone,
      Alive, Before, NewChild, Stop, Stops, NoStop, STOP, TRAP, SYSTRAP, Sig, Loop
<1>2. CASE stop[p].kind = "syscall"
  <2>1. Places'
    BY <1>1, <1>r, <1>2 DEF wait_stop, Goto, Restarted, Places, StopTold, Unborn, Untouched,
        NotYetThere, InLoop
  <2>2. Family'
    BY <1>1, <1>r, <1>2 DEF wait_stop, Goto, Restarted, Family, LeaderFirst, Creators,
        CreatorStopped, ChildThere, ExitedTogether
  <2>3. Tested'
    BY <1>1, <1>r, <1>2 DEF wait_stop, Goto, Restarted, Tested, InStep, StatusTold,
        LeftOnlyIfGone
  <2>4. Told'
    BY <1>1, <1>r, <1>2 DEF wait_stop, Goto, Restarted, Told, Woken, UnseenOnlyIfWoken,
        NothingOwed, SignalsPassed
  <2> QED
    BY <2>1, <2>2, <2>3, <2>4
<1>3. CASE stop[p].kind # "syscall"
  <2>1. Places'
    <3>1. StopTold'
      BY <1>1, <1>r, <1>3 DEF wait_stop, Goto, Restarted, Places, StopTold
    <3>2. Unborn'
      BY <1>1, <1>r, <1>3 DEF wait_stop, Goto, Restarted, Places, Unborn
    <3>3. Untouched'
      BY <1>1, <1>r, <1>3 DEF wait_stop, Goto, Restarted, Places, Untouched
    <3>4. NotYetThere'
      <4>1. pc[p] = "wait" /\ pc' = pc /\ tracer' = tracer
        BY <1>1, <1>3 DEF wait_stop, Goto
      <4> QED
        BY <4>1, <1>r, <1>3 DEF Restarted, Places, NotYetThere
    <3>5. InLoop'
      BY <1>1, <1>r, <1>3 DEF wait_stop, Goto, Restarted, Places, InLoop
    <3> QED
      BY <3>1, <3>2, <3>3, <3>4, <3>5 DEF Places
  <2>2. Family'
    <3>1. LeaderFirst'
      BY <1>1, <1>r, <1>3 DEF wait_stop, Goto, Restarted, Family, LeaderFirst
    <3>2. Creators'
      BY <1>1, <1>r, <1>3 DEF wait_stop, Goto, Restarted, Family, Creators
    <3>3. CreatorStopped'
      BY <1>1, <1>r, <1>3 DEF wait_stop, Goto, Restarted, Family, CreatorStopped
    <3>4. ChildThere'
      BY <1>1, <1>r, <1>3 DEF wait_stop, Goto, Restarted, Family, ChildThere
    <3>5. ExitedTogether'
      BY <1>1, <1>r, <1>3 DEF wait_stop, Goto, Restarted, Places, StopTold, Unborn, Untouched,
          NotYetThere, InLoop, Family, ExitedTogether
    <3> QED
      BY <3>1, <3>2, <3>3, <3>4, <3>5 DEF Family
  <2>3. Tested'
    <3>1. InStep'
      BY <1>1, <1>r, <1>3 DEF wait_stop, Goto, Restarted, Tested, InStep
    <3>2. StatusTold'
      <4>1. pc' = pc /\ status' = status
        BY <1>1, <1>3 DEF wait_stop, Goto
      <4>2. pc[p] = "wait" /\ run' = [run EXCEPT ![p] = "running"]
        BY <1>1, <1>r, <1>3 DEF Restarted
      <4> QED
        BY <4>1, <4>2 DEF Tested, StatusTold
    <3>3. LeftOnlyIfGone'
      <4>1. pc' = pc
        BY <1>1, <1>3 DEF wait_stop, Goto
      <4>2. pc[p] = "wait" /\ run' = [run EXCEPT ![p] = "running"]
        BY <1>1, <1>r, <1>3 DEF Restarted
      <4> QED
        BY <4>1, <4>2 DEF Tested, LeftOnlyIfGone
    <3> QED
      BY <3>1, <3>2, <3>3 DEF Tested
  <2>4. Told'
    <3>1. Woken'
      BY <1>1, <1>r, <1>3 DEF wait_stop, Goto, Restarted, Told, Woken
    <3>2. UnseenOnlyIfWoken'
      BY <1>1, <1>r, <1>3 DEF wait_stop, Goto, Restarted, Told, UnseenOnlyIfWoken
    <3>3. NothingOwed'
      BY <1>1, <1>r, <1>3 DEF wait_stop, Goto, Restarted, Told, NothingOwed
    <3>4. SignalsPassed'
      <4>1. pending' = pending /\ stop' = [stop EXCEPT ![p] = NoStop]
        BY <1>r, <1>3 DEF wait_stop, Restarted
      <4>2. SUFFICES ASSUME NEW q \in Pid, NEW s \in owed'[q]
                     PROVE  s \in pending[q] \cup (IF stop'[q].kind = "signal" THEN {stop'[q].sig} ELSE {})
        BY <4>1 DEF SignalsPassed
      <4>3. s \in owed[q] /\ s # None
        BY <1>r, <1>3, <4>2
      <4>4. CASE q = p
        <5>1. s \in pending[p] \/ (stop[p].kind = "signal" /\ s = stop[p].sig)
          BY <4>3, <4>4 DEF Told, SignalsPassed
        <5>2. stop[p].kind = "signal" /\ s = stop[p].sig => s \in pending[p]
          BY <1>r, <1>3, <4>2, <4>3, <4>4
        <5> QED
          BY <4>1, <4>4, <5>1, <5>2
      <4>5. CASE q # p
        BY <4>1, <4>3, <4>5 DEF Told, SignalsPassed
      <4> QED
        BY <4>4, <4>5
    <3> QED
      BY <3>1, <3>2, <3>3, <3>4 DEF Told
  <2> QED
    BY <2>1, <2>2, <2>3, <2>4
<1> QED
  BY <1>1, <1>2, <1>3

\* The creator learns its new task.
LEMMA WaitEventKeeps ==
  ASSUME IInv, TypeOK', NEW p \in Pid, wait_event(p)
  PROVE  IInv'
<1> USE WaitLoopAssumption DEF IInv, TypeOK, kernel, thread, ghost, Running, Traced, Gone,
      Alive, Before, NewChild, Stop, Stops, NoStop, STOP, TRAP, SYSTRAP, Sig, Loop
<1>1. Places'
  BY DEF wait_event, Goto, Places, StopTold, Unborn, Untouched, NotYetThere, InLoop
<1>2. Family'
  BY DEF wait_event, Goto, Family, LeaderFirst, Creators, CreatorStopped, ChildThere,
      ExitedTogether
<1>3. Tested'
  BY DEF wait_event, Goto, Tested, InStep, StatusTold, LeftOnlyIfGone
<1>4. Told'
  BY DEF wait_event, Goto, Told, Woken, UnseenOnlyIfWoken, NothingOwed, SignalsPassed
<1> QED
  BY <1>1, <1>2, <1>3, <1>4

\* A thread is told the end of its task.
LEMMA WaitEndKeeps ==
  ASSUME IInv, TypeOK', NEW p \in Pid, wait_end(p)
  PROVE  IInv'
<1> USE WaitLoopAssumption DEF IInv, TypeOK, kernel, thread, ghost, Running, Traced, Gone,
      Alive, Before, NewChild, Stop, Stops, NoStop, STOP, TRAP, SYSTRAP, Sig, Loop
<1>1. Places'
  BY DEF wait_end, Goto, Reportable, Ended, Places, StopTold, Unborn, Untouched, NotYetThere,
      InLoop
<1>2. Family'
  <2>1. LeaderFirst'
    BY DEF wait_end, Goto, Reportable, Ended, Family, LeaderFirst
  <2>2. Creators'
    BY DEF wait_end, Goto, Reportable, Ended, Family, Creators
  <2>3. CreatorStopped'
    BY DEF wait_end, Goto, Reportable, Ended, Family, CreatorStopped
  <2>4. ChildThere'
    BY DEF wait_end, Goto, Reportable, Ended, Family, ChildThere
  <2>5. ExitedTogether'
    BY DEF wait_end, Goto, Reportable, Ended, Family, ExitedTogether
  <2> QED
    BY <2>1, <2>2, <2>3, <2>4, <2>5 DEF Family
<1>3. Tested'
  BY DEF wait_end, Goto, Reportable, Ended, Tested, InStep, StatusTold, LeftOnlyIfGone
<1>4. Told'
  BY DEF wait_end, Goto, Reportable, Ended, Told, Woken, UnseenOnlyIfWoken, NothingOwed,
      SignalsPassed
<1> QED
  BY <1>1, <1>2, <1>3, <1>4

\* The new task gets its thread, and the status of the creator is that of its child.
LEMMA AddChildKeeps ==
  ASSUME IInv, TypeOK', NEW p \in Pid, add_child(p)
  PROVE  IInv'
<1>1. /\ new_child[p] \in Pid /\ NewChild(p, new_child[p])
      /\ \/ /\ run[new_child[p]] = "stopped"
            /\ stop[new_child[p]].kind = "signal"
            /\ status' = [status EXCEPT ![p] = stop[new_child[p]]]
            /\ run' = [run EXCEPT ![new_child[p]] = "halted"]
            /\ stop' = [stop EXCEPT ![new_child[p]] = NoStop]
            /\ tracer' = [tracer EXCEPT ![new_child[p]] = None]
         \/ /\ run[new_child[p]] \in {"exited", "killed"}
            /\ status' = [status EXCEPT ![p] = Ended(run[new_child[p]])]
            /\ run' = [run EXCEPT ![new_child[p]] = "reaped"]
            /\ UNCHANGED <<stop, tracer>>
  BY AddChild
<1> USE WaitLoopAssumption DEF IInv, TypeOK, kernel, thread, ghost, Running, Traced, Gone,
      Alive, Before, NewChild, Stop, Stops, NoStop, STOP, TRAP, SYSTRAP, Sig, Loop
<1>2. CASE run[new_child[p]] = "stopped"
  <2>1. Places'
    <3>1. StopTold'
      BY <1>1, <1>2 DEF add_child, Ended, Places, StopTold
    <3>2. Unborn'
      BY <1>1, <1>2 DEF add_child, Ended, Places, Unborn
    <3>3. Untouched'
      BY <1>1, <1>2 DEF add_child, Ended, Places, Untouched
    <3>4. NotYetThere'
      BY <1>1, <1>2 DEF add_child, Ended, Places, NotYetThere
    <3>5. InLoop'
      BY <1>1, <1>2 DEF add_child, Ended, Places, InLoop
    <3> QED
      BY <3>1, <3>2, <3>3, <3>4, <3>5 DEF Places
  <2>2. Family'
    BY <1>1, <1>2 DEF add_child, Ended, Places, StopTold, Unborn, Untouched, NotYetThere,
        InLoop, Family, LeaderFirst, Creators, CreatorStopped, ChildThere, ExitedTogether
  <2>3. Tested'
    BY <1>1, <1>2 DEF add_child, Ended, Tested, InStep, StatusTold, LeftOnlyIfGone
  <2>4. Told'
    <3>1. Woken'
      BY <1>1, <1>2 DEF add_child, Ended, Told, Woken
    <3>2. UnseenOnlyIfWoken'
      BY <1>1, <1>2 DEF add_child, Ended, Told, UnseenOnlyIfWoken
    <3>3. NothingOwed'
      BY <1>1, <1>2 DEF add_child, Ended, Told, NothingOwed
    <3>4. SignalsPassed'
      <4>1. owed[new_child[p]] = {}
        BY <1>1 DEF Places, Untouched
      <4> QED
        BY <1>1, <1>2, <4>1 DEF add_child, Told, SignalsPassed
    <3> QED
      BY <3>1, <3>2, <3>3, <3>4 DEF Told
  <2> QED
    BY <2>1, <2>2, <2>3, <2>4
<1>3. CASE run[new_child[p]] # "stopped"
  <2>1. Places'
    BY <1>1, <1>3 DEF add_child, Ended, Places, StopTold, Unborn, Untouched, NotYetThere, InLoop
  <2>2. Family'
    BY <1>1, <1>3 DEF add_child, Ended, Family, LeaderFirst, Creators, CreatorStopped,
        ChildThere, ExitedTogether
  <2>3. Tested'
    <3>1. InStep'
      BY <1>1, <1>3 DEF add_child, Ended, Tested, InStep
    <3>2. StatusTold'
      BY <1>1, <1>3 DEF add_child, Ended, Places, StopTold, Unborn, Untouched, NotYetThere,
          InLoop, Family, LeaderFirst, Creators, CreatorStopped, ChildThere, ExitedTogether,
          Tested, InStep, StatusTold, LeftOnlyIfGone
    <3>3. LeftOnlyIfGone'
      BY <1>1, <1>3 DEF add_child, Ended, Tested, LeftOnlyIfGone
    <3> QED
      BY <3>1, <3>2, <3>3 DEF Tested
  <2>4. Told'
    BY <1>1, <1>3 DEF add_child, Ended, Told, Woken, UnseenOnlyIfWoken, NothingOwed,
        SignalsPassed
  <2> QED
    BY <2>1, <2>2, <2>3, <2>4
<1> QED
  BY <1>1, <1>2, <1>3

\* That status is tested.
LEMMA TestsKeeps ==
  ASSUME IInv, TypeOK', NEW p \in Pid, tests(p)
  PROVE  IInv'
<1>1. \/ /\ Alive(p) /\ tracer[p] = p /\ run[p] = "stopped" /\ stop[p].kind = "new"
         /\ Goto(p, "wait") /\ Restarted(p) /\ UNCHANGED owed
      \/ /\ Gone(p)
         /\ Goto(p, "handler") \/ Goto(p, "left") \/ Goto(p, "wait")
         /\ UNCHANGED <<run, stop, owed>>
  BY TestsLater
<1> USE WaitLoopAssumption DEF IInv, TypeOK, kernel, thread, ghost, Running, Traced, Gone,
      Alive, Before, NewChild, Stop, Stops, NoStop, STOP, TRAP, SYSTRAP, Sig, Loop
<1>2. CASE Alive(p)
  <2>1. Places'
    <3>1. StopTold'
      BY <1>1, <1>2 DEF tests, Restarted, Goto, Places, StopTold
    <3>2. Unborn'
      BY <1>1, <1>2 DEF tests, Restarted, Goto, Places, Unborn
    <3>3. Untouched'
      BY <1>1, <1>2 DEF tests, Restarted, Goto, Places, Untouched
    <3>4. NotYetThere'
      <4>1. pc[p] = "tests" /\ pc' = [pc EXCEPT ![p] = "wait"] /\ tracer' = tracer
        BY <1>1, <1>2 DEF tests, Goto
      <4> QED
        BY <4>1, <1>1, <1>2 DEF Restarted, Places, NotYetThere
    <3>5. InLoop'
      BY <1>1, <1>2 DEF tests, Restarted, Goto, Places, InLoop
    <3> QED
      BY <3>1, <3>2, <3>3, <3>4, <3>5 DEF Places
  <2>2. Family'
    <3>1. LeaderFirst'
      BY <1>1, <1>2 DEF tests, Restarted, Goto, Family, LeaderFirst
    <3>2. Creators'
      BY <1>1, <1>2 DEF tests, Restarted, Goto, Family, Creators
    <3>3. CreatorStopped'
      <4>1. pc[p] = "tests" /\ pc' = [pc EXCEPT ![p] = "wait"] /\ tracer' = tracer
        BY <1>1, <1>2 DEF tests, Goto
      <4>2. run' = [run EXCEPT ![p] = "running"] /\ stop' = [stop EXCEPT ![p] = NoStop]
        BY <1>1, <1>2 DEF Restarted
      <4>3. SUFFICES ASSUME NEW r \in Pid, NEW q \in Pid, NewChild(r, q)', Alive(r)'
                     PROVE  /\ run'[r] = "stopped" /\ stop'[r].kind = "new" /\ stop'[r].new = q
                            /\ pc'[r] \in {"wait", "child"}
        BY DEF CreatorStopped
      <4>4. NewChild(r, q) /\ Alive(r)
        BY <1>2, <4>1, <4>2, <4>3
      <4>5. r # p
        BY <4>1, <4>4 DEF Family, CreatorStopped
      <4> QED
        BY <4>1, <4>2, <4>4, <4>5 DEF Family, CreatorStopped
    <3>4. ChildThere'
      BY <1>1, <1>2 DEF tests, Restarted, Goto, Family, ChildThere
    <3>5. ExitedTogether'
      BY <1>1, <1>2 DEF tests, Restarted, Goto, Family, ExitedTogether
    <3> QED
      BY <3>1, <3>2, <3>3, <3>4, <3>5 DEF Family
  <2>3. Tested'
    <3>1. InStep'
      BY <1>1, <1>2 DEF tests, Restarted, Goto, Tested, InStep
    <3>2. StatusTold'
      BY <1>1, <1>2 DEF tests, Restarted, Goto, Tested, StatusTold
    <3>3. LeftOnlyIfGone'
      BY <1>1, <1>2 DEF tests, Restarted, Goto, Tested, LeftOnlyIfGone
    <3> QED
      BY <3>1, <3>2, <3>3 DEF Tested
  <2>4. Told'
    <3>1. Woken'
      BY <1>1, <1>2 DEF tests, Restarted, Goto, Told, Woken
    <3>2. UnseenOnlyIfWoken'
      BY <1>1, <1>2 DEF tests, Restarted, Goto, Told, UnseenOnlyIfWoken
    <3>3. NothingOwed'
      BY <1>1, <1>2 DEF tests, Restarted, Goto, Told, NothingOwed
    <3>4. SignalsPassed'
      BY <1>1, <1>2 DEF tests, Restarted, Goto, Told, SignalsPassed
    <3> QED
      BY <3>1, <3>2, <3>3, <3>4 DEF Told
  <2> QED
    BY <2>1, <2>2, <2>3, <2>4
<1>3. CASE Gone(p)
  <2>1. Places'
    BY <1>1, <1>3 DEF tests, Restarted, Goto, Places, StopTold, Unborn, Untouched,
        NotYetThere, InLoop
  <2>2. Family'
    <3>1. LeaderFirst'
      BY <1>1, <1>3 DEF tests, Restarted, Goto, Family, LeaderFirst
    <3>2. Creators'
      BY <1>1, <1>3 DEF tests, Restarted, Goto, Family, Creators
    <3>3. CreatorStopped'
      BY <1>1, <1>3 DEF tests, Restarted, Goto, Family, CreatorStopped
    <3>4. ChildThere'
      BY <1>1, <1>3 DEF tests, Restarted, Goto, Places, StopTold, Unborn, Untouched,
          NotYetThere, InLoop, Family, ChildThere
    <3>5. ExitedTogether'
      BY <1>1, <1>3 DEF tests, Restarted, Goto, Family, ExitedTogether
    <3> QED
      BY <3>1, <3>2, <3>3, <3>4, <3>5 DEF Family
  <2>3. Tested'
    BY <1>1, <1>3 DEF tests, Restarted, Goto, Tested, InStep, StatusTold, LeftOnlyIfGone
  <2>4. Told'
    BY <1>1, <1>3 DEF tests, Restarted, Goto, Told, Woken, UnseenOnlyIfWoken, NothingOwed,
        SignalsPassed
  <2> QED
    BY <2>1, <2>2, <2>3, <2>4
<1> QED
  BY <1>1, <1>2, <1>3

\* A handler runs and turn changes.
LEMMA HandlerKeeps ==
  ASSUME IInv, TypeOK', NEW p \in Pid, handler(p)
  PROVE  IInv'
<1>1. \/ /\ Alive(p) /\ tracer[p] = p /\ run[p] = "stopped" /\ stop[p].kind = "syscall"
         /\ Restarted(p) /\ UNCHANGED owed
      \/ Gone(p) /\ UNCHANGED <<run, stop, owed>>
  BY HandlerLater
<1> USE WaitLoopAssumption DEF IInv, TypeOK, kernel, thread, ghost, Running, Traced, Gone,
      Alive, Before, NewChild, Stop, Stops, NoStop, STOP, TRAP, SYSTRAP, Sig, Loop
<1>2. CASE Alive(p)
  <2>1. Places'
    <3>1. StopTold'
      BY <1>1, <1>2 DEF handler, Restarted, Goto, Places, StopTold
    <3>2. Unborn'
      BY <1>1, <1>2 DEF handler, Restarted, Goto, Places, Unborn
    <3>3. Untouched'
      BY <1>1, <1>2 DEF handler, Restarted, Goto, Places, Untouched
    <3>4. NotYetThere'
      BY <1>1, <1>2 DEF handler, Restarted, Goto, Places, NotYetThere
    <3>5. InLoop'
      BY <1>1, <1>2 DEF handler, Restarted, Goto, Places, InLoop
    <3> QED
      BY <3>1, <3>2, <3>3, <3>4, <3>5 DEF Places
  <2>2. Family'
    BY <1>1, <1>2 DEF handler, Restarted, Goto, Family, LeaderFirst, Creators, CreatorStopped,
        ChildThere, ExitedTogether
  <2>3. Tested'
    BY <1>1, <1>2 DEF handler, Restarted, Goto, Tested, InStep, StatusTold, LeftOnlyIfGone
  <2>4. Told'
    BY <1>1, <1>2 DEF handler, Restarted, Goto, Told, Woken, UnseenOnlyIfWoken, NothingOwed,
        SignalsPassed
  <2> QED
    BY <2>1, <2>2, <2>3, <2>4
<1>3. CASE Gone(p)
  <2>1. Places'
    BY <1>1, <1>3 DEF handler, Restarted, Goto, Places, StopTold, Unborn, Untouched,
        NotYetThere, InLoop
  <2>2. Family'
    BY <1>1, <1>3 DEF handler, Restarted, Goto, Places, StopTold, Unborn, Untouched,
        NotYetThere, InLoop, Family, LeaderFirst, Creators, CreatorStopped, ChildThere,
        ExitedTogether
  <2>3. Tested'
    BY <1>1, <1>3 DEF handler, Restarted, Goto, Tested, InStep, StatusTold, LeftOnlyIfGone
  <2>4. Told'
    BY <1>1, <1>3 DEF handler, Restarted, Goto, Told, Woken, UnseenOnlyIfWoken, NothingOwed,
        SignalsPassed
  <2> QED
    BY <2>1, <2>2, <2>3, <2>4
<1> QED
  BY <1>1, <1>2, <1>3

\* The tasks a thread leaves behind are reaped.
LEMMA ThreadEndKeeps ==
  ASSUME IInv, TypeOK', NEW p \in Pid, thread_end(p)
  PROVE  IInv'
<1> USE WaitLoopAssumption DEF IInv, TypeOK, kernel, thread, ghost, Running, Traced, Gone,
      Alive, Before, NewChild, Stop, Stops, NoStop, STOP, TRAP, SYSTRAP, Sig, Loop
<1>1. Places'
  BY DEF thread_end, Goto, Clear, Places, StopTold, Unborn, Untouched, NotYetThere, InLoop
<1>2. Family'
  BY DEF thread_end, Goto, Clear, Family, LeaderFirst, Creators, CreatorStopped, ChildThere,
      ExitedTogether
<1>3. Tested'
  BY DEF thread_end, Goto, Clear, Tested, InStep, StatusTold, LeftOnlyIfGone
<1>4. Told'
  BY DEF thread_end, Goto, Clear, Told, Woken, UnseenOnlyIfWoken, NothingOwed, SignalsPassed
<1> QED
  BY <1>1, <1>2, <1>3, <1>4

-----------------------------------------------------------------------------
(* The invariant and what follows from it.                                 *)

\* At the start there is the first task, stopped by itself.
LEMMA InitInvariant == Init => IInv
<1> SUFFICES ASSUME Init PROVE IInv
  OBVIOUS
<1> USE WaitLoopAssumption DEF Init, NoStop, Stop, STOP, TRAP, SYSTRAP, Gone, Alive, Loop, Before
<1>1. TypeOK
  <2>1. Stop("signal", STOP, None) \in Status
    BY StatusMade DEF Sig
  <2> QED
    BY <2>1, StatusMade DEF TypeOK, Garbage
<1>2. Places
  BY DEF Places, StopTold, Stops, Unborn, Untouched, NotYetThere, InLoop
<1>3. Family
  BY DEF Family, LeaderFirst, Creators, CreatorStopped, ChildThere, ExitedTogether, NewChild
<1>4. Tested
  BY DEF Tested, InStep, StatusTold, LeftOnlyIfGone
<1>5. Told
  BY DEF Told, Woken, UnseenOnlyIfWoken, NothingOwed, SignalsPassed, Running
<1> QED
  BY <1>1, <1>2, <1>3, <1>4, <1>5 DEF IInv

\* Every action keeps it.
LEMMA StepInvariant == IInv /\ [Next]_vars => IInv'
<1> SUFFICES ASSUME IInv, [Next]_vars PROVE IInv'
  OBVIOUS
<1>1. ASSUME NEW p \in Pid, Environment(p) PROVE IInv'
  <2>1. TypeOK'
    BY <1>1, TypeEnvironment
  <2> QED
    BY <1>1, <2>1, EnterKeeps, LeaveKeeps, CallUnseenKeeps, SpawnKeeps, ExitKeeps,
        ExitGroupKeeps, ExecBeginKeeps, ExecStopKeeps, KillEventKeeps, SendKeeps,
        SignalStopKeeps, GroupStopKeeps, SignalUntracedKeeps, ContinueEventKeeps DEF
        Environment
<1>2. ASSUME NEW p \in Pid, Thread(p) PROVE IInv'
  <2>1. TypeOK'
    BY <1>2, TypeThread
  <2> QED
    BY <1>2, <2>1, AttachKeeps, StartTracerKeeps, WaitStopKeeps, WaitEventKeeps, WaitEndKeeps,
        AddChildKeeps, TestsKeeps, HandlerKeeps, ThreadEndKeeps DEF Thread
<1>3. ASSUME UNCHANGED vars PROVE IInv'
  <2>1. TypeOK'
    BY <1>3 DEF IInv, TypeOK, vars, kernel, thread, ghost
  <2>2. Places' /\ Told'
    BY <1>3 DEF IInv, vars, kernel, thread, ghost, Gone, Alive, Running, Places, StopTold,
        Unborn,
        Untouched, NotYetThere, InLoop, Told, Woken, UnseenOnlyIfWoken, NothingOwed, SignalsPassed
  <2>3. Family' /\ Tested'
    BY <1>3 DEF IInv, vars, kernel, thread, ghost, Gone, Alive, NewChild, Family, LeaderFirst,
        Creators, CreatorStopped, ChildThere, ExitedTogether, Tested, InStep, StatusTold,
        LeftOnlyIfGone
  <2> QED
    BY <2>1, <2>2, <2>3 DEF IInv
<1> QED
  BY <1>1, <1>2, <1>3 DEF Next

\* The invariant holds of every reachable state of wait_for_syscall and the
\* tasks it waits for.
THEOREM Invariance == Spec => []IInv
BY InitInvariant, StepInvariant, PTL DEF Spec

\* Every variable keeps its type.
THEOREM TypeCorrect == Spec => []TypeOK
<1>1. IInv => TypeOK
  BY DEF IInv
<1> QED
  BY Invariance, <1>1, PTL

\* handle_syscall_call runs at the entry of a syscall and handle_syscall_return
\* at its exit, although start_tracer only counts the stops it is told.
THEOREM HandledInStep == Spec => []HandlersInStep
<1>1. IInv => HandlersInStep
  BY DEF IInv, Places, InLoop, Loop, Tested, InStep, HandlersInStep
<1> QED
  BY Invariance, <1>1, PTL

\* Between PTRACE_DETACH and PTRACE_ATTACH a task makes no syscall, unless
\* SIGCONT woke it.
THEOREM NoneUnseen == Spec => []UnseenOnlyIfWoken
<1>1. IInv => UnseenOnlyIfWoken
  BY DEF IInv, Told
<1> QED
  BY Invariance, <1>1, PTL

\* A signal that a task stopped for is passed on by the next PTRACE_SYSCALL.
THEOREM NoSignalLost == Spec => []SignalsPassed
<1>1. IInv => SignalsPassed
  BY DEF IInv, Told
<1> QED
  BY Invariance, <1>1, PTL

\* No thread leaves wait_for_syscall while its task lives, though the status
\* it tests may be that of a new task.
THEOREM NeverLeftAlive == Spec => []LeftOnlyIfGone
<1>1. IInv => LeftOnlyIfGone
  BY DEF IInv, Tested
<1> QED
  BY Invariance, <1>1, PTL

=============================================================================
