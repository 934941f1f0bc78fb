------------------------ MODULE TracersReportProof ------------------------
(***************************************************************************)
(* Proof that main waits for every thread and that the report is complete, *)
(* and the theorems about Tracers.                                         *)
(***************************************************************************)
EXTENDS TracersMemoryProof

LEMMA ActiveFinite ==
  /\ IsFiniteSet(Active)
  /\ Cardinality(Active) \in Nat
  /\ Cardinality(Active) = 0 <=> Active = {}
<1>1. IsFiniteSet(Active)
  BY FS_Subset, TracersAssumption DEF Active
<1> QED
  BY <1>1, FS_CardinalityType, FS_EmptySet

LEMMA ReportInit == Init => Report
<1> SUFFICES ASSUME Init PROVE Report
  OBVIOUS
<1> USE TracersAssumption DEF Init
<1>1. ActiveExact
  <2>1. Active = {}
    BY DEF Active, Over
  <2> QED
    BY <2>1, FS_EmptySet DEF ActiveExact
<1>2. Listed
  BY DEF Listed
<1>3. Merged
  BY DEF Merged, SysMergedPCs, FileMergedPCs
<1>4. JoinedBeforePrint /\ Reported
  BY DEF JoinedBeforePrint, Reported
<1> QED
  BY <1>1, <1>2, <1>3, <1>4 DEF Report

\* A thread that goes on, neither starting nor ending nor listing another.
LEMMA ReportGoto ==
  ASSUME TypeInt, Report, NEW p \in Pid, NEW l, pc' = [pc EXCEPT ![p] = l],
         pc[p] \notin Over \cup {"list", "poll", "join", "print", "exited"},
         l \notin Over \cup {"join", "print", "exited"},
         UNCHANGED <<active_threads, threads, report>>,
         \A q \in Pid \ {p} : child'[q] = child[q],
         Merged'
  PROVE  Report'
<1> USE TracersAssumption DEF Report
<1>1. pc'[p] = l /\ \A q \in Pid \ {p} : pc'[q] = pc[q]
  BY DEF TypeInt
<1>2. ActiveExact'
  <2>1. Active' = Active
    BY <1>1 DEF Active
  <2> QED
    BY <2>1 DEF ActiveExact
<1>3. Listed'
  BY <1>1 DEF Listed, Over
<1>4. JoinedBeforePrint'
  BY <1>1 DEF JoinedBeforePrint, Over
<1>5. Reported'
  BY <1>1 DEF Reported
<1> QED
  BY <1>2, <1>3, <1>4, <1>5

\* Steps after which the same is merged as before.
LEMMA MergedGoto ==
  ASSUME TypeInt, Report, NEW p \in Pid, NEW l, pc' = [pc EXCEPT ![p] = l],
         UNCHANGED <<main_file_stat_table, main_syscall_table, stats>>,
         pc[p] \in FileMergedPCs <=> l \in FileMergedPCs,
         pc[p] \in SysMergedPCs <=> l \in SysMergedPCs,
         l \notin {"none", "attach"}
  PROVE  Merged'
<1>1. pc'[p] = l /\ \A q \in Pid \ {p} : pc'[q] = pc[q]
  BY DEF TypeInt
<1> QED
  BY <1>1 DEF Report, Merged

LEMMA ReportStay ==
  ASSUME Report, UNCHANGED <<pc, child, active_threads, threads, report>>, Merged'
  PROVE  Report'
<1> USE DEF Report
<1>1. Active' = Active
  BY DEF Active
<1> QED
  BY <1>1 DEF ActiveExact, Listed, JoinedBeforePrint, Reported

\* While a thread handles syscalls there is no report.
LEMMA NoReportYet ==
  ASSUME Report, NEW p \in Pid, pc[p] \notin Over \cup {"join", "print", "exited"}
  PROVE  report = None
BY DEF Report, Reported, JoinedBeforePrint, Over

LEMMA ReportEnvironment ==
  ASSUME TypeInt, Report, NEW p \in Pid, Environment(p)
  PROVE  Report'
<1> USE DEF Over, FileMergedPCs, SysMergedPCs, tables
<1>1. ASSUME NEW q, NEW files, NEW bit, Spawned(p, q, files, bit)
      PROVE  Report'
  <2>1. pc[p] = "wait" /\ pc' = [pc EXCEPT ![p] = "add"]
    BY <1>1 DEF Spawned, Goto
  <2>2. \A r \in Pid \ {p} : child'[r] = child[r]
    BY <1>1 DEF Spawned, TypeInt
  <2>3. Merged'
    BY <1>1, <2>1, MergedGoto, ZenonT(30) DEF Spawned
  <2> QED
    BY <1>1, <2>1, <2>2, <2>3, ReportGoto DEF Spawned
<1>2. CASE \E q \in Pid : clone_event(p, q) \/ fork_event(p, q)
  BY <1>1, <1>2 DEF clone_event, fork_event
<1>3. CASE exit_event(p) \/ kill_event(p) \/ open_abort(p)
  <2>1. Merged'
    BY <1>3 DEF exit_event, kill_event, open_abort, Report, Merged
  <2> QED
    BY <1>3, <2>1, ReportStay DEF exit_event, kill_event, open_abort
<1>4. ASSUME UNCHANGED <<main_file_stat_table, main_syscall_table>>, pc[p] = "wait",
             \A q \in Pid \ {p} : stats'[q] = stats[q] /\ pc'[q] = pc[q],
             pc'[p] \in {"wait", "exec_copy"}
      PROVE  Merged'
  BY <1>4 DEF Report, Merged
<1>5. CASE file_call(p)
  <2>1. Merged'
    BY <1>4, <1>5 DEF file_call, AtReturn, TypeInt
  <2> QED
    BY <1>5, <2>1, ReportStay DEF file_call
<1>6. CASE handle_unconsidered_return(p)
  <2>1. Merged'
    BY <1>4, <1>6 DEF handle_unconsidered_return, AtReturn, TypeInt
  <2> QED
    BY <1>6, <2>1, ReportStay DEF handle_unconsidered_return
<1>7. CASE handle_execve_return(p)
  <2>1. PICK l \in {"wait", "exec_copy"} : pc' = [pc EXCEPT ![p] = l]
    BY <1>7 DEF handle_execve_return, Goto
  <2>2. Merged'
    BY <1>4, <1>7, <2>1 DEF handle_execve_return, AtReturn, TypeInt
  <2> QED
    BY <1>7, <2>1, <2>2, ReportGoto DEF handle_execve_return, AtReturn
<1> QED
  BY <1>2, <1>3, <1>5, <1>6, <1>7 DEF Environment

LEMMA ReportAdd ==
  ASSUME TypeInt, Control, Report, NEW p \in Pid, threads_add(p)
  PROVE  Report'
<1> USE TracersAssumption DEF Report
<1>1. PICK q \in Pid \ {p} : /\ q = child[p].pid /\ pc[q] = "none"
                             /\ pc'[p] = "list" /\ pc'[q] = "attach"
                             /\ \A x \in Pid \ {p, q} : pc'[x] = pc[x]
  BY AddEffect
<1>2. /\ pc[p] = "add" /\ active_threads' = active_threads + 1
      /\ UNCHANGED <<child, threads, stats, main_file_stat_table, main_syscall_table, report>>
  BY DEF threads_add, tables
<1>3. q # Root
  BY <1>1 DEF Control, Places
<1>4. ActiveExact'
  <2>1. Active' = Active \cup {q} /\ q \notin Active
    BY <1>1, <1>2, <1>3 DEF Active, Over
  <2>2. Cardinality(Active') = Cardinality(Active) + 1
    BY <2>1, ActiveFinite, FS_AddElement
  <2> QED
    BY <2>2, <1>2 DEF ActiveExact
<1>5. Listed'
  BY <1>1, <1>2 DEF Listed
<1>6. Merged'
  BY <1>1, <1>2 DEF Merged, FileMergedPCs, SysMergedPCs
<1>7. /\ pc[Root] \notin {"join", "print", "exited"}
      /\ pc'[Root] \notin {"join", "print", "exited"}
  BY <1>1, <1>2, <1>3 DEF JoinedBeforePrint
<1>8. JoinedBeforePrint' /\ Reported'
  BY <1>2, <1>7 DEF JoinedBeforePrint, Reported
<1> QED
  BY <1>4, <1>5, <1>6, <1>8

LEMMA ReportPrepend ==
  ASSUME TypeInt, Control, Report, NEW p \in Pid, threads_prepend(p)
  PROVE  Report'
<1> USE TracersAssumption DEF Report
<1>1. /\ pc[p] = "list" /\ pc' = [pc EXCEPT ![p] = "wait"]
      /\ threads' = threads \cup {child[p].pid}
      /\ child' = [child EXCEPT ![p] = NoChild]
      /\ UNCHANGED <<active_threads, stats, main_file_stat_table, main_syscall_table, report>>
  BY DEF threads_prepend, Goto, tables
<1>2. /\ pc'[p] = "wait" /\ \A q \in Pid \ {p} : pc'[q] = pc[q] /\ child'[q] = child[q]
  BY <1>1 DEF TypeInt
<1>3. ActiveExact'
  <2>1. Active' = Active
    BY <1>1, <1>2 DEF Active, Over
  <2> QED
    BY <1>1, <2>1 DEF ActiveExact
<1>4. Listed'
  <2>1. ASSUME NEW q \in Pid \ {Root}, pc'[q] # "none"
        PROVE  q \in threads' \/ \E r \in Pid : pc'[r] = "list" /\ child'[r].pid = q
    <3>1. q \in threads \/ \E r \in Pid : pc[r] = "list" /\ child[r].pid = q
      BY <1>1, <1>2, <2>1 DEF Listed
    <3>2. ASSUME NEW r \in Pid, pc[r] = "list", child[r].pid = q
          PROVE  q \in threads' \/ (pc'[r] = "list" /\ child'[r].pid = q)
      BY <1>1, <1>2, <3>2
    <3> QED
      BY <3>1, <3>2, <1>1
  <2> QED
    BY <2>1 DEF Listed
<1>5. Merged'
  <2>1. /\ pc[p] \in FileMergedPCs <=> "wait" \in FileMergedPCs
        /\ pc[p] \in SysMergedPCs <=> "wait" \in SysMergedPCs
    BY <1>1 DEF FileMergedPCs, SysMergedPCs
  <2>2. UNCHANGED <<main_file_stat_table, main_syscall_table, stats>>
    BY <1>1
  <2> QED
    BY <1>1, <2>1, <2>2, MergedGoto, ZenonT(30)
<1>6. /\ pc[Root] \notin {"join", "print", "exited"}
      /\ pc'[Root] \notin {"join", "print", "exited"}
  BY <1>1, <1>2 DEF JoinedBeforePrint
<1>7. JoinedBeforePrint' /\ Reported'
  BY <1>1, <1>6 DEF JoinedBeforePrint, Reported
<1> QED
  BY <1>3, <1>4, <1>5, <1>7

LEMMA ReportMerge ==
  ASSUME TypeInt, Report, NEW p \in Pid, file_state_merge(p) \/ syscall_stat_merge(p)
  PROVE  Report'
<1> USE DEF Over, FileMergedPCs, SysMergedPCs
<1>1. CASE file_state_merge(p)
  <2>1. /\ pc[p] = "merge_file" /\ pc' = [pc EXCEPT ![p] = "merge_sys"]
        /\ main_file_stat_table' = [main_file_stat_table EXCEPT ![p] = @ + stats[p].file]
        /\ UNCHANGED <<child, active_threads, threads, stats, main_syscall_table, report>>
    BY <1>1 DEF file_state_merge, Goto
  <2>2. main_file_stat_table'[p] = stats[p].file
    <3>1. main_file_stat_table[p] = 0 /\ stats[p].file \in Nat
      BY <2>1 DEF Report, Merged, TypeInt
    <3>2. main_file_stat_table'[p] = main_file_stat_table[p] + stats[p].file
      BY <2>1 DEF TypeInt
    <3> QED
      BY <3>1, <3>2
  <2>3. \A q \in Pid \ {p} : /\ pc'[q] = pc[q]
                             /\ main_file_stat_table'[q] = main_file_stat_table[q]
    BY <2>1 DEF TypeInt
  <2>4. pc'[p] = "merge_sys"
    BY <2>1 DEF TypeInt
  <2>5. Merged'
    BY <2>1, <2>2, <2>3, <2>4 DEF Report, Merged
  <2> QED
    BY <2>1, <2>5, ReportGoto
<1>2. CASE syscall_stat_merge(p)
  <2>1. /\ pc[p] = "merge_sys" /\ pc' = [pc EXCEPT ![p] = "remove"]
        /\ main_syscall_table' = [main_syscall_table EXCEPT ![p] = @ + stats[p].sys]
        /\ UNCHANGED <<child, active_threads, threads, stats, main_file_stat_table, report>>
    BY <1>2 DEF syscall_stat_merge, Goto
  <2>2. main_syscall_table'[p] = stats[p].sys
    <3>1. main_syscall_table[p] = 0 /\ stats[p].sys \in Nat
      BY <2>1 DEF Report, Merged, TypeInt
    <3>2. main_syscall_table'[p] = main_syscall_table[p] + stats[p].sys
      BY <2>1 DEF TypeInt
    <3> QED
      BY <3>1, <3>2
  <2>3. \A q \in Pid \ {p} : /\ pc'[q] = pc[q]
                             /\ main_syscall_table'[q] = main_syscall_table[q]
    BY <2>1 DEF TypeInt
  <2>4. pc'[p] = "remove"
    BY <2>1 DEF TypeInt
  <2>5. Merged'
    BY <2>1, <2>2, <2>3, <2>4 DEF Report, Merged
  <2> QED
    BY <2>1, <2>5, ReportGoto
<1> QED
  BY <1>1, <1>2

LEMMA ReportEnd ==
  ASSUME TypeInt, Control, Report, NEW p \in Pid,
         thread_func_dec(p) \/ thread_func_return(p)
  PROVE  Report'
<1> USE TracersAssumption DEF Report
<1>1. p # Root
  BY DEF Control, Places, thread_func_dec, thread_func_return
<1>2. PICK l \in {"returning", "ended"} :
        /\ pc' = [pc EXCEPT ![p] = l]
        /\ pc[p] = IF l = "returning" THEN "finish" ELSE "returning"
        /\ active_threads' = IF l = "returning" THEN active_threads - 1 ELSE active_threads
        /\ UNCHANGED <<child, threads, stats, main_file_stat_table, main_syscall_table, report>>
  BY DEF thread_func_dec, thread_func_return, Goto, tables
<1>3. pc'[p] = l /\ \A q \in Pid \ {p} : pc'[q] = pc[q]
  BY <1>2 DEF TypeInt
<1>4. ActiveExact'
  <2>1. CASE l = "returning"
    <3>1. Active' = Active \ {p} /\ p \in Active
      BY <1>1, <1>2, <1>3, <2>1 DEF Active, Over
    <3>2. Cardinality(Active') = Cardinality(Active) - 1
      BY <3>1, ActiveFinite, FS_RemoveElement
    <3> QED
      BY <3>2, <1>2, <2>1 DEF ActiveExact
  <2>2. CASE l = "ended"
    <3>1. Active' = Active
      BY <1>1, <1>2, <1>3, <2>2 DEF Active, Over
    <3> QED
      BY <3>1, <1>2, <2>2 DEF ActiveExact
  <2> QED
    BY <2>1, <2>2
<1>5. Listed'
  BY <1>2, <1>3 DEF Listed
<1>6. Merged'
  BY <1>2, MergedGoto DEF FileMergedPCs, SysMergedPCs
<1>7. JoinedBeforePrint' /\ Reported'
  BY <1>1, <1>2, <1>3 DEF JoinedBeforePrint, Reported
<1> QED
  BY <1>4, <1>5, <1>6, <1>7

LEMMA ReportThread ==
  ASSUME TypeInt, Control, Report, NEW p \in Pid, Thread(p)
  PROVE  Report'
<1> USE DEF Over, FileMergedPCs, SysMergedPCs, tables, Goto
<1>1. CASE exec_copy(p)
  <2>1. /\ pc[p] = "exec_copy" /\ pc' = [pc EXCEPT ![p] = "exec_release"]
        /\ UNCHANGED <<child, active_threads, threads, stats, tables>>
    BY <1>1 DEF exec_copy
  <2>2. Merged'
    BY <2>1, MergedGoto, ZenonT(30)
  <2> QED
    BY <2>1, <2>2, ReportGoto
<1>0. CASE exec_reuse(p) \/ exec_new(p)
  <2>1. /\ pc[p] \in {"exec_reuse", "exec_new"} /\ pc' = [pc EXCEPT ![p] = "wait"]
        /\ UNCHANGED <<child, active_threads, threads, stats, tables>>
    BY <1>0 DEF exec_reuse, exec_new, Adopt
  <2>2. Merged'
    BY <2>1, MergedGoto, ZenonT(30)
  <2> QED
    BY <2>1, <2>2, ReportGoto
<1>2. CASE exec_release(p)
  BY <1>2, MergedGoto, ReportGoto DEF exec_release
<1>3. CASE threads_add(p) \/ threads_prepend(p)
  BY <1>3, ReportAdd, ReportPrepend
<1>4. CASE thread_tmps_insert(p)
  BY <1>4, MergedGoto, ReportGoto DEF thread_tmps_insert
<1>5. CASE insert_dangling(p)
  <2>1. Merged'
    BY <1>5 DEF insert_dangling, Report, Merged
  <2> QED
    BY <1>5, <2>1, ReportStay DEF insert_dangling
<1>6. CASE wait_exited(p) \/ wait_signaled(p) \/ wait_uninitialised(p)
  BY <1>6, MergedGoto, ReportGoto DEF wait_exited, wait_signaled, wait_uninitialised
<1>7. CASE file_state_merge(p) \/ syscall_stat_merge(p)
  BY <1>7, ReportMerge
<1>8. CASE thread_tmps_remove(p)
  <2>1. PICK l \in {"poll", "finish"} : pc' = [pc EXCEPT ![p] = l]
    BY <1>8 DEF thread_tmps_remove
  <2>2. Merged'
    BY <1>8, <2>1, MergedGoto DEF thread_tmps_remove
  <2> QED
    BY <1>8, <2>1, <2>2, ReportGoto DEF thread_tmps_remove
<1>9. CASE thread_func_dec(p) \/ thread_func_return(p)
  BY <1>9, ReportEnd
<1> QED
  BY <1>0, <1>1, <1>2, <1>3, <1>4, <1>5, <1>6, <1>7, <1>8, <1>9 DEF Thread

LEMMA ReportMain ==
  ASSUME TypeInt, Control, Report, Main
  PROVE  Report'
<1> USE TracersAssumption DEF Report
<1>1. PICK l \in {"join", "print", "exited"} :
        /\ pc' = [pc EXCEPT ![Root] = l]
        /\ pc[Root] = CASE l = "join" -> "poll" [] l = "print" -> "join" [] l = "exited" -> "print"
        /\ l = "join" => active_threads = 0
        /\ l = "print" => \A q \in threads : pc[q] = "ended"
        /\ l = "exited" => report' = [p \in Pid |-> [file |-> main_file_stat_table[p],
                                                     sys |-> main_syscall_table[p]]]
        /\ l # "exited" => report' = report
        /\ UNCHANGED <<child, active_threads, threads, stats,
                       main_file_stat_table, main_syscall_table>>
  BY DEF Main, main_poll, main_join, main_print, Goto, tables
<1>2. pc'[Root] = l /\ \A q \in Pid \ {Root} : pc'[q] = pc[q]
  BY <1>1 DEF TypeInt
<1>3. ActiveExact'
  <2>1. Active' = Active
    BY <1>2 DEF Active
  <2> QED
    BY <1>1, <2>1 DEF ActiveExact
<1>4. Listed'
  BY <1>1, <1>2 DEF Listed
<1>5. Merged'
  BY <1>1, MergedGoto DEF FileMergedPCs, SysMergedPCs
<1>6. \A q \in Pid \ {Root} : pc[q] \in Over
  <2>1. CASE l = "join"
    <3>1. Active = {}
      BY <1>1, <2>1, ActiveFinite DEF ActiveExact
    <3> QED
      BY <3>1 DEF Active
  <2>2. CASE l # "join"
    BY <1>1, <2>2 DEF JoinedBeforePrint, Over
  <2> QED
    BY <2>1, <2>2
<1>7. l # "join" => \A q \in Pid \ {Root} : pc[q] = "none" \/ (pc[q] = "ended" /\ q \in threads)
  <2>1. CASE l = "print"
    <3>1. \A r \in Pid : pc[r] # "list"
      BY <1>1, <1>6, <2>1 DEF Over
    <3>2. \A q \in Pid \ {Root} : pc[q] # "none" => q \in threads
      BY <3>1 DEF Listed
    <3> QED
      BY <1>1, <2>1, <3>2
  <2>2. CASE l = "exited"
    BY <1>1, <2>2 DEF JoinedBeforePrint
  <2> QED
    BY <2>1, <2>2
<1>8. JoinedBeforePrint'
  BY <1>1, <1>2, <1>6, <1>7 DEF JoinedBeforePrint, Over
<1>9. Reported'
  BY <1>1, <1>2 DEF Reported
<1> QED
  BY <1>3, <1>4, <1>5, <1>8, <1>9

LEMMA ReportUnchanged ==
  ASSUME Report, UNCHANGED vars
  PROVE  Report'
<1>1. Merged'
  BY DEF Report, Merged, vars, tables
<1> QED
  BY <1>1, ReportStay DEF vars, tables

-----------------------------------------------------------------------------
(* The theorems.                                                           *)

LEMMA IInvStep == IInv /\ [Next]_vars => IInv'
<1> SUFFICES ASSUME IInv, [Next]_vars PROVE IInv'
  OBVIOUS
<1> USE DEF IInv
<1>0. ChildKnown
  BY DEF Control
<1>1. ASSUME NEW p \in Pid, Environment(p) PROVE IInv'
  BY <1>1, TypeEnvironment, ControlEnvironment, MemoryEnvironment, ReportEnvironment
<1>2. ASSUME NEW p \in Pid, Thread(p) PROVE IInv'
  BY <1>0, <1>2, TypeThread, ControlThread, MemoryThread, ReportThread
<1>3. CASE Main
  BY <1>3, TypeMain, ControlMain, MemoryMain, ReportMain
<1>4. CASE UNCHANGED vars
  <2>1. TypeInt'
    BY <1>4 DEF TypeInt, vars, mem, tables
  <2>2. Control'
    BY <1>4, ControlStay DEF vars
  <2> QED
    BY <1>4, <2>1, <2>2, MemoryUnchanged, ReportUnchanged
<1> QED
  BY <1>1, <1>2, <1>3, <1>4 DEF Next

\* The invariant the others follow from holds of every run: every thread of
\* iotrace keeps TypeInt, Control, Memory and Report.
THEOREM Invariance == Spec => []IInv
<1>1. Init => IInv
  BY TypeInit, ControlInit, MemoryInit, ReportInit DEF IInv
<1> QED
  BY <1>1, IInvStep, PTL DEF Spec

\* Types, and neither share_count nor active_threads is ever decremented
\* below zero (handle_execve_return, thread_tmps_remove, thread_func).
THEOREM TypeCorrect == Spec => []TypeOK
<1>1. IInv => TypeOK
  <2> SUFFICES ASSUME IInv PROVE TypeOK
    OBVIOUS
  <2>1. share_count \in [Cell -> Nat]
    BY MemoryImplies DEF IInv
  <2>2. active_threads \in Nat
    BY ActiveFinite DEF IInv, Report, ActiveExact
  <2> QED
    BY <2>1, <2>2 DEF IInv, TypeInt, TypeOK
<1> QED
  BY <1>1, Invariance, PTL

\* share_count is the number of registered users, in every interleaving of
\* thread_tmps_insert, thread_tmps_remove and handle_execve_return.
THEOREM CountsUsers == Spec => []ShareCountExact
<1>1. IInv => ShareCountExact
  BY MemoryImplies DEF IInv
<1> QED
  BY <1>1, Invariance, PTL

\* No registered thread is left with freed memory: the copy in
\* handle_execve_return before the decrement is enough.
THEOREM NoDanglingEntry == Spec => []EntryLive
<1>1. IInv => EntryLive
  BY MemoryImplies DEF IInv
<1> QED
  BY <1>1, Invariance, PTL

\* A table is always guarded by one and the same mutex.
THEOREM OneMutexPerTable == Spec => []SameTableSameMutex
<1>1. IInv => SameTableSameMutex
  BY MemoryImplies DEF IInv
<1> QED
  BY <1>1, Invariance, PTL

\* No table, count or mutex is lost without being freed.
THEOREM AllFreed == Spec => []NoLeak
<1>1. IInv => NoLeak
  BY MemoryImplies DEF IInv
<1> QED
  BY <1>1, Invariance, PTL

\* main_tracer prints after every thread has merged and been joined, though
\* active_threads and the list of threads are updated apart.
THEOREM MainWaitsForAll == Spec => []JoinedBeforePrint
<1>1. IInv => JoinedBeforePrint
  BY DEF IInv, Report
<1> QED
  BY <1>1, Invariance, PTL

\* A step of a tracer thread or of main records a syscall, publishes the
\* report or is invisible to TraceReport.
LEMMA PromiseStep == IInv /\ [Next]_vars => [Promise!Next]_(Promise!vars)
<1> SUFFICES ASSUME IInv, [Next]_vars PROVE [Promise!Next]_(Promise!vars)
  OBVIOUS
<1> USE DEF Promise!Next, Promise!vars, tables
<1>1. ASSUME NEW p \in Pid, pc[p] = "wait", UNCHANGED tables,
             \/ stats' = [stats EXCEPT ![p].file = @ + 1]
             \/ stats' = [stats EXCEPT ![p].sys = @ + 1]
      PROVE  Promise!Next
  <2>1. report = None
    BY <1>1, NoReportYet DEF IInv, Over
  <2> QED
    BY <1>1, <2>1 DEF Promise!Record
<1>2. ASSUME NEW p \in Pid, Environment(p) PROVE [Promise!Next]_(Promise!vars)
  <2>1. CASE file_call(p) \/ handle_unconsidered_return(p) \/ handle_execve_return(p)
    BY <2>1, <1>1 DEF file_call, handle_unconsidered_return, handle_execve_return, AtReturn
  <2>2. ASSUME NEW q, NEW files, NEW bit, Spawned(p, q, files, bit)
        PROVE  UNCHANGED Promise!vars
    BY <2>2 DEF Spawned
  <2>3. CASE \E q \in Pid : clone_event(p, q) \/ fork_event(p, q)
    BY <2>2, <2>3 DEF clone_event, fork_event
  <2>4. CASE exit_event(p) \/ kill_event(p) \/ open_abort(p)
    BY <2>4 DEF exit_event, kill_event, open_abort
  <2> QED
    BY <1>2, <2>1, <2>3, <2>4 DEF Environment
<1>3. ASSUME NEW p \in Pid, Thread(p) PROVE UNCHANGED Promise!vars
  BY <1>3 DEF Thread, exec_copy, exec_release, exec_reuse, exec_new, Adopt, threads_add,
     threads_prepend, thread_tmps_insert, insert_dangling, wait_exited, wait_signaled,
     wait_uninitialised, file_state_merge, syscall_stat_merge, thread_tmps_remove,
     thread_func_dec, thread_func_return
<1>4. CASE main_print
  <2>1. pc[Root] = "print" /\ UNCHANGED stats
    BY <1>4 DEF main_print
  <2>2. report = None
    BY <2>1 DEF IInv, Report, Reported
  <2>3. \A p \in Pid : /\ main_file_stat_table[p] = stats[p].file
                       /\ main_syscall_table[p] = stats[p].sys
    <3>1. \A p \in Pid : pc[p] \in {"none", "ended", "print"}
      BY <2>1 DEF IInv, Report, JoinedBeforePrint
    <3> QED
      BY <3>1 DEF IInv, Report, Merged, FileMergedPCs, SysMergedPCs
  <2>4. stats \in [Pid -> [file : Nat, sys : Nat]]
    BY DEF IInv, TypeInt
  <2>5. report' = stats
    BY <1>4, <2>3, <2>4 DEF main_print
  <2> QED
    BY <2>1, <2>2, <2>5 DEF Promise!Publish
<1>5. CASE main_poll \/ main_join
  BY <1>5 DEF main_poll, main_join
<1>6. CASE UNCHANGED vars
  BY <1>6 DEF vars
<1> QED
  BY <1>2, <1>3, <1>4, <1>5, <1>6 DEF Next, Main

\* The report holds every handled syscall of every task, once: Tracers
\* implements TraceReport.
THEOREM ReportComplete == Spec => ImplementsReport
<1>1. Init => Promise!Init
  BY DEF Init, Promise!Init, Promise!ZeroTally
<1> QED
  BY <1>1, PromiseStep, Invariance, PTL DEF Spec, ImplementsReport, Promise!Spec

-----------------------------------------------------------------------------
(* Groups of the kernel, and the bit the threads read.                     *)

LEMMA KinInit == Init => Kin
BY TracersAssumption DEF Init, Kin, Groups, Cloned

LEMMA KinGoto ==
  ASSUME Kin, NEW p \in Pid, UNCHANGED ksharers,
         \A q \in Pid \ {p} : pc'[q] = pc[q] /\ child'[q] = child[q],
         \A q \in Pid : tracee'[q] = "unborn" => tracee[q] = "unborn",
         pc'[p] = "add" => pc[p] = "add" /\ child'[p] = child[p]
  PROVE  Kin'
BY DEF Kin, Groups, Cloned

\* A new task joins the group of its creator, or has one of its own.
LEMMA GroupsSpawned ==
  ASSUME TypeInt, Control, Groups, NEW p \in Pid, NEW q \in Pid, NEW files, NEW bit,
         Spawned(p, q, files, bit)
  PROVE  /\ Groups'
         /\ \A r \in Pid \ {q}, s \in Pid \ {q} : s \in ksharers'[r] <=> s \in ksharers[r]
         /\ \A r \in Pid \ {q} : ksharers[r] = {r} /\ r # p => ksharers'[r] = {r}
         /\ IF files THEN q \in ksharers'[p] ELSE ksharers'[q] = {q}
<1> DEFINE group == IF files THEN ksharers[p] \cup {q} ELSE {q}
<1>1. /\ pc[p] = "wait" /\ tracee[q] = "unborn" /\ q # p
      /\ tracee' = [tracee EXCEPT ![q] = "running"]
      /\ ksharers' = [r \in Pid |-> IF r \in group THEN group ELSE ksharers[r]]
  BY DEF Spawned, Goto, Control, Children
<1>2. \A r \in Pid : tracee'[r] = "unborn" => tracee[r] = "unborn" /\ r # q
  BY <1>1 DEF TypeInt
<1>3. ksharers[q] = {q} /\ \A r \in Pid : q \in ksharers[r] => r = q
  BY <1>1 DEF Groups
<1>4. \A r \in Pid \ {q} : /\ r \in group => ksharers[r] = ksharers[p]
                           /\ r \notin group => p \notin ksharers[r] \/ ~files
  BY <1>1 DEF Groups
<1>5. \A r \in Pid : ksharers'[r] = IF r \in group THEN group ELSE ksharers[r]
  BY <1>1
<1>6. \A r \in Pid \ {q}, s \in Pid \ {q} : s \in ksharers'[r] <=> s \in ksharers[r]
  BY <1>3, <1>4, <1>5
<1>7. ASSUME NEW r \in Pid \ {q}, ksharers[r] = {r}, r # p
      PROVE  ksharers'[r] = {r}
  <2>1. r \notin group
    BY <1>4, <1>7 DEF Groups
  <2> QED  BY <1>5, <2>1, <1>7
<1>8. \A r \in Pid : tracee'[r] = "unborn" => ksharers'[r] = {r}
  <2>1. tracee[p] # "unborn"
    BY <1>1 DEF Control, Children
  <2> QED  BY <1>2, <1>7, <2>1 DEF Groups
<1>9. Groups'
  <2>1. ASSUME NEW r \in Pid
        PROVE  /\ r \in ksharers'[r]
               /\ \A s \in ksharers'[r] : ksharers'[s] = ksharers'[r]
    <3>1. CASE r \in group
      BY <1>5, <3>1 DEF TypeInt
    <3>2. CASE r \notin group
      <4>1. ksharers'[r] = ksharers[r] /\ r \in ksharers[r]
        BY <1>5, <3>2 DEF Groups
      <4>2. ASSUME NEW s \in ksharers[r] PROVE s \in Pid /\ s \notin group
        <5>1. s \in Pid /\ ksharers[s] = ksharers[r]
          BY DEF Groups, TypeInt
        <5>2. s # q
          BY <1>3, <3>2
        <5>3. s \notin group
          BY <1>4, <5>1, <5>2, <3>2, <4>1
        <5> QED  BY <5>1, <5>3
      <4> QED  BY <1>5, <4>1, <4>2 DEF Groups
    <3> QED  BY <3>1, <3>2
  <2> QED  BY <1>8, <2>1 DEF Groups
<1> QED  BY <1>5, <1>6, <1>7, <1>9 DEF Groups

LEMMA KinSpawned ==
  ASSUME TypeInt, Control, Kin, NEW p \in Pid, NEW q \in Pid, NEW files \in BOOLEAN,
         Spawned(p, q, files, files)
  PROVE  Kin'
<1>1. /\ pc[p] = "wait" /\ tracee[q] = "unborn" /\ pc[q] = "none" /\ q # p
      /\ pc' = [pc EXCEPT ![p] = "add"]
      /\ child' = [child EXCEPT ![p] = [pid |-> q, share |-> files]]
  BY DEF Spawned, Goto, Control, Children
<1>2. /\ pc'[p] = "add" /\ child'[p].pid = q /\ child'[p].share = files
      /\ \A r \in Pid \ {p} : pc'[r] = pc[r] /\ child'[r] = child[r]
  BY <1>1 DEF TypeInt
<1>3. /\ Groups'
      /\ \A r \in Pid \ {q}, s \in Pid \ {q} : s \in ksharers'[r] <=> s \in ksharers[r]
      /\ \A r \in Pid \ {q} : ksharers[r] = {r} /\ r # p => ksharers'[r] = {r}
      /\ IF files THEN q \in ksharers'[p] ELSE ksharers'[q] = {q}
  BY GroupsSpawned DEF Kin
<1>4. Cloned'
  <2>1. ASSUME NEW r \in Pid, pc'[r] = "add"
        PROVE  IF child'[r].share THEN child'[r].pid \in ksharers'[r]
               ELSE ksharers'[child'[r].pid] = {child'[r].pid}
    <3>1. CASE r = p
      BY <1>2, <1>3, <3>1
    <3>2. CASE r # p
      <4>1. PICK s \in Pid : s = child[r].pid
        BY <1>2, <2>1, <3>2 DEF Control, ChildKnown
      <4>2. pc[r] = "add" /\ child'[r] = child[r] /\ r # q /\ s # q /\ s # p
        BY <1>1, <1>2, <2>1, <3>2, <4>1 DEF Control, Children
      <4>3. IF child[r].share THEN s \in ksharers[r] ELSE ksharers[s] = {s}
        BY <4>1, <4>2 DEF Kin, Cloned
      <4> QED  BY <1>3, <4>1, <4>2, <4>3
    <3> QED  BY <3>1, <3>2
  <2> QED  BY <2>1 DEF Cloned
<1> QED  BY <1>3, <1>4 DEF Kin

\* execve takes the task out of its group if it succeeds.
LEMMA KinExecve ==
  ASSUME TypeInt, Control, Kin, NEW p \in Pid, handle_execve_return(p)
  PROVE  Kin'
<1>1. /\ pc[p] = "wait" /\ UNCHANGED <<tracee, child>>
      /\ pc' = [pc EXCEPT ![p] = IF share_count[thread_tmps[p].cell] > 1
                                 THEN "exec_copy" ELSE "wait"]
  BY DEF handle_execve_return, AtReturn, Goto
<1>2. pc'[p] # "add" /\ \A r \in Pid \ {p} : pc'[r] = pc[r]
  BY <1>1 DEF TypeInt
<1>3. CASE UNCHANGED ksharers
  BY <1>1, <1>2, <1>3, KinGoto
<1>4. CASE ksharers' = [r \in Pid |-> IF r = p THEN {p} ELSE ksharers[r] \ {p}]
  <2>1. \A r \in Pid : ksharers'[r] = IF r = p THEN {p} ELSE ksharers[r] \ {p}
    BY <1>4
  <2>a. \A r \in Pid : ksharers[r] = {r} => ksharers'[r] = {r}
    BY <2>1
  <2>b. /\ \A r \in Pid : ksharers[r] \subseteq Pid
        /\ \A r \in Pid : r \in ksharers[r] /\ \A s \in ksharers[r] : ksharers[s] = ksharers[r]
    BY DEF TypeInt, Kin, Groups
  <2>2. ASSUME NEW r \in Pid
        PROVE  r \in ksharers'[r] /\ \A s \in ksharers'[r] : ksharers'[s] = ksharers'[r]
    <3>1. CASE r = p
      BY <2>1, <3>1
    <3>2. CASE r # p
      <4>1. r \in ksharers[r] /\ ksharers'[r] = ksharers[r] \ {p}
        BY <2>1, <2>b, <3>2
      <4>2. ASSUME NEW s \in ksharers[r] \ {p} PROVE ksharers'[s] = ksharers[r] \ {p}
        <5>1. s \in Pid /\ ksharers[s] = ksharers[r]
          BY <2>b
        <5> QED  BY <2>1, <4>2, <5>1
      <4> QED  BY <3>2, <4>1, <4>2
    <3> QED  BY <3>1, <3>2
  <2>3. Groups'
    BY <1>1, <2>a, <2>2 DEF Kin, Groups
  <2>4. ASSUME NEW r \in Pid, pc'[r] = "add"
        PROVE  IF child'[r].share THEN child'[r].pid \in ksharers'[r]
               ELSE ksharers'[child'[r].pid] = {child'[r].pid}
    <3>1. r # p /\ pc[r] = "add" /\ child'[r] = child[r]
      BY <1>1, <1>2, <2>4
    <3>2. PICK s \in Pid : s = child[r].pid
      BY <3>1 DEF Control, ChildKnown
    <3>3. s # p
      BY <1>1, <3>1, <3>2 DEF Control, Children
    <3>4. IF child[r].share THEN s \in ksharers[r] ELSE ksharers[s] = {s}
      BY <3>1, <3>2 DEF Kin, Cloned
    <3> QED  BY <2>1, <2>a, <3>1, <3>2, <3>3, <3>4
  <2>5. Cloned'
    BY <2>4 DEF Cloned
  <2> QED  BY <2>3, <2>5 DEF Kin
<1>5. \E ok \in ExecResults :
        ksharers' = IF ok THEN [r \in Pid |-> IF r = p THEN {p} ELSE ksharers[r] \ {p}]
                          ELSE ksharers
  BY DEF handle_execve_return
<1> QED  BY <1>3, <1>4, <1>5

LEMMA KinThread ==
  ASSUME TypeInt, Control, Kin, NEW p \in Pid, Thread(p)
  PROVE  Kin'
<1> USE DEF TypeInt, Goto
<1>1. CASE exec_copy(p) \/ exec_release(p) \/ exec_reuse(p) \/ exec_new(p)
  BY <1>1, KinGoto DEF exec_copy, exec_release, exec_reuse, exec_new, Adopt
<1>2. CASE threads_add(p)
  <2>1. PICK q \in Pid \ {p} : /\ pc'[p] = "list" /\ pc'[q] = "attach"
                             /\ \A x \in Pid \ {p, q} : pc'[x] = pc[x]
    BY <1>2, AddEffect
  <2>2. UNCHANGED <<tracee, ksharers, child>>
    BY <1>2 DEF threads_add
  <2>3. \A r \in Pid : pc'[r] = "add" => pc[r] = "add"
    BY <2>1
  <2> QED  BY <2>2, <2>3 DEF Kin, Groups, Cloned
<1>3. CASE threads_prepend(p) \/ thread_tmps_insert(p) \/ insert_dangling(p)
  BY <1>3, KinGoto DEF threads_prepend, thread_tmps_insert, insert_dangling
<1>4. CASE wait_exited(p) \/ wait_signaled(p) \/ wait_uninitialised(p)
  BY <1>4, KinGoto DEF wait_exited, wait_signaled, wait_uninitialised
<1>5. CASE file_state_merge(p) \/ syscall_stat_merge(p) \/ thread_tmps_remove(p)
  BY <1>5, KinGoto DEF file_state_merge, syscall_stat_merge, thread_tmps_remove
<1>6. CASE thread_func_dec(p) \/ thread_func_return(p)
  BY <1>6, KinGoto DEF thread_func_dec, thread_func_return
<1> QED  BY <1>1, <1>2, <1>3, <1>4, <1>5, <1>6 DEF Thread

LEMMA KinStep == CleanForks /\ IInv /\ Kin /\ [Next]_vars => Kin'
<1> SUFFICES ASSUME CleanForks, IInv, Kin, [Next]_vars PROVE Kin'
  OBVIOUS
<1> USE DEF IInv
<1>1. ASSUME NEW p \in Pid, Environment(p) PROVE Kin'
  <2>1. CASE \E q \in Pid : clone_event(p, q)
    BY <2>1, KinSpawned DEF clone_event
  <2>2. CASE \E q \in Pid : fork_event(p, q)
    BY <2>2, KinSpawned DEF fork_event, CleanForks
  <2>3. CASE exit_event(p) \/ kill_event(p)
    BY <2>3, KinGoto DEF exit_event, kill_event, TypeInt
  <2>4. CASE file_call(p) \/ handle_unconsidered_return(p) \/ open_abort(p)
    BY <2>4, KinGoto DEF file_call, handle_unconsidered_return, open_abort
  <2>5. CASE handle_execve_return(p)
    BY <2>5, KinExecve
  <2> QED  BY <1>1, <2>1, <2>2, <2>3, <2>4, <2>5 DEF Environment
<1>2. ASSUME NEW p \in Pid, Thread(p) PROVE Kin'
  BY <1>2, KinThread
<1>3. CASE Main
  BY <1>3, KinGoto, TracersAssumption DEF Main, main_poll, main_join, main_print, Goto, TypeInt
<1>4. CASE UNCHANGED vars
  BY <1>4 DEF vars, Kin, Groups, Cloned
<1> QED  BY <1>1, <1>2, <1>3, <1>4 DEF Next

\* threads_add shares the table of a new task exactly if the kernel did, in every
\* schedule, whether or not execve fails and tasks are killed (main.c:105, 110).
THEOREM AddFollows == CleanForks => (Spec => AddMirrorsClone)
<1> SUFFICES ASSUME CleanForks PROVE Spec => AddMirrorsClone
  OBVIOUS
<1>1. IInv /\ Kin /\ [Next]_vars =>
        [\A q \in Pid : pc[q] = "none" /\ pc'[q] = "attach" =>
           (start'[q].cell # None <=> ksharers[q] # {q})]_vars
  <2> SUFFICES ASSUME IInv, Kin, Next, NEW q \in Pid, pc[q] = "none", pc'[q] = "attach"
               PROVE  start'[q].cell # None <=> ksharers[q] # {q}
    OBVIOUS
  <2> USE DEF IInv
  <2>1. PICK p \in Pid : threads_add(p)
    <3>1. ASSUME NEW p \in Pid, NEW l, Goto(p, l), l # "attach" PROVE FALSE
      BY <3>1 DEF Goto, TypeInt
    <3>2. ASSUME NEW p \in Pid, Environment(p) PROVE FALSE
      BY <3>1, <3>2 DEF Environment, clone_event, fork_event, Spawned, exit_event, kill_event,
            file_call, handle_unconsidered_return, open_abort, handle_execve_return
    <3>3. ~Main
      BY <3>1, TracersAssumption DEF Main, main_poll, main_join, main_print
    <3>4. PICK p \in Pid : Thread(p)
      BY <3>2, <3>3 DEF Next
    <3>5. ~exec_copy(p) /\ ~exec_release(p) /\ ~exec_reuse(p) /\ ~exec_new(p)
      BY <3>1 DEF exec_copy, exec_release, exec_reuse, exec_new, Adopt
    <3>6. ~threads_prepend(p) /\ ~thread_tmps_insert(p) /\ ~insert_dangling(p)
      BY <3>1 DEF threads_prepend, thread_tmps_insert, insert_dangling
    <3>7. ~wait_exited(p) /\ ~wait_signaled(p) /\ ~wait_uninitialised(p)
      BY <3>1 DEF wait_exited, wait_signaled, wait_uninitialised
    <3>8. ~file_state_merge(p) /\ ~syscall_stat_merge(p) /\ ~thread_tmps_remove(p)
      BY <3>1 DEF file_state_merge, syscall_stat_merge, thread_tmps_remove
    <3>9. ~thread_func_dec(p) /\ ~thread_func_return(p)
      BY <3>1 DEF thread_func_dec, thread_func_return
    <3> QED  BY <3>4, <3>5, <3>6, <3>7, <3>8, <3>9 DEF Thread
  <2>2. child[p].pid = q /\ q # p /\ pc[p] = "add" /\ Counted(p)
    BY <2>1, AddEffect DEF threads_add
  <2>3. IF child[p].share THEN q \in ksharers[p] ELSE ksharers[q] = {q}
    BY <2>2 DEF Kin, Cloned
  <2>4. CASE child[p].share
    <3>1. start'[q] = thread_tmps[p]
      BY <2>1, <2>2, <2>4 DEF threads_add, TypeInt
    <3>2. start'[q].cell \in Cell
      BY <2>2, <3>1 DEF Memory, EntryExists
    <3>3. p \in ksharers[q]
      BY <2>3, <2>4 DEF Kin, Groups
    <3> QED  BY <2>2, <3>2, <3>3, TracersAssumption
  <2>5. CASE ~child[p].share
    <3>1. start'[q].cell = None
      BY <2>1, <2>2, <2>5 DEF threads_add, TypeInt
    <3> QED  BY <2>3, <2>5, <3>1
  <2> QED  BY <2>4, <2>5
<1> QED  BY <1>1, KinInit, KinStep, Invariance, PTL DEF Spec, AddMirrorsClone

-----------------------------------------------------------------------------
(* What a new thread was handed, if it registers at once.                  *)

\* A thread that is not at "list" is nobody's witness.
LEMMA HeldGoto ==
  ASSUME StartHeld, NEW p \in Pid, pc[p] # "list", pc'[p] = "attach" => pc[p] = "attach",
         \A q \in Pid \ {p} : /\ pc'[q] = pc[q] /\ child'[q] = child[q]
                              /\ thread_tmps'[q] = thread_tmps[q],
         \A q \in Pid : pc'[q] = "attach" => start'[q] = start[q]
  PROVE  StartHeld'
<1> SUFFICES ASSUME NEW q \in Pid, pc'[q] = "attach"
             PROVE  \E r \in Pid : /\ pc'[r] = "list" /\ child'[r].pid = q
                                   /\ HandedCount(start'[q]) => start'[q] = thread_tmps'[r]
  BY DEF StartHeld, Attaching, HandedCount
<1>1. pc[q] = "attach" /\ start'[q] = start[q]
  OBVIOUS
<1>2. PICK r \in Pid : /\ pc[r] = "list" /\ child[r].pid = q
                       /\ HandedCount(start[q]) => start[q] = thread_tmps[r]
  BY <1>1 DEF StartHeld, Attaching
<1> QED  BY <1>1, <1>2

LEMMA HeldAdd ==
  ASSUME TypeInt, Control, StartHeld, NEW p \in Pid, threads_add(p)
  PROVE  StartHeld'
<1>1. PICK q \in Pid \ {p} :
           /\ q = child[p].pid /\ Counted(p) /\ pc[q] = "none"
           /\ pc'[p] = "list" /\ pc'[q] = "attach"
           /\ \A x \in Pid \ {p, q} : pc'[x] = pc[x]
           /\ \A x \in Pid \ {q} : start'[x] = start[x]
           /\ UNCHANGED <<thread_tmps, fd_copy, cell_mem, share_count>>
  BY AddEffect
<1>2. pc[p] = "add" /\ UNCHANGED child
  BY DEF threads_add
<1>3. HandedCount(start'[q]) => start'[q] = thread_tmps'[p]
  BY <1>1 DEF threads_add, TypeInt, HandedCount
<1>4. ASSUME NEW x \in Pid, pc'[x] = "attach"
      PROVE  \E r \in Pid : /\ pc'[r] = "list" /\ child'[r].pid = x
                            /\ HandedCount(start'[x]) => start'[x] = thread_tmps'[r]
  <2>1. CASE x = q
    BY <1>1, <1>2, <1>3, <2>1
  <2>2. CASE x # q
    <3>1. pc[x] = "attach" /\ start'[x] = start[x]
      BY <1>1, <1>4, <2>2
    <3>2. PICK r \in Pid : /\ pc[r] = "list" /\ child[r].pid = x
                           /\ HandedCount(start[x]) => start[x] = thread_tmps[r]
      BY <3>1 DEF StartHeld, Attaching
    <3>3. r # p /\ r # q
      BY <1>1, <1>2, <3>2
    <3> QED  BY <1>1, <1>2, <3>1, <3>2, <3>3
  <2> QED  BY <2>1, <2>2
<1> QED  BY <1>4 DEF StartHeld, Attaching, HandedCount

LEMMA HeldPrepend ==
  ASSUME PromptStart, TypeInt, StartHeld, NEW p \in Pid, threads_prepend(p)
  PROVE  StartHeld'
<1>1. /\ pc[child[p].pid] # "attach" /\ UNCHANGED <<start, thread_tmps>>
      /\ pc' = [pc EXCEPT ![p] = "wait"] /\ child' = [child EXCEPT ![p] = NoChild]
  BY DEF threads_prepend, Goto
<1>2. pc'[p] = "wait" /\ \A x \in Pid \ {p} : pc'[x] = pc[x] /\ child'[x] = child[x]
  BY <1>1 DEF TypeInt
<1>3. ASSUME NEW x \in Pid, pc'[x] = "attach"
      PROVE  \E r \in Pid : /\ pc'[r] = "list" /\ child'[r].pid = x
                            /\ HandedCount(start'[x]) => start'[x] = thread_tmps'[r]
  <2>1. pc[x] = "attach"
    BY <1>2, <1>3
  <2>2. PICK r \in Pid : /\ pc[r] = "list" /\ child[r].pid = x
                         /\ HandedCount(start[x]) => start[x] = thread_tmps[r]
    BY <2>1 DEF StartHeld, Attaching
  <2>3. r # p
    BY <1>1, <2>1, <2>2
  <2> QED  BY <1>1, <1>2, <2>2, <2>3
<1> QED  BY <1>3 DEF StartHeld, Attaching, HandedCount

LEMMA HeldStep == PromptStart /\ IInv /\ StartHeld /\ [Next]_vars => StartHeld'
<1> SUFFICES ASSUME PromptStart, IInv, StartHeld, [Next]_vars PROVE StartHeld'
  OBVIOUS
<1> USE DEF IInv
<1> USE DEF Goto
<1>t. TypeInt
  OBVIOUS
<1>1. ASSUME NEW p \in Pid, Environment(p) PROVE StartHeld'
  <2>1. CASE \E q \in Pid : clone_event(p, q) \/ fork_event(p, q)
    BY <1>t, <2>1, HeldGoto DEF clone_event, fork_event, Spawned, TypeInt
  <2>2. CASE exit_event(p) \/ kill_event(p) \/ file_call(p) \/ handle_unconsidered_return(p)
             \/ open_abort(p)
    BY <2>2 DEF exit_event, kill_event, file_call, handle_unconsidered_return, open_abort,
                StartHeld, Attaching
  <2>3. CASE handle_execve_return(p)
    BY <1>t, <2>3, HeldGoto DEF handle_execve_return, AtReturn, TypeInt
  <2> QED  BY <1>1, <2>1, <2>2, <2>3 DEF Environment
<1>2. ASSUME NEW p \in Pid, Thread(p) PROVE StartHeld'
  <2>1. CASE exec_copy(p) \/ exec_release(p) \/ exec_reuse(p) \/ exec_new(p)
    BY <1>t, <2>1, HeldGoto DEF exec_copy, exec_release, exec_reuse, exec_new, Adopt, TypeInt
  <2>2. CASE threads_add(p)
    BY <2>2, HeldAdd
  <2>3. CASE threads_prepend(p)
    BY <2>3, HeldPrepend
  <2>4. CASE thread_tmps_insert(p)
    BY <1>t, <2>4, HeldGoto DEF thread_tmps_insert, TypeInt
  <2>5. CASE insert_dangling(p)
    BY <2>5 DEF insert_dangling, StartHeld, Attaching
  <2>6. CASE wait_exited(p) \/ wait_signaled(p) \/ wait_uninitialised(p)
    BY <1>t, <2>6, HeldGoto DEF wait_exited, wait_signaled, wait_uninitialised, TypeInt
  <2>7. CASE file_state_merge(p) \/ syscall_stat_merge(p)
    BY <1>t, <2>7, HeldGoto DEF file_state_merge, syscall_stat_merge, TypeInt
  <2>8. CASE thread_tmps_remove(p)
    BY <1>t, <2>8, HeldGoto DEF thread_tmps_remove, TypeInt
  <2>9. CASE thread_func_dec(p) \/ thread_func_return(p)
    BY <1>t, <2>9, HeldGoto DEF thread_func_dec, thread_func_return, TypeInt
  <2> QED  BY <1>2, <2>1, <2>2, <2>3, <2>4, <2>5, <2>6, <2>7, <2>8, <2>9 DEF Thread
<1>3. CASE Main
  <2>1. /\ Root \in Pid /\ pc[Root] \in {"poll", "join", "print"}
        /\ UNCHANGED <<child, start, thread_tmps>>
        /\ \E l \in {"join", "print", "exited"} : pc' = [pc EXCEPT ![Root] = l]
    BY <1>3, TracersAssumption DEF Main, main_poll, main_join, main_print
  <2>2. pc'[Root] # "attach" /\ \A q \in Pid \ {Root} : pc'[q] = pc[q]
    BY <1>t, <2>1 DEF TypeInt
  <2> QED  BY <2>1, <2>2, HeldGoto
<1>4. CASE UNCHANGED vars
  BY <1>4 DEF vars, StartHeld, Attaching
<1> QED  BY <1>1, <1>2, <1>3, <1>4 DEF Next

LEMMA HeldInit == Init => StartHeld
BY DEF Init, StartHeld, Attaching

\* The start data of a new thread is usable exactly as long as a registered
\* thread shares it (main.c:107, syscall_handler.c:433-450): under any schedule
\* of the creator, its partners and the new thread.
THEOREM HandedUsable == Spec => []UsableWhileShared
<1>1. IInv => UsableWhileShared
  <2> SUFFICES ASSUME IInv, NEW q \in Pid, Attaching(q), HandedCount(start[q])
               PROVE  Usable(start[q]) <=>
                        \E p \in Pid : Counted(p) /\ thread_tmps[p] = start[q]
    BY DEF UsableWhileShared, Attaching, HandedCount
  <2> USE DEF IInv
  <2>1. ASSUME Usable(start[q])
        PROVE  \E p \in Pid : Counted(p) /\ thread_tmps[p] = start[q]
    BY <2>1 DEF Usable, Memory, Handed, Shared
  <2>2. ASSUME NEW p \in Pid, Counted(p), thread_tmps[p] = start[q]
        PROVE  Usable(start[q])
    <3>1. PICK c : c = thread_tmps[p].cell
      OBVIOUS
    <3>2. c \in Cell /\ table_mem[thread_tmps[p].table] = "live" /\ cell_mem[c] = "live"
      BY <2>2, <3>1 DEF Memory, EntryExists, EntryLive
    <3>3. p \in Sharers(c)
      BY <2>2, <3>1 DEF Sharers
    <3>4. share_count[c] = Cardinality(Sharers(c))
      BY <3>2 DEF Memory, Counts
    <3>5. share_count[c] > 0
      BY <3>3, <3>4, SharersFinite
    <3> QED  BY <2>2, <3>1, <3>2, <3>5 DEF Usable
  <2> QED  BY <2>1, <2>2
<1> QED  BY <1>1, Invariance, PTL

-----------------------------------------------------------------------------
(* Sharing that follows the kernel's.                                      *)

\* The tables of threads that are not in execve were allocated, and differ from
\* those only one thread knows of.
LEMMA TablesKnown ==
  ASSUME Memory, NEW q \in Pid, Settled(q)
  PROVE  /\ table_mem[TableOf(q)] # "unused"
         /\ \A p \in Pid \ {q} : pc[p] \in ExecPCs => TableOf(q) # fd_copy[p]
<1> USE DEF TableOf, Attaching
<1>1. CASE pc[q] # "attach"
  <2>1. Counted(q)
    BY <1>1 DEF Settled, Counted, CountedPCs
  <2> QED  BY <1>1, <2>1 DEF Memory, EntryLive, PrivateTables, HoldsPrivate, PrivateTable
<1>2. CASE Shared(q)
  <2>1. table_mem[start[q].table] # "unused" /\ pc[q] = "attach"
    BY <1>2 DEF Memory, Handed, Shared
  <2> QED  BY <1>2, <2>1 DEF Memory, PrivateTables, HoldsPrivate, PrivateTable
<1>3. CASE Attaching(q) /\ ~HandedCount(start[q])
  <2>1. HoldsPrivate(q) /\ PrivateTable(q) = start[q].table
    BY <1>3 DEF HoldsPrivate, PrivateTable, ExecPCs
  <2>2. table_mem[start[q].table] # "unused"
    BY <2>1 DEF Memory, PrivateTables
  <2>3. ASSUME NEW p \in Pid \ {q}, pc[p] \in ExecPCs
        PROVE  start[q].table # fd_copy[p]
    <3>1. HoldsPrivate(p) /\ PrivateTable(p) = fd_copy[p]
      BY <2>3 DEF HoldsPrivate, PrivateTable
    <3> QED  BY <2>1, <2>3, <3>1 DEF Memory, PrivateTables
  <2> QED  BY <1>3, <2>2, <2>3
<1> QED  BY <1>1, <1>2, <1>3 DEF Shared


LEMMA SharingInit == Init => Alone /\ Paired
BY TracersAssumption DEF Init, Alone, Paired, Settled, Attaching, ExecPCs

\* A thread that goes elsewhere with the table it has, or leaves it.
LEMMA SharingGoto ==
  ASSUME Alone, Paired, NEW p \in Pid, UNCHANGED ksharers,
         \A q \in Pid \ {p} : /\ pc'[q] = pc[q] /\ start'[q] = start[q]
                              /\ thread_tmps'[q] = thread_tmps[q],
         pc'[p] \in ExecPCs \cup {"exec_copy"} => pc[p] \in ExecPCs \cup {"exec_copy"},
         Settled(p)' => Settled(p) /\ TableOf(p)' = TableOf(p)
  PROVE  Alone' /\ Paired'
<1>1. Alone'
  BY DEF Alone
<1>2. \A q \in Pid : Settled(q)' => Settled(q) /\ TableOf(q)' = TableOf(q)
  BY DEF Settled, TableOf, Attaching
<1>3. Paired'
  BY <1>2 DEF Paired
<1> QED  BY <1>1, <1>3

LEMMA SharingStay ==
  ASSUME Alone, Paired, UNCHANGED <<ksharers, pc, start, thread_tmps>>
  PROVE  Alone' /\ Paired'
BY DEF Alone, Paired, Settled, TableOf, Attaching

LEMMA SharingSpawned ==
  ASSUME TypeInt, Control, Kin, Alone, Paired, NEW p \in Pid, NEW q \in Pid,
         NEW files, NEW bit, Spawned(p, q, files, bit)
  PROVE  Alone' /\ Paired'
<1>1. /\ pc[p] = "wait" /\ pc[q] = "none" /\ q # p /\ pc' = [pc EXCEPT ![p] = "add"]
      /\ UNCHANGED <<start, thread_tmps>>
  BY DEF Spawned, Goto, Control, Children
<1>2. pc'[p] = "add" /\ \A r \in Pid \ {p} : pc'[r] = pc[r]
  BY <1>1 DEF TypeInt
<1>3. /\ \A r \in Pid \ {q}, s \in Pid \ {q} : s \in ksharers'[r] <=> s \in ksharers[r]
      /\ \A r \in Pid \ {q} : ksharers[r] = {r} /\ r # p => ksharers'[r] = {r}
  BY GroupsSpawned DEF Kin
<1>4. Alone'
  BY <1>1, <1>2, <1>3 DEF Alone, ExecPCs
<1>5. \A r \in Pid : Settled(r)' => r # q /\ Settled(r) /\ TableOf(r)' = TableOf(r)
  BY <1>1, <1>2 DEF Settled, TableOf, Attaching
<1>6. Paired'
  BY <1>3, <1>5 DEF Paired
<1> QED  BY <1>4, <1>6

\* A registered thread whose count is one is the only one to know its table.
LEMMA OnlyUser ==
  ASSUME TypeInt, Memory, StartHeld, NEW p \in Pid, pc[p] = "wait",
         ~ (share_count[thread_tmps[p].cell] > 1), NEW q \in Pid \ {p}, Settled(q)
  PROVE  TableOf(q) # thread_tmps[p].table
<1> SUFFICES ASSUME TableOf(q) = thread_tmps[p].table PROVE FALSE
  OBVIOUS
<1>1. Counted(p)
  BY DEF Counted, CountedPCs
<1>2. \E r \in Pid \ {p} : Counted(r) /\ thread_tmps[r].table = thread_tmps[p].table
  <2>1. CASE ~Attaching(q)
    BY <2>1 DEF Settled, TableOf, Attaching, Counted, CountedPCs
  <2>2. CASE Shared(q)
    <3>1. PICK r \in Pid : pc[r] = "list" /\ start[q] = thread_tmps[r]
      BY <2>2 DEF StartHeld, Shared
    <3> QED  BY <2>2, <3>1 DEF TableOf, Shared, Counted, CountedPCs
  <2>3. CASE Attaching(q) /\ ~HandedCount(start[q])
    <3>1. HoldsPrivate(q) /\ PrivateTable(q) = start[q].table /\ TableOf(q) = start[q].table
      BY <2>3 DEF HoldsPrivate, PrivateTable, ExecPCs, TableOf, Attaching
    <3> QED  BY <1>1, <3>1 DEF Memory, PrivateTables
  <2> QED  BY <2>1, <2>2, <2>3 DEF Shared
<1>3. PICK r \in Pid \ {p} : Counted(r) /\ thread_tmps[r].table = thread_tmps[p].table
  BY <1>2
<1>4. PICK c \in Cell : c = thread_tmps[p].cell /\ c = thread_tmps[r].cell /\ cell_mem[c] = "live"
  BY <1>1, <1>3 DEF Memory, EntryExists, EntryLive, SameTableSameMutex
<1>5. {p, r} \subseteq Sharers(c)
  BY <1>1, <1>3, <1>4 DEF Sharers
<1>6. Cardinality({p} \cup {r}) = 2
  <2>1. IsFiniteSet({p}) /\ Cardinality({p}) = 1 /\ r \notin {p}
    BY FS_Singleton, <1>3
  <2>2. Cardinality({p} \cup {r}) = Cardinality({p}) + 1
    BY <2>1, FS_AddElement
  <2> QED  BY <2>1, <2>2
<1>7. Cardinality({p} \cup {r}) <= Cardinality(Sharers(c)) /\ Cardinality(Sharers(c)) \in Nat
  <2>1. {p} \cup {r} \subseteq Sharers(c)
    BY <1>5
  <2> QED  BY <2>1, SharersFinite, FS_Subset, FS_CardinalityType
<1>8. share_count[c] = Cardinality(Sharers(c))
  BY <1>4 DEF Memory, Counts
<1> QED  BY <1>4, <1>6, <1>7, <1>8

\* After a successful execve the thread is on its way to a copy, unless its table
\* is its own already.
LEMMA SharingExecve ==
  ASSUME TypeInt, Memory, Kin, StartHeld, Alone, Paired, ExecResults \subseteq {TRUE},
         NEW p \in Pid, handle_execve_return(p)
  PROVE  Alone' /\ Paired'
<1>1. /\ pc[p] = "wait" /\ UNCHANGED <<start, thread_tmps>>
      /\ pc' = [pc EXCEPT ![p] = IF share_count[thread_tmps[p].cell] > 1
                                 THEN "exec_copy" ELSE "wait"]
  BY DEF handle_execve_return, AtReturn, Goto
<1>2. ksharers' = [r \in Pid |-> IF r = p THEN {p} ELSE ksharers[r] \ {p}]
  <2>1. PICK ok \in ExecResults :
          ksharers' = IF ok THEN [r \in Pid |-> IF r = p THEN {p} ELSE ksharers[r] \ {p}]
                            ELSE ksharers
    BY DEF handle_execve_return
  <2>2. ok = TRUE
    BY <2>1
  <2> QED  BY <2>1, <2>2
<1>3. /\ pc'[p] = IF share_count[thread_tmps[p].cell] > 1 THEN "exec_copy" ELSE "wait"
      /\ \A r \in Pid \ {p} : pc'[r] = pc[r]
  BY <1>1 DEF TypeInt
<1>4. \A r \in Pid : ksharers'[r] = IF r = p THEN {p} ELSE ksharers[r] \ {p}
  BY <1>2
<1>5. Alone'
  BY <1>3, <1>4 DEF Alone
<1>6. \A r \in Pid : Settled(r)' => Settled(r) /\ TableOf(r)' = TableOf(r)
  BY <1>1, <1>3 DEF Settled, TableOf, Attaching
<1>7. \A r \in Pid : Settled(p)' /\ Settled(r) /\ r # p => TableOf(r) # TableOf(p)
  <2>1. Settled(p)' => ~ (share_count[thread_tmps[p].cell] > 1)
    BY <1>3 DEF Settled
  <2>2. TableOf(p) = thread_tmps[p].table
    BY <1>1 DEF TableOf, Attaching
  <2> QED  BY <1>1, <2>1, <2>2, OnlyUser
<1>8. ASSUME NEW r \in Pid, NEW s \in Pid, Settled(r)', Settled(s)'
      PROVE  TableOf(r)' = TableOf(s)' <=> s \in ksharers'[r]
  <2>1. Settled(r) /\ Settled(s) /\ TableOf(r)' = TableOf(r) /\ TableOf(s)' = TableOf(s)
    BY <1>6, <1>8
  <2>2. CASE r # p /\ s # p
    BY <1>4, <2>1, <2>2 DEF Paired
  <2>3. CASE r = p /\ s = p
    BY <1>4, <2>3
  <2>4. CASE (r = p /\ s # p) \/ (r # p /\ s = p)
    <3>1. s \notin ksharers'[r]
      BY <1>4, <2>4
    <3>2. TableOf(r) # TableOf(s)
      BY <1>7, <1>8, <2>1, <2>4
    <3> QED  BY <2>1, <3>1, <3>2
  <2> QED  BY <2>2, <2>3, <2>4
<1>9. Paired'
  BY <1>8 DEF Paired
<1> QED  BY <1>5, <1>9

\* One thread gets a table that no settled thread has, alone in the kernel.
LEMMA SharingNew ==
  ASSUME Kin, Paired, NEW p \in Pid, UNCHANGED ksharers, ksharers[p] = {p},
         \A q \in Pid \ {p} : Settled(q)' => /\ Settled(q) /\ TableOf(q)' = TableOf(q)
                                           /\ TableOf(q) # TableOf(p)'
  PROVE  Paired'
<1>1. \A q \in Pid \ {p} : q \notin ksharers[p] /\ p \notin ksharers[q]
  BY DEF Kin, Groups
<1>2. ASSUME NEW r \in Pid, NEW s \in Pid, Settled(r)', Settled(s)'
      PROVE  TableOf(r)' = TableOf(s)' <=> s \in ksharers'[r]
  <2>1. CASE r # p /\ s # p
    BY <1>2, <2>1 DEF Paired
  <2>2. CASE r = p /\ s = p
    BY <2>2
  <2>3. CASE r = p /\ s # p
    BY <1>1, <1>2, <2>3
  <2>4. CASE r # p /\ s = p
    BY <1>1, <1>2, <2>4
  <2> QED  BY <2>1, <2>2, <2>3, <2>4
<1> QED  BY <1>2 DEF Paired

LEMMA SharingAdopt ==
  ASSUME TypeInt, Memory, Kin, Alone, Paired, NEW p \in Pid, NEW c, Adopt(p, c),
         pc[p] \in {"exec_reuse", "exec_new"}
  PROVE  Alone' /\ Paired'
<1>1. /\ pc' = [pc EXCEPT ![p] = "wait"] /\ UNCHANGED <<ksharers, start>>
      /\ thread_tmps' = [thread_tmps EXCEPT ![p] = [table |-> fd_copy[p], cell |-> c]]
  BY DEF Adopt, Goto
<1>2. /\ pc'[p] = "wait" /\ thread_tmps'[p].table = fd_copy[p]
      /\ \A q \in Pid \ {p} : pc'[q] = pc[q] /\ thread_tmps'[q] = thread_tmps[q]
  BY <1>1 DEF TypeInt
<1>3. Alone'
  BY <1>1, <1>2 DEF Alone, ExecPCs
<1>4. ksharers[p] = {p} /\ pc[p] \in ExecPCs
  BY DEF Alone, ExecPCs
<1>5. TableOf(p)' = fd_copy[p]
  BY <1>2 DEF TableOf, Attaching
<1>6. ASSUME NEW q \in Pid \ {p}, Settled(q)'
      PROVE  Settled(q) /\ TableOf(q)' = TableOf(q) /\ TableOf(q) # TableOf(p)'
  <2>1. Settled(q) /\ TableOf(q)' = TableOf(q)
    BY <1>1, <1>2, <1>6 DEF Settled, TableOf, Attaching
  <2> QED  BY <1>4, <1>5, <2>1, TablesKnown
<1>7. Paired'
  BY <1>1, <1>4, <1>6, SharingNew
<1> QED  BY <1>3, <1>7

LEMMA SharingAdd ==
  ASSUME TypeInt, Control, Memory, Kin, Alone, Paired, NEW p \in Pid, threads_add(p)
  PROVE  Alone' /\ Paired'
<1>1. PICK q \in Pid \ {p} :
           /\ q = child[p].pid /\ Counted(p) /\ pc[q] = "none"
           /\ pc'[p] = "list" /\ pc'[q] = "attach"
           /\ \A x \in Pid \ {p, q} : pc'[x] = pc[x]
           /\ \A x \in Pid \ {q} : start'[x] = start[x]
           /\ UNCHANGED <<thread_tmps, fd_copy, cell_mem, share_count>>
  BY AddEffect
<1>2. pc[p] = "add" /\ UNCHANGED ksharers
  BY DEF threads_add
<1>3. Alone'
  BY <1>1, <1>2 DEF Alone, ExecPCs
<1>4. \A r \in Pid \ {q} : Settled(r)' => Settled(r) /\ TableOf(r)' = TableOf(r)
  BY <1>1, <1>2 DEF Settled, TableOf, Attaching
<1>5. Settled(p) /\ TableOf(p) = thread_tmps[p].table
  BY <1>2 DEF Settled, TableOf, Attaching
<1>6. TableOf(q)' = start'[q].table
  BY <1>1 DEF TableOf, Attaching
<1>7. CASE child[p].share
  <2>1. start'[q] = thread_tmps[p]
    BY <1>1, <1>7 DEF threads_add, TypeInt
  <2>2. TableOf(q)' = TableOf(p)
    BY <1>5, <1>6, <2>1
  <2>3. ksharers[q] = ksharers[p] /\ q \in ksharers[p]
    BY <1>1, <1>2, <1>7 DEF Kin, Groups, Cloned
  <2>4. ASSUME NEW r \in Pid \ {q}, Settled(r)'
        PROVE  /\ TableOf(q)' = TableOf(r)' <=> r \in ksharers[q]
               /\ TableOf(r)' = TableOf(q)' <=> q \in ksharers[r]
    <3>1. TableOf(r) = TableOf(p) <=> r \in ksharers[p]
      BY <1>4, <1>5, <2>4 DEF Paired
    <3>2. r \in ksharers[q] <=> q \in ksharers[r]
      BY DEF Kin, Groups
    <3> QED  BY <1>4, <2>2, <2>3, <2>4, <3>1, <3>2
  <2>5. ASSUME NEW r \in Pid, NEW s \in Pid, Settled(r)', Settled(s)'
        PROVE  TableOf(r)' = TableOf(s)' <=> s \in ksharers'[r]
    <3>1. CASE r # q /\ s # q
      BY <1>2, <1>4, <2>5, <3>1 DEF Paired
    <3>2. CASE r = q /\ s = q
      BY <1>2, <3>2 DEF Kin, Groups
    <3>3. CASE r = q /\ s # q
      BY <1>2, <2>4, <2>5, <3>3
    <3>4. CASE r # q /\ s = q
      BY <1>2, <2>4, <2>5, <3>4
    <3> QED  BY <3>1, <3>2, <3>3, <3>4
  <2>6. Paired'
    BY <2>5 DEF Paired
  <2> QED  BY <1>3, <2>6
<1>8. CASE ~child[p].share
  <2>1. Unused(table_mem) # {} /\ start'[q].table = NewTable
    BY <1>1, <1>8 DEF threads_add, TypeInt
  <2>2. table_mem[NewTable] = "unused"
    BY <2>1, NewTableUnused
  <2>3. ksharers[q] = {q}
    BY <1>1, <1>2, <1>8 DEF Kin, Cloned
  <2>4. \A r \in Pid \ {q} : Settled(r)' => TableOf(r) # TableOf(q)'
    BY <1>4, <1>6, <2>1, <2>2, TablesKnown
  <2>5. Paired'
    BY <1>2, <1>4, <2>3, <2>4, SharingNew
  <2> QED  BY <1>3, <2>5
<1> QED  BY <1>7, <1>8

LEMMA SharingThread ==
  ASSUME TypeInt, Control, Memory, Kin, Alone, Paired, NEW p \in Pid, Thread(p)
  PROVE  Alone' /\ Paired'
<1> USE DEF Goto, ExecPCs, Settled, TableOf, Attaching
<1>1. CASE exec_copy(p) \/ exec_release(p)
  BY <1>1, SharingGoto DEF exec_copy, exec_release, TypeInt
<1>2. CASE exec_reuse(p) \/ exec_new(p)
  BY <1>2, SharingAdopt DEF exec_reuse, exec_new
<1>3. CASE threads_add(p)
  BY <1>3, SharingAdd
<1>4. CASE threads_prepend(p)
  BY <1>4, SharingGoto DEF threads_prepend, TypeInt
<1>5. CASE thread_tmps_insert(p)
  BY <1>5, SharingGoto DEF thread_tmps_insert, TypeInt
<1>6. CASE insert_dangling(p)
  BY <1>6, SharingStay DEF insert_dangling
<1>7. CASE wait_exited(p) \/ wait_signaled(p) \/ wait_uninitialised(p)
  BY <1>7, SharingGoto DEF wait_exited, wait_signaled, wait_uninitialised, TypeInt
<1>8. CASE file_state_merge(p) \/ syscall_stat_merge(p)
  BY <1>8, SharingGoto DEF file_state_merge, syscall_stat_merge, TypeInt
<1>9. CASE thread_tmps_remove(p)
  BY <1>9, SharingGoto DEF thread_tmps_remove, TypeInt
<1>10. CASE thread_func_dec(p) \/ thread_func_return(p)
  BY <1>10, SharingGoto DEF thread_func_dec, thread_func_return, TypeInt
<1> QED  BY <1>1, <1>2, <1>3, <1>4, <1>5, <1>6, <1>7, <1>8, <1>9, <1>10 DEF Thread

LEMMA SharingStep == WellBehaved /\ IInv /\ SharingInv /\ [Next]_vars => SharingInv'
<1> SUFFICES ASSUME WellBehaved, IInv, SharingInv, [Next]_vars PROVE SharingInv'
  OBVIOUS
<1>1. Kin' /\ StartHeld'
  BY KinStep, HeldStep DEF WellBehaved, SharingInv
<1>2. ASSUME NEW p \in Pid, Environment(p) PROVE Alone' /\ Paired'
  <2>1. CASE \E q \in Pid : clone_event(p, q) \/ fork_event(p, q)
    BY <2>1, SharingSpawned DEF clone_event, fork_event, IInv, SharingInv
  <2>2. CASE exit_event(p) \/ kill_event(p) \/ file_call(p) \/ handle_unconsidered_return(p)
             \/ open_abort(p)
    BY <2>2, SharingStay DEF SharingInv, exit_event, kill_event, file_call,
                             handle_unconsidered_return, open_abort
  <2>3. CASE handle_execve_return(p)
    BY <2>3, SharingExecve DEF IInv, SharingInv, WellBehaved
  <2> QED  BY <1>2, <2>1, <2>2, <2>3 DEF Environment
<1>3. ASSUME NEW p \in Pid, Thread(p) PROVE Alone' /\ Paired'
  BY <1>3, SharingThread DEF IInv, SharingInv
<1>4. CASE Main
  <2>1. Root \in Pid /\ pc \in [Pid -> PCs] /\ Alone /\ Paired
    BY TracersAssumption DEF IInv, TypeInt, SharingInv
  <2>2. /\ UNCHANGED <<ksharers, start, thread_tmps>>
        /\ \E l \in {"join", "print", "exited"} : pc' = [pc EXCEPT ![Root] = l]
    BY <1>4 DEF Main, main_poll, main_join, main_print, Goto
  <2>3. pc'[Root] \in {"join", "print", "exited"} /\ \A q \in Pid \ {Root} : pc'[q] = pc[q]
    BY <2>1, <2>2
  <2>4. pc'[Root] \notin ExecPCs \cup {"exec_copy"} /\ ~Settled(Root)'
    BY <2>3 DEF ExecPCs, Settled
  <2>5. Alone' /\ Paired'
    BY <2>1, <2>2, <2>3, <2>4, SharingGoto
  <2> QED  BY <1>1, <2>5 DEF SharingInv
<1>5. CASE UNCHANGED vars
  BY <1>1, <1>5, SharingStay DEF SharingInv, vars
<1> QED  BY <1>1, <1>2, <1>3, <1>4, <1>5 DEF Next, SharingInv

\* Groups of the kernel, the tables handed on and the tables in use fit together.
THEOREM SharingInvariance == WellBehaved => (Spec => []SharingInv)
<1> SUFFICES ASSUME WellBehaved PROVE Spec => []SharingInv
  OBVIOUS
<1>1. Init => SharingInv
  BY KinInit, HeldInit, SharingInit DEF SharingInv
<1> QED  BY <1>1, SharingStep, Invariance, PTL DEF Spec

\* The threads of two tasks share a table exactly when the kernel does, while others
\* join, leave by execve and end (threads_add, thread_tmps_insert,
\* handle_execve_return).
THEOREM SharingFollows == WellBehaved => (Spec => []SharingMirrorsKernel)
<1> SUFFICES ASSUME WellBehaved PROVE Spec => []SharingMirrorsKernel
  OBVIOUS
<1>1. SharingInv => SharingMirrorsKernel
  BY DEF SharingInv, Paired, Settled, TableOf, Attaching, SharingMirrorsKernel, AtReturn
<1> QED  BY <1>1, SharingInvariance, PTL

=============================================================================
