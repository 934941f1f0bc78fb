------------------------------ MODULE Tracers ------------------------------
(***************************************************************************)
(* The tracer threads of iotrace: one thread per traced task, started by   *)
(* the tracer of the task's parent (main.c), each owning an entry of       *)
(* thread_tmps_table that points to a file descriptor table and to a       *)
(* reference count and mutex (thread_temporaries.c).  Tasks created with   *)
(* CLONE_FILES share the table; execve gives the task a table of its own   *)
(* (handle_execve_return of syscall_handler.c).  Each thread merges its    *)
(* statistics into the global tables when its task is gone, and the main   *)
(* thread, after the others, publishes them.                               *)
(*                                                                         *)
(* A step of this module is one access to state other threads can see; the *)
(* statements between two such accesses belong to the step before or after.*)
(* A critical section of a mutex is one step.                              *)
(***************************************************************************)
EXTENDS Naturals, FiniteSets

CONSTANTS Pid,          \* the tasks that may be traced
          Root,         \* the first of them, forked by main
          Table,        \* addresses of fd tables (GHashTable)
          Cell,         \* addresses of a share_count with its fd_mutex
          None,
          MaxCalls,     \* bound on the syscalls per task
          ForkBits,     \* what bit CLONE_FILES of RDI may be at a fork or vfork
          ExecResults,  \* the outcomes of execve: TRUE is success
          Killable,     \* the tasks that a signal may kill
          PromptStart   \* whether a new thread registers before its creator goes on

ASSUME TracersAssumption ==
  /\ Root \in Pid
  /\ IsFiniteSet(Pid)
  /\ None \notin Pid \cup Table \cup Cell
  /\ Table # {} /\ Cell # {}
  /\ MaxCalls \in Nat
  /\ ForkBits \subseteq BOOLEAN
  /\ ExecResults \subseteq BOOLEAN
  /\ Killable \subseteq Pid
  /\ PromptStart \in BOOLEAN

VARIABLES
  tracee,       \* the kernel's view of each task
  ksharers,     \* the tasks each task shares its kernel file table with
  pc,           \* where the tracer thread of each task is
  child,        \* local of wait_for_syscall: the task being added, its CLONE_FILES bit
  start,        \* thread_start_data handed to a new thread
  thread_tmps,  \* the entry of each task in thread_tmps_table
  fd_copy,      \* local of handle_execve_return
  table_mem,    \* life of each fd table
  cell_mem,     \* life of each share_count and fd_mutex
  share_count,
  active_threads,
  threads,      \* the list of threads to join
  stats,        \* what each thread's own statistics tables hold
  main_file_stat_table,   \* what each thread has merged into it
  main_syscall_table,
  report,       \* None, or the statistics written
  status        \* of the process: running, aborted by exit(1), or corrupt

mem == <<table_mem, cell_mem, share_count>>
tables == <<main_file_stat_table, main_syscall_table, report>>
vars == <<tracee, ksharers, pc, child, start, thread_tmps, fd_copy, mem,
          active_threads, threads, stats, tables, status>>

-----------------------------------------------------------------------------
Ref == [table : Table \cup {None}, cell : Cell \cup {None}]
NoRef == [table |-> None, cell |-> None]
NoChild == [pid |-> None, share |-> FALSE]
Mem == {"unused", "live", "freed"}

\* A thread is counted in share_count from thread_tmps_insert to
\* thread_tmps_remove, except while execve moves it to another table.
CountedPCs == {"wait", "add", "list", "exec_copy", "exec_release",
               "merge_file", "merge_sys", "remove", "stuck"}
PCs == CountedPCs \cup {"none", "attach", "exec_reuse", "exec_new", "finish",
                        "returning", "ended", "poll", "join", "print", "exited"}

\* malloc: which unused address is returned does not matter; a freed one is
\* never returned again, so that a stale pointer stays recognisable.
Unused(m) == {a \in DOMAIN m : m[a] = "unused"}
NewTable == CHOOSE t \in Table : table_mem[t] = "unused"
NewCell == CHOOSE c \in Cell : cell_mem[c] = "unused"

\* The start data still points to a table, a count and a mutex that some
\* registered thread keeps alive.
Usable(r) == /\ table_mem[r.table] = "live"
             /\ cell_mem[r.cell] = "live"
             /\ share_count[r.cell] > 0

\* Mutant: the count is tested before the decrement.
LastRef_untested(c) == share_count[c] = 0

\* Mutant: an off-by-one in the test.
LastRef_early(c) == share_count[c] \in {1, 2}

\* g_atomic_int_dec_and_test: the decrement that leaves zero.
LastRef(c) == share_count[c] = 1

\* Mutant: every thread allocates a count and a mutex.
HandedCount_never(r) == FALSE

\* The start data carries the count and the mutex of the parent.
HandedCount(r) == r.cell # None

Goto(p, l) == pc' = [pc EXCEPT ![p] = l]

\* The table main_tracer creates, and the count and mutex of its thread.
FirstTable == CHOOSE t \in Table : TRUE
FirstCell == CHOOSE c \in Cell : TRUE

Init ==
  /\ tracee = [p \in Pid |-> IF p = Root THEN "running" ELSE "unborn"]
  /\ ksharers = [p \in Pid |-> {p}]
  /\ pc = [p \in Pid |-> IF p = Root THEN "wait" ELSE "none"]
  /\ child = [p \in Pid |-> NoChild]
  /\ start = [p \in Pid |-> NoRef]
  /\ thread_tmps = [p \in Pid |-> IF p = Root THEN [table |-> FirstTable, cell |-> FirstCell]
                                   ELSE NoRef]
  /\ fd_copy = [p \in Pid |-> None]
  /\ table_mem = [t \in Table |-> IF t = FirstTable THEN "live" ELSE "unused"]
  /\ cell_mem = [c \in Cell |-> IF c = FirstCell THEN "live" ELSE "unused"]
  /\ share_count = [c \in Cell |-> IF c = FirstCell THEN 1 ELSE 0]
  /\ active_threads = 0
  /\ threads = {}
  /\ stats = [p \in Pid |-> [file |-> 0, sys |-> 0]]
  /\ main_file_stat_table = [p \in Pid |-> 0]
  /\ main_syscall_table = [p \in Pid |-> 0]
  /\ report = None
  /\ status = "running"

-----------------------------------------------------------------------------
(* What the tasks and the kernel do.                                       *)

\* The kernel reports a new task q of p; bit is what RDI of p shows.
Spawned(p, q, files, bit) ==
  /\ pc[p] = "wait" /\ tracee[p] = "running"
  /\ tracee[q] = "unborn"
  /\ tracee' = [tracee EXCEPT ![q] = "running"]
  /\ ksharers' = LET group == IF files THEN ksharers[p] \cup {q} ELSE {q}
                 IN [r \in Pid |-> IF r \in group THEN group ELSE ksharers[r]]
  /\ child' = [child EXCEPT ![p] = [pid |-> q, share |-> bit]]
  /\ Goto(p, "add")
  /\ UNCHANGED <<start, thread_tmps, fd_copy, mem, active_threads, threads,
                 stats, tables, status>>

\* Mutant: the flags are tested without the mask CLONE_FILES.
clone_event_unmasked(p, q) == \E files \in BOOLEAN : Spawned(p, q, files, TRUE)

\* PTRACE_EVENT_CLONE: the first argument of clone is its flags.
clone_event(p, q) == \E files \in BOOLEAN : Spawned(p, q, files, files)

\* PTRACE_EVENT_FORK, PTRACE_EVENT_VFORK: the kernel copies the file table;
\* RDI is no argument of fork and vfork.  A clone reported by these events,
\* for its exit signal is SIGCHLD or it has CLONE_VFORK, is a clone_event.
fork_event(p, q) == \E bit \in ForkBits : Spawned(p, q, FALSE, bit)

\* The task exits; it can only while its tracer waits for it.
exit_event(p) ==
  /\ pc[p] = "wait" /\ tracee[p] = "running"
  /\ tracee' = [tracee EXCEPT ![p] = "exited"]
  /\ UNCHANGED <<ksharers, pc, child, start, thread_tmps, fd_copy, mem,
                 active_threads, threads, stats, tables, status>>

\* A signal kills the task, whether it runs or is stopped; "lost" is a task that
\* is gone before wait_for_syscall waits for it, by a signal, or by exit_group or
\* execve of its thread group, as long as no syscall of it was handled.
kill_event(p) ==
  /\ p \in Killable /\ tracee[p] = "running"
  /\ \/ /\ pc[p] \notin {"none", "attach"}
        /\ tracee' = [tracee EXCEPT ![p] = "killed"]
     \/ /\ stats[p].file + stats[p].sys = 0
        /\ tracee' = [tracee EXCEPT ![p] = "lost"]
  /\ UNCHANGED <<ksharers, pc, child, start, thread_tmps, fd_copy, mem,
                 active_threads, threads, stats, tables, status>>

-----------------------------------------------------------------------------
(* The tracer thread of p handles the return of a syscall.                 *)

AtReturn(p) == pc[p] = "wait" /\ tracee[p] = "running"

\* A syscall of the file statistics.
file_call(p) ==
  /\ AtReturn(p)
  /\ stats[p].file + stats[p].sys < MaxCalls
  /\ stats' = [stats EXCEPT ![p].file = @ + 1]
  /\ UNCHANGED <<tracee, ksharers, pc, child, start, thread_tmps, fd_copy, mem,
                 active_threads, threads, tables, status>>

\* Any other syscall but execve.
handle_unconsidered_return(p) ==
  /\ AtReturn(p)
  /\ stats[p].file + stats[p].sys < MaxCalls
  /\ stats' = [stats EXCEPT ![p].sys = @ + 1]
  /\ UNCHANGED <<tracee, ksharers, pc, child, start, thread_tmps, fd_copy, mem,
                 active_threads, threads, tables, status>>

\* The filename of an open cannot be read: the whole process exits.
open_abort(p) ==
  /\ AtReturn(p)
  /\ status' = "aborted"
  /\ UNCHANGED <<tracee, ksharers, pc, child, start, thread_tmps, fd_copy, mem,
                 active_threads, threads, stats, tables>>

\* Mutant: execve is handled as any other syscall.
handle_execve_return_ignored(p) ==
  /\ AtReturn(p)
  /\ stats[p].file + stats[p].sys < MaxCalls
  /\ stats' = [stats EXCEPT ![p].sys = @ + 1]
  /\ \E ok \in ExecResults :
       ksharers' = IF ok THEN [r \in Pid |-> IF r = p THEN {p} ELSE ksharers[r] \ {p}]
                         ELSE ksharers
  /\ UNCHANGED <<tracee, pc, child, start, thread_tmps, fd_copy, mem,
                 active_threads, threads, tables, status>>

\* execve returns, with success or not; the kernel unshares on success only.
handle_execve_return(p) ==
  /\ AtReturn(p)
  /\ stats[p].file + stats[p].sys < MaxCalls
  /\ stats' = [stats EXCEPT ![p].sys = @ + 1]
  /\ \E ok \in ExecResults :
       ksharers' = IF ok THEN [r \in Pid |-> IF r = p THEN {p} ELSE ksharers[r] \ {p}]
                         ELSE ksharers
  /\ Goto(p, IF share_count[thread_tmps[p].cell] > 1 THEN "exec_copy" ELSE "wait")
  /\ UNCHANGED <<tracee, child, start, thread_tmps, fd_copy, mem,
                 active_threads, threads, tables, status>>

\* The copy is made before the reference is given up.
exec_copy(p) ==
  /\ pc[p] = "exec_copy"
  /\ Unused(table_mem) # {}
  /\ fd_copy' = [fd_copy EXCEPT ![p] = NewTable]
  /\ table_mem' = [table_mem EXCEPT ![NewTable] = "live"]
  /\ Goto(p, "exec_release")
  /\ UNCHANGED <<tracee, ksharers, child, start, thread_tmps, cell_mem, share_count,
                 active_threads, threads, stats, tables, status>>

\* g_atomic_int_dec_and_test: the last one to leave frees the old table, and
\* keeps the count and the mutex.
exec_release(p) ==
  LET r == thread_tmps[p] IN
  /\ pc[p] = "exec_release"
  /\ share_count' = [share_count EXCEPT ![r.cell] = @ - 1]
  /\ \/ /\ LastRef(r.cell)
        /\ table_mem' = [table_mem EXCEPT ![r.table] = "freed"]
        /\ Goto(p, "exec_reuse")
     \/ /\ ~LastRef(r.cell)
        /\ Goto(p, "exec_new")
        /\ UNCHANGED table_mem
  /\ UNCHANGED <<tracee, ksharers, child, start, thread_tmps, fd_copy, cell_mem,
                 active_threads, threads, stats, tables, status>>

\* Mutant: the new reference is not counted.
Adopt_uncounted(p, c) ==
  /\ thread_tmps' = [thread_tmps EXCEPT ![p] = [table |-> fd_copy[p], cell |-> c]]
  /\ fd_copy' = [fd_copy EXCEPT ![p] = None]
  /\ Goto(p, "wait")
  /\ UNCHANGED <<tracee, ksharers, child, start, table_mem, share_count, active_threads,
                 threads, stats, tables, status>>

\* The copy becomes the table of p, under count and mutex c.
Adopt(p, c) ==
  /\ thread_tmps' = [thread_tmps EXCEPT ![p] = [table |-> fd_copy[p], cell |-> c]]
  /\ fd_copy' = [fd_copy EXCEPT ![p] = None]
  /\ share_count' = [share_count EXCEPT ![c] = @ + 1]
  /\ Goto(p, "wait")
  /\ UNCHANGED <<tracee, ksharers, child, start, table_mem, active_threads,
                 threads, stats, tables, status>>

exec_reuse(p) ==
  /\ pc[p] = "exec_reuse"
  /\ Adopt(p, thread_tmps[p].cell)
  /\ UNCHANGED cell_mem

exec_new(p) ==
  /\ pc[p] = "exec_new"
  /\ Unused(cell_mem) # {}
  /\ cell_mem' = [cell_mem EXCEPT ![NewCell] = "live"]
  /\ Adopt(p, NewCell)

-----------------------------------------------------------------------------
(* A new task: the tracer of the parent starts a thread for it.            *)

\* Mutant: the thread is not counted.
threads_add_uncounted(p) ==
  LET q == child[p].pid IN
  /\ pc[p] = "add"
  /\ \/ /\ child[p].share
        /\ start' = [start EXCEPT ![q] = thread_tmps[p]]
        /\ UNCHANGED table_mem
     \/ /\ ~child[p].share
        /\ Unused(table_mem) # {}
        /\ start' = [start EXCEPT ![q] = [table |-> NewTable, cell |-> None]]
        /\ table_mem' = [table_mem EXCEPT ![NewTable] = "live"]
  /\ pc' = [pc EXCEPT ![p] = "list", ![q] = "attach"]
  /\ UNCHANGED <<tracee, ksharers, child, thread_tmps, fd_copy, cell_mem, share_count,
                 active_threads, threads, stats, tables, status>>

\* Counts the thread, fills its start data and starts it.
threads_add(p) ==
  LET q == child[p].pid IN
  /\ pc[p] = "add"
  /\ active_threads' = active_threads + 1
  /\ \/ /\ child[p].share
        /\ start' = [start EXCEPT ![q] = thread_tmps[p]]
        /\ UNCHANGED table_mem
     \/ /\ ~child[p].share
        /\ Unused(table_mem) # {}
        /\ start' = [start EXCEPT ![q] = [table |-> NewTable, cell |-> None]]
        /\ table_mem' = [table_mem EXCEPT ![NewTable] = "live"]
  /\ pc' = [pc EXCEPT ![p] = "list", ![q] = "attach"]
  /\ UNCHANGED <<tracee, ksharers, child, thread_tmps, fd_copy, cell_mem, share_count,
                 threads, stats, tables, status>>

\* The thread enters the list, whose mutex main keeps while it joins.
threads_prepend(p) ==
  /\ pc[p] = "list"
  /\ pc[Root] # "join"
  /\ PromptStart => pc[child[p].pid] # "attach"
  /\ threads' = threads \cup {child[p].pid}
  /\ child' = [child EXCEPT ![p] = NoChild]
  /\ Goto(p, "wait")
  /\ UNCHANGED <<tracee, ksharers, start, thread_tmps, fd_copy, mem,
                 active_threads, stats, tables, status>>

\* The new thread takes its reference: of the count it was handed, or of one
\* it allocates.
thread_tmps_insert(q) ==
  LET r == start[q]
      c == IF HandedCount(r) THEN r.cell ELSE NewCell
  IN
  /\ pc[q] = "attach"
  /\ IF HandedCount(r) THEN Usable(r) ELSE Unused(cell_mem) # {}
  /\ cell_mem' = [cell_mem EXCEPT ![c] = "live"]
  /\ share_count' = [share_count EXCEPT ![c] = @ + 1]
  /\ thread_tmps' = [thread_tmps EXCEPT ![q] = [table |-> r.table, cell |-> c]]
  /\ start' = [start EXCEPT ![q] = NoRef]
  /\ Goto(q, "wait")
  /\ UNCHANGED <<tracee, ksharers, child, fd_copy, table_mem, active_threads,
                 threads, stats, tables, status>>

\* What it was handed has been given up in the meantime: the thread works on
\* freed memory, and nothing can be said of the process any more.
insert_dangling(q) ==
  /\ pc[q] = "attach"
  /\ HandedCount(start[q]) /\ ~Usable(start[q])
  /\ status' = "corrupt"
  /\ UNCHANGED <<tracee, ksharers, pc, child, start, thread_tmps, fd_copy, mem,
                 active_threads, threads, stats, tables>>

-----------------------------------------------------------------------------
(* The tracee is gone: merge, unregister, end.                             *)

\* Mutant: the thread ends without merging.
wait_exited_unmerged(p) ==
  /\ pc[p] = "wait" /\ tracee[p] = "exited"
  /\ Goto(p, "remove")
  /\ UNCHANGED <<tracee, ksharers, child, start, thread_tmps, fd_copy, mem,
                 active_threads, threads, stats, tables, status>>

wait_exited(p) ==
  /\ pc[p] = "wait" /\ tracee[p] = "exited"
  /\ Goto(p, "merge_file")
  /\ UNCHANGED <<tracee, ksharers, child, start, thread_tmps, fd_copy, mem,
                 active_threads, threads, stats, tables, status>>

\* A task killed by a signal does not satisfy WIFEXITED: wait_for_syscall
\* goes round forever.
wait_signaled(p) ==
  /\ pc[p] = "wait" /\ tracee[p] \in {"killed", "lost"}
  /\ Goto(p, "stuck")
  /\ UNCHANGED <<tracee, ksharers, child, start, thread_tmps, fd_copy, mem,
                 active_threads, threads, stats, tables, status>>

\* For a task never attached waitpid fails and status is uninitialised: it
\* may also look like an exit.
wait_uninitialised(p) ==
  /\ pc[p] = "wait" /\ tracee[p] = "lost"
  /\ Goto(p, "merge_file")
  /\ UNCHANGED <<tracee, ksharers, child, start, thread_tmps, fd_copy, mem,
                 active_threads, threads, stats, tables, status>>

file_state_merge(p) ==
  /\ pc[p] = "merge_file"
  /\ main_file_stat_table' = [main_file_stat_table EXCEPT ![p] = @ + stats[p].file]
  /\ Goto(p, "merge_sys")
  /\ UNCHANGED <<tracee, ksharers, child, start, thread_tmps, fd_copy, mem,
                 active_threads, threads, stats, main_syscall_table, report, status>>

syscall_stat_merge(p) ==
  /\ pc[p] = "merge_sys"
  /\ main_syscall_table' = [main_syscall_table EXCEPT ![p] = @ + stats[p].sys]
  /\ Goto(p, "remove")
  /\ UNCHANGED <<tracee, ksharers, child, start, thread_tmps, fd_copy, mem,
                 active_threads, threads, stats, main_file_stat_table, report, status>>

\* The entry goes, and with the last reference the table, count and mutex.
thread_tmps_remove(p) ==
  LET r == thread_tmps[p]
      last == LastRef(r.cell)
  IN
  /\ pc[p] = "remove"
  /\ share_count' = [share_count EXCEPT ![r.cell] = @ - 1]
  /\ table_mem' = IF last THEN [table_mem EXCEPT ![r.table] = "freed"] ELSE table_mem
  /\ cell_mem' = IF last THEN [cell_mem EXCEPT ![r.cell] = "freed"] ELSE cell_mem
  /\ thread_tmps' = [thread_tmps EXCEPT ![p] = NoRef]
  /\ Goto(p, IF p = Root THEN "poll" ELSE "finish")
  /\ UNCHANGED <<tracee, ksharers, child, start, fd_copy, active_threads,
                 threads, stats, tables, status>>

\* Mutant: the thread ends without leaving active_threads.
thread_func_dec_missing(p) ==
  /\ pc[p] = "finish"
  /\ Goto(p, "returning")
  /\ UNCHANGED <<tracee, ksharers, child, start, thread_tmps, fd_copy, mem,
                 active_threads, threads, stats, tables, status>>

\* The end of thread_func: main's poll may see zero before the thread is over.
thread_func_dec(p) ==
  /\ pc[p] = "finish"
  /\ active_threads' = active_threads - 1
  /\ Goto(p, "returning")
  /\ UNCHANGED <<tracee, ksharers, child, start, thread_tmps, fd_copy, mem,
                 threads, stats, tables, status>>

thread_func_return(p) ==
  /\ pc[p] = "returning"
  /\ Goto(p, "ended")
  /\ UNCHANGED <<tracee, ksharers, child, start, thread_tmps, fd_copy, mem,
                 active_threads, threads, stats, tables, status>>

-----------------------------------------------------------------------------
(* The main thread, once its own tracee is gone.                           *)

main_poll ==
  /\ pc[Root] = "poll" /\ active_threads = 0
  /\ Goto(Root, "join")
  /\ UNCHANGED <<tracee, ksharers, child, start, thread_tmps, fd_copy, mem,
                 active_threads, threads, stats, tables, status>>

\* Mutant: only one thread of the list is joined.
main_join_one ==
  /\ pc[Root] = "join"
  /\ threads # {} => \E q \in threads : pc[q] = "ended"
  /\ Goto(Root, "print")
  /\ UNCHANGED <<tracee, ksharers, child, start, thread_tmps, fd_copy, mem,
                 active_threads, threads, stats, tables, status>>

main_join ==
  /\ pc[Root] = "join"
  /\ \A q \in threads : pc[q] = "ended"
  /\ Goto(Root, "print")
  /\ UNCHANGED <<tracee, ksharers, child, start, thread_tmps, fd_copy, mem,
                 active_threads, threads, stats, tables, status>>

main_print ==
  /\ pc[Root] = "print"
  /\ report' = [p \in Pid |-> [file |-> main_file_stat_table[p],
                               sys |-> main_syscall_table[p]]]
  /\ Goto(Root, "exited")
  /\ UNCHANGED <<tracee, ksharers, child, start, thread_tmps, fd_copy, mem,
                 active_threads, threads, stats, main_file_stat_table,
                 main_syscall_table, status>>

-----------------------------------------------------------------------------
\* What the tasks do, at their own pace and perhaps never.
Environment(p) ==
  \/ \E q \in Pid : clone_event(p, q) \/ fork_event(p, q)
  \/ exit_event(p) \/ kill_event(p)
  \/ file_call(p) \/ handle_unconsidered_return(p)
  \/ open_abort(p) \/ handle_execve_return(p)

\* The steps of the tracer thread of p that wait for nothing but the tasks
\* already gone.
Thread(p) ==
  \/ exec_copy(p) \/ exec_release(p) \/ exec_reuse(p) \/ exec_new(p)
  \/ threads_add(p) \/ threads_prepend(p)
  \/ thread_tmps_insert(p) \/ insert_dangling(p)
  \/ wait_exited(p) \/ wait_signaled(p) \/ wait_uninitialised(p)
  \/ file_state_merge(p) \/ syscall_stat_merge(p) \/ thread_tmps_remove(p)
  \/ thread_func_dec(p) \/ thread_func_return(p)

Main == main_poll \/ main_join \/ main_print

\* Once exit(1) is called or memory is corrupt there is nothing to say.
Next == /\ status = "running"
        /\ \/ \E p \in Pid : Environment(p) \/ Thread(p)
           \/ Main

Spec == Init /\ [][Next]_vars

\* Every thread of iotrace is scheduled; a tracee need not do anything.
Fairness == /\ \A p \in Pid : WF_vars(status = "running" /\ Thread(p))
            /\ WF_vars(status = "running" /\ Main)

FairSpec == Spec /\ Fairness

-----------------------------------------------------------------------------
Counted(p) == pc[p] \in CountedPCs

Sharers(c) == {p \in Pid : Counted(p) /\ thread_tmps[p].cell = c}

\* Every variable keeps its type.
TypeOK ==
  /\ tracee \in [Pid -> {"unborn", "running", "exited", "killed", "lost"}]
  /\ ksharers \in [Pid -> SUBSET Pid]
  /\ pc \in [Pid -> PCs]
  /\ child \in [Pid -> [pid : Pid \cup {None}, share : BOOLEAN]]
  /\ start \in [Pid -> Ref]
  /\ thread_tmps \in [Pid -> Ref]
  /\ fd_copy \in [Pid -> Table \cup {None}]
  /\ table_mem \in [Table -> Mem]
  /\ cell_mem \in [Cell -> Mem]
  /\ share_count \in [Cell -> Nat]
  /\ active_threads \in Nat
  /\ threads \subseteq Pid
  /\ stats \in [Pid -> [file : Nat, sys : Nat]]
  /\ main_file_stat_table \in [Pid -> Nat]
  /\ main_syscall_table \in [Pid -> Nat]
  /\ report \in [Pid -> [file : Nat, sys : Nat]] \cup {None}
  /\ status \in {"running", "aborted", "corrupt"}

\* share_count, changed by several threads without a common lock, is the
\* number of registered threads that use it (thread_tmps_insert,
\* free_single_thread_tmps, handle_execve_return).
ShareCountExact ==
  \A c \in Cell : cell_mem[c] = "live" => share_count[c] = Cardinality(Sharers(c))

\* The table, count and mutex of a registered thread are never freed under
\* it, whichever of its partners end or leave by execve, and when.
EntryLive ==
  \A p \in Pid : Counted(p) => /\ table_mem[thread_tmps[p].table] = "live"
                               /\ cell_mem[thread_tmps[p].cell] = "live"

\* Two threads use the same table exactly when they use the same mutex and
\* count: no table is reached under two locks, and no count stands for two
\* tables.
SameTableSameMutex ==
  \A p, q \in Pid : Counted(p) /\ Counted(q) =>
    (thread_tmps[p].table = thread_tmps[q].table
       <=> thread_tmps[p].cell = thread_tmps[q].cell)

\* Nothing is leaked: a live table or count is reachable from the entry, the
\* start data or the unfinished copy of some thread; so none is live when all
\* threads have ended.
NoLeak ==
  /\ \A t \in Table : table_mem[t] = "live" =>
       \E p \in Pid : t \in {thread_tmps[p].table, start[p].table, fd_copy[p]}
  /\ \A c \in Cell : cell_mem[c] = "live" => \E p \in Pid : thread_tmps[p].cell = c

\* When main stops waiting for active_threads to become zero every thread
\* ever started has merged and is past touching any shared table; when it
\* prints, every one of them was in the list and has been joined.
JoinedBeforePrint ==
  /\ pc[Root] \in {"join", "print", "exited"} =>
       \A q \in Pid \ {Root} : pc[q] \in {"none", "returning", "ended"}
  /\ pc[Root] \in {"print", "exited"} =>
       \A q \in Pid \ {Root} : pc[q] = "none" \/ (pc[q] = "ended" /\ q \in threads)

\* The start data a thread was handed stays usable until it registers: the
\* comment in handle_execve_return (syscall_handler.c:434) wants no table
\* freed while a partner needs it.
StartDataLive ==
  \A q \in Pid : pc[q] = "attach" /\ start[q].cell # None => Usable(start[q])

\* What the start data points to can be used exactly as long as some registered
\* thread has the same table and count: the start data is no reference of its
\* own (main.c:107), the creator's or a partner's is one, and the memory does
\* not outlive the last of them, nor is it freed and half of it kept.
UsableWhileShared ==
  \A q \in Pid : pc[q] = "attach" /\ start[q].cell # None =>
    (Usable(start[q]) <=> \E p \in Pid : Counted(p) /\ thread_tmps[p] = start[q])

\* threads_add shares the table with a new task exactly when the kernel does
\* (main.c:105 and 110).
AddMirrorsClone ==
  [][\A q \in Pid : pc[q] = "none" /\ pc'[q] = "attach" =>
       (start'[q].cell # None <=> ksharers[q] # {q})]_vars

\* Of two tasks between syscalls, the tracers share a table exactly when the
\* kernel does: what the one opens or closes is seen through the other.
SharingMirrorsKernel ==
  \A p, q \in Pid : p # q /\ AtReturn(p) /\ AtReturn(q) =>
    (thread_tmps[p].table = thread_tmps[q].table <=> q \in ksharers[p])

\* What the module promises: report holds every syscall handled, once.
Promise == INSTANCE TraceReport WITH handled <- stats, published <- report
ImplementsReport == Promise!Spec

Gone(p) == tracee[p] \in {"unborn", "exited", "killed", "lost"}

\* When all tasks are gone the report is written, unless the process was
\* aborted or ran on freed memory.
ReportWritten ==
  (\A p \in Pid : Gone(p)) ~> (report # None \/ status # "running")

=============================================================================
