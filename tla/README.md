# iotrace in TLA+

iotrace runs a program under ptrace and reports, for every file, how often it was
opened, closed, read and written, how long that took, how fast it went, and in which
block sizes; all other syscalls are counted with their times. This directory holds a
model of it: TLA+ modules, TLC configurations that check small instances, and proofs
checked by TLAPS. Paths below are relative to the repository (`src/src/main.c` is the
file `src/main.c` of iotrace's own tree).

## 1. Inventory

| component | code | state | operations |
|---|---|---|---|
| tracer threads and main | `main.c` | `active_threads`, the list `threads`, two global statistics tables with a mutex each | `wait_for_syscall`, `threads_add`, `thread_func`, `start_tracer`, `main_tracer` |
| thread temporaries | `thread_temporaries.c` | `thread_tmps_table`: for each task its saved registers and three pointers: fd table, `share_count`, `fd_mutex` | insert, lookup, remove (which may free all three) |
| syscall handlers | `syscall_handler.c` | none of their own; between the call stop and the return stop, the saved registers | `handle_syscall_call`, `handle_syscall_return` and one pair per syscall |
| fd table | `fd_table.c` | descriptor -> (filename, close-on-exec) | insert, insert_dup, set_cloexec, remove, remove_cloexec, deep_copy, lookup |
| file statistics | `file_stat.c` | filename -> open, close, read, write statistics | `incr_*`, merge |
| syscall statistics | `unconsidered_syscall_stat.c` | syscall number -> count and time | incr, merge |
| JSON output | `json_printer.c` | none | writes the final tables |
| syscall names | `syscall_names.c`, generated by `syscall_names/` | a constant array | made from the kernel's table of syscalls; index |
| command line, MPI rank | `main.c` | none that tracing depends on | |
| test programs | `test/` | programs to be traced by hand | |

How they interact. There is one tracer thread per traced task; main is the tracer of the
first. The tracer of a task gets the ptrace events of its task, and for a new task starts
a thread (`threads_add`) and hands it pointers through `thread_start_data`. A thread alone
executes the handlers of its task, but the fd table they change is shared with the
threads of all tasks that share the kernel's file table (`CLONE_FILES`), under `fd_mutex`,
and lives as long as `share_count`, an atomic counter, is above zero. `execve` makes a task
leave a shared table for a copy. When its task is gone, a thread merges its own
statistics into those of main under two mutexes, drops its reference and decrements
`active_threads`; main polls that counter, joins the threads in the list and prints.

What is hard, and what makes each part correct:

* **Life of the shared tables.** Three places take or give up references without a common
  lock: `thread_tmps_insert`, `free_single_thread_tmps`, `handle_execve_return`. A table must
  not be freed while a thread uses it, must be freed at last, and must not be reached
  under two mutexes.
* **End of the trace.** main must not print before all threads have merged, although
  threads start other threads while main polls, and enter the list only after they were
  started. It must print some time.
* **Sharing.** The threads must share a table exactly when the kernel shares its own.
* **Names.** The name found behind a descriptor when a return is handled should be the one
  the kernel had there when it executed the call, through any sequence of open, dup, close,
  flags and execve, and although the threads of two tasks may handle returns in another
  order than the kernel executed the calls.
* **Stops.** The thread of a task must tell its stops apart, handle a call at every entry and a return at every
  exit of a syscall, pass signals on, hand a new task over without losing its first syscalls, and leave
  when the task is gone and not before, with one `status` for two tasks and waits of threads for one another.
* **Paths.** A path is read word by word out of the memory of a running program into a buffer of fixed size that
  still holds the path before.
* **Counting and merging.** The tables of main must be the statistics of all the syscalls,
  whatever the order in which threads end, and so must the file it writes.

`PROJECT.json` lists these hazards at the lines where they bite, each with the properties that
cover it.

## 2. The modules

    TraceReport                        what iotrace promises
       ^ implemented by
    Tracers  <- TracersInv <- TracersProof <- TracersMemoryProof <- TracersReportProof
                    ^ MCTracers
    WaitLoop    <- WaitLoopInv <- WaitLoopProof,  MCWaitLoop
    Descriptors <- DescriptorsInv <- DescriptorsTypeProof <- DescriptorsProof
                        ^ MCDescriptors
    Filenames   <- FilenamesProof,  MCFilenames
    FileStats   <- FileStatsProof,  MCFileStats

A module named `...Inv` has an inductive invariant, which a run checks and the proofs use.

WaitLoop is the loop that makes the events Tracers starts from; Descriptors is what the handlers called
from it do; Filenames is where Descriptors' names come from; FileStats is what they are counted in.

### Tracers (`main.c`, `thread_temporaries.c`, `handle_execve_return`)

One step is one access to state other threads can see: a critical section, an atomic
operation, or an allocation. `pc[p]` says where the tracer thread of task `p` is; the labels
are named for the statements: `wait` (in `wait_for_syscall`), `add` and `list` (in `threads_add`,
before the start of the thread and before `g_list_prepend`), `attach` (a new thread before
`thread_tmps_insert`), `exec_copy`, `exec_release`, `exec_reuse`, `exec_new` (in
`handle_execve_return`: before the copy, before the decrement, and in the two branches after it),
`merge_file`, `merge_sys`, `remove`, `finish`, `returning`, `ended` (the end of `start_tracer` and
`thread_func`), `stuck` (the endless loop of `wait_for_syscall`), and `poll`, `join`, `print`,
`exited` (`main_tracer`).

| variable | code |
|---|---|
| `tracee`, `ksharers` | the kernel's view: state of each task, who shares its file table |
| `child` | `new_child` and `clone_flags` of `wait_for_syscall` |
| `start` | `thread_start_data` |
| `thread_tmps` | the entries of `thread_tmps_table`: the table pointer, and one pointer `cell` that stands for `share_count` and `fd_mutex`, which are allocated, handed on and freed together |
| `fd_copy` | the local `fd_table_copy` of `handle_execve_return` |
| `table_mem`, `cell_mem` | whether an address is unused, live or freed |
| `share_count`, `active_threads`, `threads`, `main_*_table` | as in the code |
| `stats` | the size of the thread's own two tables, by number of syscalls |
| `report`, `status` | what was written; whether the process called `exit(1)` or touched freed memory |

Abstractions. A freed address is never allocated again, so that a stale pointer stays
recognisable; `free` and `g_mutex_clear` of one critical section are one step. The content of
the fd tables is in Descriptors, that of the statistics in FileStats; here they are numbers of
syscalls. `open_abort` is the `exit(1)` of a filename that cannot be read. A task killed by a signal
may be one its thread is waiting for (`killed`: `WIFSIGNALED`) or one not attached yet (`lost`: then
`waitpid` fails and reads an uninitialised `status`, which may look like an exit or not). Four constants
say what the surroundings may do: `ForkBits` (bit `CLONE_FILES` of RDI at a fork or vfork), `ExecResults`,
`Killable`, and `PromptStart` (a new thread reaches `thread_tmps_insert` before its creator goes on).

### TraceReport

The abstract specification: syscalls are recorded, then the report is published once and holds
all of them. `Tracers!ImplementsReport` instantiates it with `handled <- stats` and `published <- report`.

### Descriptors (`syscall_handler.c`, `fd_table.c`)

The kernel's file tables beside those of iotrace. A task goes through `user` -> `call` (a syscall was
entered and `handle_*_call` has saved its registers, here `call`) -> `return` (the kernel has executed it;
`ret` is what the registers show) -> `user` (handled). `clone` and `fork` pass through `event`, where
`threads_add` gives the new task, which the kernel has named in `new_child`, its table. `close` has two critical sections in the code and two steps here
(`removing`), `pipe` and `socketpair` insert two entries in two. The copy `handle_execve_return` makes and
then sweeps is private, so it is one step; its memory is in Tracers. A new task's thread joins its table
at `threads_add`: the delay until it does is in Tracers.

Returns are handled in any order, and calls fail. There are calls that iotrace cannot follow, and the model takes
them as steps like any other; the history variable `strayed` holds the tasks whose tables they reached
(`Strays`, `Affected`):

* `Races`: a call of a task whose partner (in the kernel's group or in iotrace's) has a call executed and not yet
  handled; only two calls that are `read` or `write` may overlap. The two returns may be handled in either order, and
  an `execve`, a `threads_add` or the second section of `close` may come after what they should precede.
* `FailsToExec`: a failed `execve` of a task that shares its table or has a descriptor marked: `handle_execve_return` does
  not look at the result.
* `Silent` calls with a close-on-exec flag: `dup3`, `socketpair` and `TIOCGPTPEER`, whose handlers do not look at it.
* A pair of which the second descriptor cannot be read: `handle_pipe_return` and `handle_socketpair_return` read eight bytes
  for each (lines 238 and 292) and do not test the result, so at the end of a mapping they insert `-1`.

A task that strayed stays so, and takes those it shares a table with along (`Follow`). `strayed` guards
nothing but, with `Astray = FALSE`, the next call of such a task, which keeps the tables of a run finite in number; the
properties of the passing runs say nothing of these tasks.

`credit` is what iotrace has counted less what the tasks have done, by operation and name. It needs no
bound on the length of a run. An attempt counts: iotrace counts failed opens, closes, reads and
writes, and the model does so on both sides, except for `pipe` and `socketpair`, which count on success
only. That is the reading of "the number of times a file was opened" under which `CreditKept` holds; under
the stricter one, where an open that fails is none, `handle_open_return` (line 148) breaks it. And nothing is owed for
a descriptor of a syscall iotrace has no handler for (`kernel_untracked`): a file opened by `creat` or `openat2` is never
counted as opened, and what is read from it is counted for `NULL`.

Abstractions. All that a syscall does but to descriptors is left out. A failed call shows `-ENOENT` or
`-EBADF`; only the sign matters, and that the value is not `-1`, but in `handle_fcntl_return`, where it is
compared with `-1` (`EPERM` is the one failure that test would catch). A name is a sequence of words, so
that the slave of `/dev/ptmx` has a name of its own; characters and truncation are in Filenames.

### WaitLoop (`wait_for_syscall`, `start_tracer`, `thread_func`)

The kernel on one side: for each task `run` (running, stopped, halted by SIGSTOP without a tracer, in the middle
of execve, exited, killed, reaped), whether it is in a syscall (`in_call`), what it is stopped for (`stop`), its
pending signals, whether a stop of its group still has to reach it (`trap`), its group's `leader` and its
`tracer`. The tracer threads on the other: `pc[p]` is `attach` (before `PTRACE_ATTACH`), `first` (the `waitpid` of
`start_tracer`), `wait` (the `waitpid` of the loop), `child` (between `PTRACE_GETEVENTMSG` and the `waitpid` for the new
task), `tests` (the tests of a status that is the new task's, or an end), `handler`, `left`, `ended`; `turn` is
which of the two calls of `wait_for_syscall` it is in, and `status` and `new_child` are the locals.

A `waitpid` that returns a stop and the tests on it are one step, because a stopped task does nothing meanwhile
(if it is killed, the following `PTRACE_SYSCALL` fails, and so does that of the next round). The end of a task, and the
first stop of a new one, can come between, and are steps of their own. A status nobody wrote (`waitpid` fails before it
was ever set) may pass any test. After the `handler` the thread is in the next `PTRACE_SYSCALL`. What ptrace does is
modelled from its manual, as external definitions: delivery stops, group stops, stops of
syscalls and events, the end of a group by `exit_group`, `execve` or a signal, that a leader's end is reported
only after its threads are reaped, `PTRACE_O_EXITKILL`.

Three ghosts: `owed`, the signals sent while the thread was in its loop and not delivered yet; `unseen` and `woken`, a
syscall a new task made, and a SIGCONT it got, before it was traced.

Abstractions. A thread takes signals of any number in any order. A SIGSTOP that is passed on to a traced task has no
lasting effect, as the loop restarts it from the group stop at once (`PTRACE_SYSCALL`, not `PTRACE_LISTEN`). Signals sent
before the thread is in its loop are not owed: the signal of the first stop of a new task is
replaced by SIGSTOP at `PTRACE_DETACH` and that of the first stop after `PTRACE_ATTACH` dropped.

### Filenames (`read_string`, `fd_table_insert_dup`)

One task that opens one file after another. `mem` is its memory from the address of the path on, `edge` how much
of it is mapped, `filename_buffer` the buffer in `thread_tmps`, `filename` the array on the stack of
`fd_table_insert_dup`. A buffer is a function from offsets to characters, and copying adds offsets to its domain where
they are not in it, so that an overrun shows. `peek` is one round of the loop of `read_string`; between the rounds, and
until the kernel has read the path itself (`kernel_open`), another thread of the program may write to it
(`scribble`; once in a call, `touched`). `name` and `peer` are the names in the fd table of the file and of the last peer.
`fd_table_insert_dup` takes the name of the file or that of a peer: `handle_ioctl_return` does not look at the result, so
that calls that fail make peers of peers, under negative descriptors. Only one file and its last peer are kept.

### FileStats (`file_stat.c`, `unconsidered_syscall_stat.c`, `json_printer.c`, `syscall_names/`)

Two threads (or more) count syscalls in their own tables and merge them, file table first, into main's.
`log` is the bag of syscalls each thread counted; `FilesOf` and `SyscallsOf` define from it what the statistics
should be (sums of functions, minima, maxima, block counts), independently of the incremental code. `NANOS` is a small
multiple of the times, so that bytes per second are whole numbers; rounding is abstracted. `BelowInitials` and
`BelowLast` name what exactness requires of the surroundings; `MCFileStats` assumes them of the run, and the theorems
that need them have them as hypotheses.

`print_stats_as_json` writes the tables of main as the arrays the README of iotrace describes, or fails. `JsonExact`
reads that document back as the README says it is to be read, and compares it with the statistics of all the
syscalls. The names come from `Rows`, the kernel's table, by the loop of `syscall_parser.sh` (`AddRow`), which fills gaps with
`UNDEFINED_SYSCALL` and never sees the last row: `read` fails on it, as it has no newline any more. Hash tables are
walked in any order, so the arrays of objects are functions here.

## 3. Runs

`tlc -config <cfg> <module>`. All state spaces are finite and explored completely.

| run | shows | bounds |
|---|---|---|
| `safety` | `TypeOK`, `ShareCountExact`, `EntryLive`, `UsableWhileShared`, `SameTableSameMutex`, `NoLeak`, `IInv`, `JoinedBeforePrint`: memory of the shared tables, and when it is published, under any schedule, failed or successful execve, any RDI, and a signal that kills the first task | 3 tasks, 6 addresses of each kind, 1 syscall of any kind per task |
| `report` | `StartDataLive`, `SharingMirrorsKernel`, `SharingInv`, `AddMirrorsClone`, and, under fairness, `ReportWritten`, and `ImplementsReport` (what is published is every syscall handled, once; proved for every surrounding), in a well-behaved surrounding in which no task dies from a signal | 3 tasks, 1 syscall of any kind each |
| `stops` | `TypeOK`, `HandlersInStep`, `UnseenOnlyIfWoken`, `SignalsPassed`, `LeftOnlyIfGone`, `IInv`, and `WaitsEnd` under fairness | 3 tasks, in one to three groups; one signal and SIGSTOP; one task gets signals and may be killed, another may get SIGCONT |
| `open` | `TypeOK`, `CreditKept`, `CloexecMirrored`: every opening syscall, failing or not, with close, read, write, execve, which may fail too | 1 task, descriptors 0 to 2, arguments -1 to 2 |
| `dup` | `NamesMirrored`, `CloexecMirrored`: duplication, flags, untracked descriptors, execve; `dup`, `fcntl` and execve may fail | as `open` |
| `shared` | `NamesMirrored`, `CreditKept`, `IInv`: two tasks with a shared, copied or unshared table, calls and returns in any order, `open` and `execve` failing or not | 2 tasks, descriptors 0 to 2, arguments 0 and 2 |
| `names` | `TypeOK`, `InBounds`, `NameOfPath`, `ExitsAtEdge`, `PeerNamed` | buffers of 4 words of 6 characters; 8 lengths of paths, 7 edges, 4 writes |
| `stats` | `TypeOK`, `ThreadExact`, `MainExact`, `BlocksExplainBytes`, `JsonExact` | 2 threads, 2 files, 2 other syscalls, 3 syscalls in all |
| `startdata` | violates `StartDataLive` | |
| `killed` | violates `ReportWritten` | |
| `reorder` | violates `CreditExact` | |
| `noentry` | violates `EntryFound` | |

Why the bounds are enough. Three tasks let one table lose two users at the same time while a third
stays or joins, and let a thread that main does not know of start another; each task passes at most one
execve (`MaxCalls = 1`), so three tasks need at most the first table and one copy or deep copy per task and execve:
six addresses are never exhausted. One task that may be killed is enough in `safety`: its thread
stays in the loop with its entry for ever while the others join, leave and end (`killed` has all three, and the proofs any). Descriptors 0 to 2 are all in use at the start, so that every
opening is a reuse and a third name forces one to go; two tasks are what a race needs (and of descriptors a call names,
one may be reused while another is not: 0 and 2 in `shared`). Three syscalls
let a thread count a file twice and another once, so that counts, sums, minima and maxima all differ
between the two tables; the two other syscalls are one in a gap of the table of names and one behind it. In WaitLoop
three tasks are a creator, a thread or process of it, and one created by either, so that a group of two can end while one
of it waits for a third, and status and turn of a creator pass through every kind of new task; nothing there is bounded
but the number of tasks. In Filenames the buffer is large enough for both endings of a peer's name to follow one another,
and the lengths and edges are those next to the ends of words and of the buffer. `MaxCalls` and `MaxFd` are
the only bounds on unbounded quantities. In `open`, `dup` and `shared` a task that strayed makes no further call
(`Astray = FALSE`), but finishes the one it is in, beside all others: nothing is claimed of what it would do, and what it
did has reached those it could reach. `reorder` lets it go on.

Deadlock is not checked: the system stops when the report is written, and a tracee need not do anything.

### Fairness

`FairSpec` has weak fairness of every tracer thread and of main: the operating system schedules threads, and a
thread whose next step is enabled is not kept from it for ever. Nothing is assumed of tracees, and no fairness
is put on the steps of the environment (`Environment`): a tracee may stay where it is, which is why `ReportWritten` begins with
all tasks being gone. A thread spinning in `wait_for_syscall` (`stuck`) has no step that changes anything.

In WaitLoop every thread of iotrace is weakly fair, and so is the kernel where it acts by itself (`KernelStep`: a new task
comes to its first stop, an execve goes on when its threads are reaped). Tasks need not make any step, and no signal
need be sent. `WaitsEnd` is stated for the waits that then end. It leaves out killed tasks (the run `killed`) and the tasks
`Orphan` names: if a thread of a group creates a task and another calls `exit_group` before the tracer saw it, the creator
and the new task are zombies, the latter traced by the thread of the creator, which never waits for it. If it is in
the group, the end of the leader is never reported, and iotrace hangs. Without that exemption TLC shows `WaitsEnd` violated.

### What the checks found

* `startdata`. `threads_add` hands `fd_table`, `share_count` and `fd_mutex` to the new thread, which raises
  `share_count` only in `thread_tmps_insert`. If the creator's task exits or executes a program in between, all
  three are freed under the new thread. The invariants of `safety` hold up to that moment (`status = "corrupt"`).
* `killed`. `wait_for_syscall` ends for `WIFEXITED` only: a task killed by a signal leaves its thread in the
  loop, and main never prints.
* `reorder`. With a shared table, a `close` handled after the `open` that reused the descriptor removes the entry
  of the new file.
* `noentry`. `fd_table_insert_dup` and `fd_table_set_cloexec` read the entry they look up without a test; for a
  descriptor without an entry that is a null pointer.

Two properties state what the code does where more could be wished. `ExitsAtEdge`: iotrace ends, with `exit(1)` and without
a report, for a path the kernel can read, if the word with its last character is not all mapped (a path at the very end of a
mapping). `UnseenOnlyIfWoken`: a new task that gets SIGCONT between `PTRACE_DETACH` and `PTRACE_ATTACH` runs
unseen until it is attached.

The calls after which Descriptors claims nothing (`strayed`, section 2) are as much a finding. Each was found as a
violation and then named as narrowly as the properties allow: without `Races` `CreditExact` fails as in `reorder`, and
`NamesMirrored` with an `execve` handled late; without `FailsToExec` entries marked close-on-exec go although the kernel
keeps the descriptors, or sharing ends in iotrace only; without the `Silent` calls `CloexecMirrored` fails; and without the
pairs that cannot be read `CreditKept` does, as the second descriptor has no name.

The passing runs make four more assumptions of the surroundings, each of which is a constant to change:

* `ForkBits = {FALSE}` in `report`: RDI at a fork or vfork, which have no argument, lacks `CLONE_FILES`. With
  `{TRUE, FALSE}` `AddMirrorsClone` fails: a table is shared with a task that has a copy.
* `ExecResults = {TRUE}` and `PromptStart = TRUE` in `report`: with a failing execve, or a new thread that is late,
  `SharingMirrorsKernel` fails, and `StartDataLive` does without the latter. `safety` assumes neither.
* `MIN_NS_INITIAL` greater than every time in `Ns`: the minimum starts there (2 h 46 min), and a call that
  takes longer does not replace it. `MIN_BPS_INITIAL` is the same for rates. With a smaller one `ThreadExact` fails;
  that none is smaller is `BelowInitials`.
* No syscall of `Sc` is the last row of the kernel's table or behind it (`BelowLast`): the array of names ends with the row
  before (section 5).

## 4. Proofs

All checked by `tlapm` from the named assumptions on the constants: `TracersAssumption` (the set of tasks
is finite and holds `Root`; `None` is not one of the addresses; bounds are natural numbers), `WaitLoopAssumption` (`Root` is a
task and `None` is none; SIGSTOP is not among the ordinary signals; those named in the surroundings are tasks),
`DescriptorsAssumption` (tasks are finite and `First` is one; descriptors 0 to 2 exist and the arguments are descriptors or
-1; paths are strings), `FileStatsAssumption`, and `FilenamesAssumption` (a buffer holds whole words and at least 17
characters, and what is below the edge is in memory). The sets of tasks, addresses, signals and paths, the bounds and the
surroundings are arbitrary, but for the theorems that name what they require of the surroundings.

| theorem | states |
|---|---|
| `Invariance` | `Spec => []IInv` |
| `TypeCorrect`, `CountsUsers`, `NoDanglingEntry`, `HandedUsable`, `OneMutexPerTable`, `AllFreed`, `MainWaitsForAll` | `TypeOK`, `ShareCountExact`, `EntryLive`, `UsableWhileShared`, `SameTableSameMutex`, `NoLeak`, `JoinedBeforePrint` |
| `ReportComplete` | `Spec => ImplementsReport` |
| `AddFollows` | `AddMirrorsClone`, if `CleanForks` (RDI of a fork lacks `CLONE_FILES`) |
| `SharingInvariance`, `SharingFollows` | `SharingInv`, `SharingMirrorsKernel`, if `WellBehaved` (`CleanForks`, `PromptStart`, and every execve succeeds) |
| `MergeFilesOrder`, `MergeSyscallsOrder` | merging two threads' tables into main's gives the same result in either order |
| `FileStatsProof`: `TypeCorrect` | `TypeOK` of FileStats |
| `FilesReadBack` | what `builder_add_file_stats` writes of a table, read as the README of iotrace says, is the table |
| `ThreadsCountExactly`, `MainCountsExactly` | `ThreadExact`, `MainExact`, if `BelowInitials` |
| `BlocksAlwaysExplain` | `BlocksExplainBytes` |
| `NamesAreExact` | the array of names is right for every syscall (`NamesExact`), if `BelowLast` |
| `JsonCorrect` | `JsonExact`, if `BelowInitials` and `BelowLast` |
| `FilenamesProof`: `TypeCorrect`, `NoOverrun`, `ExitsOnlyAtEdge`, `NamedByPath`, `PeerNamedAfter` | `TypeOK`, `InBounds`, `ExitsAtEdge`, `NameOfPath`, `PeerNamed` of Filenames |
| `WaitLoopProof`: `Invariance`, `TypeCorrect`, `HandledInStep`, `NoneUnseen`, `NoSignalLost`, `NeverLeftAlive` | `IInv`, `TypeOK`, `HandlersInStep`, `UnseenOnlyIfWoken`, `SignalsPassed`, `LeftOnlyIfGone` of WaitLoop |
| `DescriptorsTypeProof`: `TypeCorrect` | `TypeOK` of Descriptors, in any surroundings |
| `DescriptorsProof`: `Invariance`, `NamesFollow`, `CloexecFollows`, `AttemptsCounted` | `IInv`, `NamesMirrored`, `CloexecMirrored`, `CreditKept` of Descriptors, under every schedule and with any failures |

The argument for `Invariance`. None of the invariants is inductive alone. `EntryLive` needs that `share_count` is exact
(`Counts`: the number of counted threads with that cell, and zero before and after its life), for a table is freed
when a decrement leaves zero. That the count stays exact when a thread adopts a table or count needs that
nobody else points to it: `PrivateTables` (the copy made for execve, the deep copy of a new thread) and `Reused` (the
count kept by the last thread to leave). When a thread frees a table, all threads that use it must use its count:
`SameTableSameMutex`. A new thread that was handed a table still has a registered thread beside it as long as the table
is live (`Handed`), so that joining keeps that equivalence; whether the table is still live is not
invariant, which is what `startdata` shows, and `thread_tmps_insert` is the step for the case that it is. `HandedUsable`
says what is invariant instead: it is live, with its count above zero, exactly as long as some registered thread has the
same table and count; one way that is `Handed`, the other `EntryLive` and `Counts`. `Owned` is
the converse: something live has an owner, hence `NoLeak`. For the report, `ActiveExact` says that `active_threads` is the
number of threads not over; so when main sees zero, and no thread is left to start others, all have merged
(`Merged`), and all are in the list but those whose creator is at `list` (`Listed`), and there is no such creator.

`SharingInv` is inductive beside `IInv`. `AddFollows` rests on `Kin`: the bit read at the event is what the kernel did, and
stays so until the thread of the new task is started, for the creator stands still meanwhile and so cannot leave
the group (`Cloned`). With `PromptStart` the creator waits at `list` with the very entry it handed on (`StartHeld`). `Paired`
extends `SharingMirrorsKernel` to threads that are starting; its hard case is the execve of a task whose `share_count` is
one, which keeps its table: that is right only because a thread still starting has a creator that counts too (`OnlyUser`),
so without `PromptStart` it fails. A thread in execve is alone in the kernel already (`Alone`), and its copy is nobody else's.

`TracersProof` has the type and control parts, `TracersMemoryProof` the memory parts, `TracersReportProof` the
report parts, the composition, the theorems, and `SharingInv`. `ReportComplete` maps each step to `Record`, `Publish` or a stutter; that `Publish`
publishes all is `Merged` with `JoinedBeforePrint`, and that nothing is recorded afterwards is that no thread waits then.

`FilenamesProof` is for every word and buffer size, every path and everything another thread writes. Its invariant says
what `read_string` has established at the head of its loop (`SoFar`: the words before are mapped and, if nobody wrote,
copied and without an end), from which the exit of the loop gives `Whole` and the failing word `AtEdge`; that both
buffers are total functions on their offsets (`ReaderInv`, `TablesInv`) is `InBounds`. `NoOverrun` rests on two facts: the
buffer holds an end before anyone takes its length, also when another thread took it out of memory meanwhile,
and a peer's name is shorter than a buffer if the name it is made of is. That a string has a first end is
well-foundedness of the naturals; that an offset is in its word and no other is arithmetic (`WordOf`).
`PeerNamedAfter` needs that the name a peer is made of is the file's or a peer's that already keeps its beginning (`Keeps`,
`EndsInSlave`), and that names hold no end, so that cutting one at its first end cuts nothing.

`WaitLoopProof` is for any number of tasks in any groups. `HandledInStep`: `turn` and `in_call` are changed together, the
kernel one step ahead at a stop of a syscall and nowhere else (`InStep`), and no stop but a syscall's leads to the handler. That
needs to know what a task can be stopped for in each place of its thread (`NotYetThere`, `InLoop`). `NeverLeftAlive` is the
hard one, for `tests` looks at a status that is the new task's. It could say `exited` only if the new task were ended by `exit`
or `exit_group` of its own or its group; it has run nothing, so one of its group called it, and as the creator stands
at the event (`CreatorStopped`) and the new task is in its creator's group or alone (`Creators`), that
ended the creator as well (`ExitedTogether`). `NoSignalLost`: a signal is owed only while it is pending or
the task stands at its delivery, and every test of a delivery stop restarts the task with it. `NoneUnseen`: who
runs untraced was woken (`Woken`). All the rest (`LeaderFirst`, `ChildThere`, `Unborn`) is what those need.

`DescriptorsProof` is for any number of tasks and descriptors, any sets of paths and calls, every schedule, and any
failures; the theorems have no hypothesis but `DescriptorsAssumption`. What they claim, they claim of the tasks outside
`strayed`, and in states in which iotrace has not crashed on a missing entry (`noentry`); `CreditKept`, which is about the
tables all tasks count in, until the first call that strays.

The idea is `Pending`: while a return is on its way, the table of iotrace as its handler *will* leave it mirrors the
kernel's. The kernel's step establishes it and the handler's uses it up. For that to be kept while partners go on, their
calls must not be on their way too unless they only use the table (`OneInFlight`), and that is what a race is. The
invariant has two parts. `Grouped` is known of all tasks, also those that strayed: who shares with whom in kernel and
iotrace, that new tasks stray with their creators (`Newborn`), and that nobody shares a table with a task that strayed without being in `strayed`
(`Closed`). So a step of a task that strayed, or strays with this step, changes nothing that is claimed of others:
`Sealed` is a set of tasks no table leads out of, `Straying` says what a step reaches, and the lemmas named `...Beyond` that the rest
stays as it was. `Followed` is known of a task outside `strayed` only: its groups in the kernel and in iotrace agree but for a task that has
executed a program and whose thread has not copied yet, and a new one before `threads_add` (`SameGroups`); its table mirrors the kernel's, or will
(`Settled`, `Pending`). A task whose partner is about to leave by `execve` is settled all the same, for the partner's handler
will change its own copy only (`Leaving`). `Counted` says that `credit` is minus the number of pairs of a task and a place in its
call for which a count is on its way (`Owed`); each kernel step adds as many to `Owed` as it takes off `credit`.
For every action there are two cases, of a task that is followed (`..._Follows`) and of one that strays (`...Keeps`).

No kind of stray call can be left out of `Strays` (end of section 3). `DescriptorsTypeProof` needs none of this.

`FileStatsProof` is for any number of threads, files and syscalls, any times and any numbers of bytes. `TypeCorrect`: an entry
stays unsigned though `read` and `write` return negative numbers, and `blocks` stays a bag when one is counted or two are
merged; so the orders of merging agree for every table there is.

The tables are exact for one reason: the statistics of two bags of syscalls together are the two statistics
merged (`FilesAdd`, `SyscallsAdd`), and the statistics of a bag with one syscall more are what the incr function makes
of them (`FileCounted`, `TablesCounted`). The first, with `log` cut into the threads merged and the one merging
(`LogsAdd`), is the step of a merge; the second is the step of a count. Each comes down to single members: a count or a
total is a sum of values weighted by how often they occur (`WeightAdds`), a minimum or maximum is that of a union
(`LeastAdds`, `MostAdds`), and `blocks` a sum for each size (`BlocksAdd`). Three things make it less than obvious.
The minimum of no calls is `MIN_NS_INITIAL`, and must be neutral when merged: that is `BelowInitials`, and why it is needed.
A file that one table has and the other has not is inserted with fresh values, which must be the statistics of
the empty bag (`FileAbsent`). And a thread has merged its files and not yet its syscalls: `MainExact` is inductive
only beside `ThreadExact`, `TypeOK`, and the fact that only finitely many threads have merged (`MainInv`).
`BlocksAlwaysExplain` needs none of it: that the sizes account for the bytes holds of each entry
(`AllExplained`) and is kept by each operation, exact or not.

Sums over finite sets are folds, and the theorems about induction take an operator as a parameter, which no installed
prover can instantiate. The proofs do without it. `SetInduction` and `NatSetInduction` are induction with a *set* in the place of
the predicate, from the well-foundedness of inclusion among finite sets and of the naturals; the set is then the
members for which the claim holds. A fold is a recursive function that is chosen: `SumUnfolded` shows the definition behind
`SumFunction`, `SumsExist` that such a function exists, and `SumAdd`, `SumTaken`, `SumPlus` what is used afterwards. The same is done for
`NamesOf` (`NamesUnfolded`). `NamesBuilt` says by induction that after `i` rows the array ends with row `i`, has each row so far at its number,
and `UNDEFINED_SYSCALL` where no row is.

`JsonCorrect` rests on all of these, on `FilesReadBack` (an array of objects has one object for a file, an array of blocks
one pair for a size) and on `DocumentKept`: the file is written when every thread has merged both tables, and a thread
that has counts and merges no more.

Only model-checked: `ReportWritten` and `WaitsEnd`, as liveness under fairness is beyond the prover. Every safety
property and action property of a passing run is a theorem.

## 5. Not modelled

* In `wait_for_syscall`: an execve by a thread that is not the leader of its group and takes its pid over;
  `new_child` read uninitialised if the task dies before `PTRACE_GETEVENTMSG`; a SIGCONT that another thread of
  its group takes before a new thread's first stop; a status that `waitpid` failed to write and that happens to look
  like an event of clone, fork or vfork (lines 127-129), after which the thread would ask for a new task
  that is not there and read `new_child` uninitialised.
* Other ways to change a file table: `close_range`, the `ioctl`s `FIOCLEX` and `FIONCLEX`, and
  `unshare(CLONE_FILES)`, none of which iotrace has a handler for. After one of them names, flags and sharing
  are no longer the kernel's, and no property says so. Nor do the properties count the opens of `creat`, `openat2` and
  their like, for which iotrace has no handler either (section 2, Descriptors).
* Reuse of a pid while its old entry is still in `thread_tmps_table`: the kernel gives a pid again only after all others.
* Numbers of syscalls outside `syscall_names` (the last row of the table, the x32 bit, -1): the array is read past its end, and
  what is there is not defined.
* Measured times (`clock_gettime` before and after), the text of numbers and strings in the JSON file, the verbose output, the
  command line, and the MPI rank and the name of the report made with it: input and output without a state tracing depends
  on. The test programs have no assertions about iotrace.

## 6. Plan

Done: all the modules of section 2; proofs of the safety properties of Tracers, WaitLoop,
Descriptors, Filenames and FileStats, and of the refinement of TraceReport.

1. WaitLoop with execve by any thread, and the pids that go with it.
