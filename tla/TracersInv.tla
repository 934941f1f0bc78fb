----------------------------- MODULE TracersInv -----------------------------
(***************************************************************************)
(* The inductive invariant of Tracers.  None of the invariants stated there*)
(* is inductive alone: that an entry is live rests on share_count being the*)
(* number of its users, which rests on every freshly allocated table being *)
(* reached through one pointer only; that the report is complete rests on  *)
(* active_threads counting the threads that have not merged yet.           *)
(***************************************************************************)
EXTENDS Tracers, Integers

ExecPCs == {"exec_release", "exec_reuse", "exec_new"}
Attaching(q) == pc[q] = "attach"
Shared(q) == Attaching(q) /\ HandedCount(start[q])

\* p has a table nobody else knows of.
HoldsPrivate(p) == \/ pc[p] \in ExecPCs
                   \/ Attaching(p) /\ ~HandedCount(start[p])

\* That table: its copy for execve, or the one it starts with.
PrivateTable(p) ==
  IF pc[p] \in ExecPCs THEN fd_copy[p]
  ELSE IF Attaching(p) /\ ~HandedCount(start[p]) THEN start[p].table
  ELSE None

-----------------------------------------------------------------------------
\* TypeOK with integers for the two counters that are decremented.
TypeInt ==
  /\ tracee \in [Pid -> {"unborn", "running", "exited", "killed", "lost"}]
  /\ ksharers \in [Pid -> SUBSET Pid]
  /\ pc \in [Pid -> PCs]
  /\ child \in [Pid -> [pid : Pid \cup {None}, share : BOOLEAN]]
  /\ start \in [Pid -> Ref]
  /\ thread_tmps \in [Pid -> Ref]
  /\ fd_copy \in [Pid -> Table \cup {None}]
  /\ table_mem \in [Table -> Mem]
  /\ cell_mem \in [Cell -> Mem]
  /\ share_count \in [Cell -> Int]
  /\ active_threads \in Int
  /\ threads \subseteq Pid
  /\ stats \in [Pid -> [file : Nat, sys : Nat]]
  /\ main_file_stat_table \in [Pid -> Nat]
  /\ main_syscall_table \in [Pid -> Nat]
  /\ report \in [Pid -> [file : Nat, sys : Nat]] \cup {None}
  /\ status \in {"running", "aborted", "corrupt"}

-----------------------------------------------------------------------------
(* Control: which threads can be where.                                    *)

\* The main thread and the others run different ends of start_tracer.
Places ==
  /\ pc[Root] \notin {"none", "attach", "finish", "returning", "ended"}
  /\ \A p \in Pid \ {Root} : pc[p] \notin {"poll", "join", "print", "exited"}

ChildKnown == \A p \in Pid : pc[p] \in {"add", "list"} => child[p].pid \in Pid

\* The child of a thread in threads_add has no thread yet, and one parent.
Children ==
  /\ \A q \in Pid : tracee[q] = "unborn" => pc[q] = "none"
  /\ \A p \in Pid : pc[p] = "add" =>
       /\ pc[child[p].pid] = "none" /\ tracee[child[p].pid] # "unborn"
       /\ \A r \in Pid \ {p} : pc[r] = "add" => child[r].pid # child[p].pid

Control == Places /\ ChildKnown /\ Children

-----------------------------------------------------------------------------
(* Memory: who points to what.                                             *)

EntryExists ==
  \A p \in Pid : Counted(p) => /\ thread_tmps[p].table \in Table
                               /\ thread_tmps[p].cell \in Cell

\* A count is exact while it lives, and zero before and after.
Counts ==
  \A c \in Cell : share_count[c] = IF cell_mem[c] = "live"
                                   THEN Cardinality(Sharers(c)) ELSE 0

\* A private table is live and known to nobody else.
PrivateTables ==
  \A p \in Pid : HoldsPrivate(p) =>
    /\ PrivateTable(p) \in Table
    /\ table_mem[PrivateTable(p)] = "live"
    /\ \A q \in Pid : /\ Counted(q) => thread_tmps[q].table # PrivateTable(p)
                      /\ Shared(q) => start[q].table # PrivateTable(p)
                      /\ q # p => PrivateTable(q) # PrivateTable(p)

\* A thread about to reuse a count is the only one to know it.
Reused ==
  \A p \in Pid : pc[p] = "exec_reuse" =>
    /\ thread_tmps[p].cell \in Cell
    /\ cell_mem[thread_tmps[p].cell] = "live"
    /\ \A q \in Pid : q # p /\ (Counted(q) \/ pc[q] = "exec_reuse") =>
         thread_tmps[q].cell # thread_tmps[p].cell

\* What a new thread was handed has been allocated; as long as the table is
\* live, some registered thread has the same table and count.
Handed ==
  \A q \in Pid : Shared(q) =>
    /\ start[q].table \in Table /\ table_mem[start[q].table] # "unused"
    /\ start[q].cell \in Cell /\ cell_mem[start[q].cell] # "unused"
    /\ table_mem[start[q].table] = "live" =>
         \E p \in Pid : Counted(p) /\ thread_tmps[p] = start[q]

\* A live table or count has an owner.
Owned ==
  /\ \A t \in Table : table_mem[t] = "live" =>
       \E p \in Pid : (Counted(p) /\ thread_tmps[p].table = t) \/ PrivateTable(p) = t
  /\ \A c \in Cell : cell_mem[c] = "live" =>
       \E p \in Pid : (Counted(p) \/ pc[p] = "exec_reuse") /\ thread_tmps[p].cell = c

Memory == /\ EntryExists /\ EntryLive /\ SameTableSameMutex /\ Counts
          /\ PrivateTables /\ Reused /\ Handed /\ Owned

-----------------------------------------------------------------------------
(* Report: what has been counted, listed and merged.                       *)

Over == {"none", "returning", "ended"}
Active == {q \in Pid \ {Root} : pc[q] \notin Over}

ActiveExact == active_threads = Cardinality(Active)

\* A thread is in the list unless its creator is about to put it there.
Listed ==
  \A q \in Pid \ {Root} : pc[q] # "none" =>
    q \in threads \/ \E p \in Pid : pc[p] = "list" /\ child[p].pid = q

\* Nothing is merged before its time, and all of it afterwards.
SysMergedPCs == {"remove", "finish", "returning", "ended", "poll", "join", "print", "exited"}
FileMergedPCs == SysMergedPCs \cup {"merge_sys"}

Merged ==
  \A p \in Pid :
    /\ main_file_stat_table[p] = IF pc[p] \in FileMergedPCs THEN stats[p].file ELSE 0
    /\ main_syscall_table[p] = IF pc[p] \in SysMergedPCs THEN stats[p].sys ELSE 0
    /\ pc[p] \in {"none", "attach"} => stats[p] = [file |-> 0, sys |-> 0]

Reported == pc[Root] # "exited" => report = None

Report == /\ ActiveExact /\ Listed /\ Merged /\ JoinedBeforePrint /\ Reported

\* Everything the proofs need, and inductive.
IInv == TypeInt /\ Control /\ Memory /\ Report

-----------------------------------------------------------------------------
(* Sharing, in surroundings that do not mislead iotrace.                  *)

\* RDI of a fork or vfork lacks CLONE_FILES.
CleanForks == ForkBits \subseteq {FALSE}

\* Besides, every execve succeeds, and a new thread registers at once.
WellBehaved == CleanForks /\ ExecResults \subseteq {TRUE} /\ PromptStart

\* Who shares a file table in the kernel.
Groups ==
  \A p \in Pid :
    /\ p \in ksharers[p]
    /\ \A q \in ksharers[p] : ksharers[q] = ksharers[p]
    /\ tracee[p] = "unborn" => ksharers[p] = {p}

\* The bit a thread has read is what the kernel did, and stays true until it
\* starts the thread of the new task.
Cloned ==
  \A p \in Pid : pc[p] = "add" =>
    LET q == child[p].pid IN
    IF child[p].share THEN q \in ksharers[p] ELSE ksharers[q] = {q}

Kin == Groups /\ Cloned

\* The creator of a new thread waits with the entry it handed on.
StartHeld ==
  \A q \in Pid : Attaching(q) =>
    \E p \in Pid : /\ pc[p] = "list" /\ child[p].pid = q
                   /\ HandedCount(start[q]) => start[q] = thread_tmps[p]

\* A task whose thread copies its table is alone in the kernel.
Alone == \A p \in Pid : pc[p] \in ExecPCs \cup {"exec_copy"} => ksharers[p] = {p}

\* The table of a thread that is not in execve, registered or about to be.
Settled(p) == pc[p] \in {"attach", "wait", "add", "list"}
TableOf(p) == IF Attaching(p) THEN start[p].table ELSE thread_tmps[p].table

Paired ==
  \A p, q \in Pid : Settled(p) /\ Settled(q) =>
    (TableOf(p) = TableOf(q) <=> q \in ksharers[p])

\* Inductive beside IInv, in the surroundings WellBehaved.
SharingInv == Kin /\ StartHeld /\ Alone /\ Paired

=============================================================================
