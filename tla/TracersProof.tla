---------------------------- MODULE TracersProof ----------------------------
(***************************************************************************)
(* Proofs about Tracers, for any number of tasks, tables and counts.       *)
(***************************************************************************)
EXTENDS TracersInv, FiniteSetTheorems, TLAPS

\* malloc returns an address that was never used (the CHOOSE of NewTable).
LEMMA NewTableUnused ==
  ASSUME TypeInt, Unused(table_mem) # {}
  PROVE  NewTable \in Table /\ table_mem[NewTable] = "unused"
BY DEF TypeInt, Unused, NewTable

\* The same for a share_count and its mutex.
LEMMA NewCellUnused ==
  ASSUME TypeInt, Unused(cell_mem) # {}
  PROVE  NewCell \in Cell /\ cell_mem[NewCell] = "unused"
BY DEF TypeInt, Unused, NewCell

-----------------------------------------------------------------------------
(* Types.                                                                  *)

LEMMA FirstMemory == FirstTable \in Table /\ FirstCell \in Cell
BY TracersAssumption DEF FirstTable, FirstCell

LEMMA TypeInit == Init => TypeInt
<1> USE TracersAssumption, FirstMemory
<1> SUFFICES ASSUME Init PROVE TypeInt
  OBVIOUS
<1>1. thread_tmps \in [Pid -> Ref]
  BY DEF Init, Ref, NoRef
<1>2. /\ table_mem \in [Table -> Mem] /\ cell_mem \in [Cell -> Mem]
      /\ share_count \in [Cell -> Int]
  BY DEF Init, Mem
<1>3. /\ tracee \in [Pid -> {"unborn", "running", "exited", "killed", "lost"}]
      /\ ksharers \in [Pid -> SUBSET Pid]
      /\ pc \in [Pid -> PCs]
      /\ child \in [Pid -> [pid : Pid \cup {None}, share : BOOLEAN]]
      /\ start \in [Pid -> Ref]
      /\ fd_copy \in [Pid -> Table \cup {None}]
  BY DEF Init, PCs, CountedPCs, NoChild, NoRef, Ref
<1>4. /\ active_threads \in Int
      /\ threads \subseteq Pid
      /\ stats \in [Pid -> [file : Nat, sys : Nat]]
      /\ main_file_stat_table \in [Pid -> Nat]
      /\ main_syscall_table \in [Pid -> Nat]
      /\ report \in [Pid -> [file : Nat, sys : Nat]] \cup {None}
      /\ status \in {"running", "aborted", "corrupt"}
  BY DEF Init
<1> QED
  BY <1>1, <1>2, <1>3, <1>4 DEF TypeInt

\* Counting a syscall of either kind keeps the type of the tallies.
LEMMA Tally ==
  ASSUME TypeInt, NEW p \in Pid
  PROVE  /\ [stats EXCEPT ![p].file = @ + 1] \in [Pid -> [file : Nat, sys : Nat]]
         /\ [stats EXCEPT ![p].sys = @ + 1] \in [Pid -> [file : Nat, sys : Nat]]
BY DEF TypeInt

LEMMA TypeEnvironment ==
  ASSUME TypeInt, NEW p \in Pid, Environment(p)
  PROVE  TypeInt'
<1> USE DEF TypeInt, mem, tables, AtReturn, Goto, PCs, CountedPCs
<1>1. ASSUME NEW q \in Pid, NEW files \in BOOLEAN, NEW bit \in BOOLEAN,
             Spawned(p, q, files, bit)
      PROVE  TypeInt'
  BY <1>1 DEF Spawned
<1>2. CASE \E q \in Pid : clone_event(p, q)
  BY <1>1, <1>2 DEF clone_event
<1>3. CASE \E q \in Pid : fork_event(p, q)
  <2>1. PICK q \in Pid : fork_event(p, q)
    BY <1>3
  <2>2. PICK bit \in ForkBits : Spawned(p, q, FALSE, bit)
    BY <2>1 DEF fork_event
  <2>3. bit \in BOOLEAN
    BY TracersAssumption
  <2> QED
    BY <2>2, <2>3, <1>1
<1>4. CASE exit_event(p)
  BY <1>4 DEF exit_event
<1>5. CASE kill_event(p)
  BY <1>5 DEF kill_event
<1>6. CASE file_call(p)
  <2>1. stats' \in [Pid -> [file : Nat, sys : Nat]]
    BY <1>6, Tally DEF file_call
  <2> QED
    BY <1>6, <2>1 DEF file_call
<1>7. CASE handle_unconsidered_return(p)
  <2>1. stats' \in [Pid -> [file : Nat, sys : Nat]]
    BY <1>7, Tally DEF handle_unconsidered_return
  <2> QED
    BY <1>7, <2>1 DEF handle_unconsidered_return
<1>8. CASE open_abort(p)
  BY <1>8 DEF open_abort
<1>9. CASE handle_execve_return(p)
  <2>1. stats' \in [Pid -> [file : Nat, sys : Nat]]
    BY <1>9, Tally DEF handle_execve_return
  <2>2. ksharers' \in [Pid -> SUBSET Pid]
    BY <1>9 DEF handle_execve_return
  <2>3. pc' \in [Pid -> PCs]
    BY <1>9 DEF handle_execve_return
  <2> QED
    BY <1>9, <2>1, <2>2, <2>3 DEF handle_execve_return
<1> QED
  BY <1>2, <1>3, <1>4, <1>5, <1>6, <1>7, <1>8, <1>9 DEF Environment

LEMMA TypeThread ==
  ASSUME TypeInt, ChildKnown, NEW p \in Pid, Thread(p)
  PROVE  TypeInt'
<1> USE DEF mem, tables
<1>pc. ASSUME NEW l \in PCs, Goto(p, l) PROVE pc' \in [Pid -> PCs]
  BY <1>pc DEF Goto, TypeInt
<1>l. PCs = CountedPCs \cup {"none", "attach", "exec_reuse", "exec_new", "finish",
                        "returning", "ended", "poll", "join", "print", "exited"}
  BY DEF PCs
<1>d. ASSUME NEW c
      PROVE  /\ [share_count EXCEPT ![c] = @ - 1] \in [Cell -> Int]
             /\ [share_count EXCEPT ![c] = @ + 1] \in [Cell -> Int]
  <2>1. share_count \in [Cell -> Int]
    BY DEF TypeInt
  <2>2. CASE c \in Cell
    BY <2>1, <2>2
  <2>3. CASE c \notin Cell
    BY <2>1, <2>3
  <2> QED
    BY <2>2, <2>3
<1>f. ASSUME NEW m \in Mem, NEW a
      PROVE  /\ [table_mem EXCEPT ![a] = m] \in [Table -> Mem]
             /\ [cell_mem EXCEPT ![a] = m] \in [Cell -> Mem]
  BY DEF TypeInt
<1>m. "live" \in Mem /\ "freed" \in Mem
  BY DEF Mem
<1>r. NoRef \in Ref
  BY DEF NoRef, Ref
<1>1. CASE exec_copy(p)
  <2>1. fd_copy' \in [Pid -> Table \cup {None}]
    BY <1>1, NewTableUnused DEF exec_copy, TypeInt
  <2>2. table_mem' \in [Table -> Mem] /\ pc' \in [Pid -> PCs]
    BY <1>1, <1>f, <1>m, <1>pc, <1>l DEF exec_copy, CountedPCs
  <2> QED
    BY <1>1, <2>1, <2>2 DEF exec_copy, TypeInt
<1>2. CASE exec_release(p)
  <2>1. table_mem' \in [Table -> Mem] /\ pc' \in [Pid -> PCs]
    <3>1. CASE table_mem' = [table_mem EXCEPT ![thread_tmps[p].table] = "freed"]
               /\ Goto(p, "exec_reuse")
      BY <3>1, <1>f, <1>m, <1>pc, <1>l
    <3>2. CASE UNCHANGED table_mem /\ Goto(p, "exec_new")
      BY <3>2, <1>pc, <1>l DEF TypeInt
    <3> QED
      BY <1>2, <3>1, <3>2 DEF exec_release
  <2>2. share_count' \in [Cell -> Int]
    BY <1>2, <1>d DEF exec_release
  <2> QED
    BY <1>2, <2>1, <2>2 DEF exec_release, TypeInt
<1>3. ASSUME NEW c \in Cell \cup {None}, Adopt(p, c), cell_mem' \in [Cell -> Mem]
      PROVE  TypeInt'
  <2>1. thread_tmps' \in [Pid -> Ref] /\ fd_copy' \in [Pid -> Table \cup {None}]
    BY <1>3 DEF Adopt, TypeInt, Ref
  <2>2. share_count' \in [Cell -> Int] /\ pc' \in [Pid -> PCs]
    BY <1>3, <1>d, <1>pc, <1>l DEF Adopt, CountedPCs
  <2> QED
    BY <1>3, <2>1, <2>2 DEF Adopt, TypeInt
<1>4. CASE exec_reuse(p)
  BY <1>3, <1>4 DEF exec_reuse, TypeInt, Ref
<1>5. CASE exec_new(p)
  BY <1>3, <1>5, <1>f, <1>m, NewCellUnused DEF exec_new
<1>6. CASE threads_add(p)
  <2> DEFINE q == child[p].pid
  <2>1. start' \in [Pid -> Ref]
    BY <1>6, NewTableUnused DEF threads_add, TypeInt, Ref
  <2>2. table_mem' \in [Table -> Mem]
    BY <1>6, <1>f, <1>m DEF threads_add, TypeInt
  <2>3. pc' \in [Pid -> PCs]
    BY <1>6, <1>l DEF threads_add, TypeInt, CountedPCs
  <2>4. active_threads' \in Int
    BY <1>6 DEF threads_add, TypeInt
  <2> QED
    BY <1>6, <2>1, <2>2, <2>3, <2>4 DEF threads_add, TypeInt
<1>7. CASE threads_prepend(p)
  <2>1. threads' \subseteq Pid
    BY <1>7 DEF threads_prepend, TypeInt, ChildKnown
  <2> QED
    BY <1>7, <2>1, <1>pc, <1>l DEF threads_prepend, TypeInt, NoChild, CountedPCs
<1>8. CASE thread_tmps_insert(p)
  <2> DEFINE c == IF HandedCount(start[p]) THEN start[p].cell ELSE NewCell
  <2>1. c \in Cell \cup {None}
    BY <1>8, NewCellUnused DEF thread_tmps_insert, TypeInt, Ref
  <2>2. thread_tmps' \in [Pid -> Ref] /\ start' \in [Pid -> Ref]
    BY <1>8, <2>1, <1>r DEF thread_tmps_insert, TypeInt, Ref
  <2>3. /\ cell_mem' \in [Cell -> Mem] /\ share_count' \in [Cell -> Int]
        /\ pc' \in [Pid -> PCs]
    BY <1>8, <1>f, <1>d, <1>m, <1>pc, <1>l DEF thread_tmps_insert, CountedPCs
  <2> QED
    BY <1>8, <2>2, <2>3 DEF thread_tmps_insert, TypeInt
<1>9. CASE insert_dangling(p)
  BY <1>9 DEF insert_dangling, TypeInt
<1>10. CASE wait_exited(p) \/ wait_signaled(p) \/ wait_uninitialised(p)
  BY <1>10, <1>pc, <1>l
     DEF wait_exited, wait_signaled, wait_uninitialised, TypeInt, CountedPCs
<1>11. CASE file_state_merge(p)
  <2>1. main_file_stat_table' \in [Pid -> Nat]
    BY <1>11 DEF file_state_merge, TypeInt
  <2> QED
    BY <1>11, <2>1, <1>pc, <1>l DEF file_state_merge, TypeInt, CountedPCs
<1>12. CASE syscall_stat_merge(p)
  <2>1. main_syscall_table' \in [Pid -> Nat]
    BY <1>12 DEF syscall_stat_merge, TypeInt
  <2> QED
    BY <1>12, <2>1, <1>pc, <1>l DEF syscall_stat_merge, TypeInt, CountedPCs
<1>13. CASE thread_tmps_remove(p)
  <2>1. /\ table_mem' \in [Table -> Mem] /\ cell_mem' \in [Cell -> Mem]
        /\ share_count' \in [Cell -> Int]
    BY <1>13, <1>f, <1>d, <1>m DEF thread_tmps_remove, TypeInt
  <2>2. pc' \in [Pid -> PCs] /\ thread_tmps' \in [Pid -> Ref]
    BY <1>13, <1>r, <1>pc, <1>l DEF thread_tmps_remove, TypeInt
  <2> QED
    BY <1>13, <2>1, <2>2 DEF thread_tmps_remove, TypeInt
<1>14. CASE thread_func_dec(p) \/ thread_func_return(p)
  BY <1>14, <1>pc, <1>l DEF thread_func_dec, thread_func_return, TypeInt
<1> QED
  BY <1>1, <1>2, <1>4, <1>5, <1>6, <1>7, <1>8, <1>9, <1>10, <1>11,
     <1>12, <1>13, <1>14 DEF Thread

LEMMA TypeMain == TypeInt /\ Main => TypeInt'
<1> SUFFICES ASSUME TypeInt, Main PROVE TypeInt'
  OBVIOUS
<1> USE TracersAssumption DEF mem, tables, Goto, PCs
<1>1. CASE main_poll
  BY <1>1 DEF main_poll, TypeInt
<1>2. CASE main_join
  BY <1>2 DEF main_join, TypeInt
<1>3. CASE main_print
  BY <1>3 DEF main_print, TypeInt
<1> QED
  BY <1>1, <1>2, <1>3 DEF Main

-----------------------------------------------------------------------------
(* Control.                                                                *)

LEMMA ControlInit == Init => Control
BY TracersAssumption DEF Init, Control, Places, ChildKnown, Children

\* A thread that goes elsewhere disturbs no creation of another.
LEMMA ControlGoto ==
  ASSUME TypeInt, Control, NEW p \in Pid, NEW l \in PCs \ {"none", "add", "list"},
         Goto(p, l), pc[p] # "none", UNCHANGED child,
         p = Root => l \notin {"attach", "finish", "returning", "ended"},
         p # Root => l \notin {"poll", "join", "print", "exited"},
         \A q \in Pid : tracee'[q] = "unborn" <=> tracee[q] = "unborn"
  PROVE  Control'
<1>1. Places'
  BY TracersAssumption DEF TypeInt, Control, Places, Goto
<1>2. ChildKnown'
  BY DEF TypeInt, Control, ChildKnown, Goto
<1>3. Children'
  BY <1>2 DEF TypeInt, Control, Children, ChildKnown, Goto
<1> QED
  BY <1>1, <1>2, <1>3 DEF Control

\* Nor does one that stays.
LEMMA ControlStay ==
  ASSUME TypeInt, Control, UNCHANGED <<pc, child>>,
         \A q \in Pid : tracee'[q] = "unborn" <=> tracee[q] = "unborn"
  PROVE  Control'
BY DEF Control, Places, ChildKnown, Children

LEMMA ControlEnvironment ==
  ASSUME TypeInt, Control, NEW p \in Pid, Environment(p)
  PROVE  Control'
<1>0. pc[p] = "wait" => p \in Pid /\ pc[p] # "none"
  OBVIOUS
<1>1. ASSUME NEW q \in Pid, NEW files, NEW bit, Spawned(p, q, files, bit)
      PROVE  Control'
  <2> USE <1>1 DEF Spawned, Goto, TypeInt
  <2>1. pc[q] = "none" /\ tracee[q] = "unborn" /\ q # p
    BY DEF Control, Children
  <2>2. child'[p].pid = q /\ pc' = [pc EXCEPT ![p] = "add"] /\ tracee'[q] # "unborn"
    OBVIOUS
  <2>3. Places'
    BY <2>2 DEF Control, Places
  <2>4. ChildKnown'
    BY <2>2 DEF Control, ChildKnown
  <2>5. \A r \in Pid \ {p} : pc[r] = "add" => child'[r].pid = child[r].pid /\ child[r].pid # q
    BY <2>1 DEF Control, Children
  <2>6. Children'
    BY <2>1, <2>2, <2>5 DEF Control, Children, ChildKnown
  <2> QED
    BY <2>3, <2>4, <2>6 DEF Control
<1>2. CASE \E q \in Pid : clone_event(p, q) \/ fork_event(p, q)
  BY <1>1, <1>2 DEF clone_event, fork_event
<1>3. CASE exit_event(p) \/ kill_event(p)
  BY <1>3, ControlStay DEF exit_event, kill_event, TypeInt
<1>4. CASE file_call(p) \/ handle_unconsidered_return(p) \/ open_abort(p)
  BY <1>4, ControlStay DEF file_call, handle_unconsidered_return, open_abort
<1>5. CASE handle_execve_return(p)
  BY <1>5, ControlGoto DEF handle_execve_return, AtReturn, PCs, CountedPCs
<1> QED
  BY <1>2, <1>3, <1>4, <1>5 DEF Environment

LEMMA ControlThread ==
  ASSUME TypeInt, Control, NEW p \in Pid, Thread(p)
  PROVE  Control'
<1> USE DEF PCs, CountedPCs
<1>1. CASE exec_copy(p)
  BY <1>1, ControlGoto DEF exec_copy
<1>2. CASE exec_release(p)
  BY <1>2, ControlGoto DEF exec_release
<1>3. CASE exec_reuse(p) \/ exec_new(p)
  BY <1>3, ControlGoto DEF exec_reuse, exec_new, Adopt
<1>4. CASE threads_add(p)
  <2>q. PICK q \in Pid : q = child[p].pid
    BY <1>4 DEF threads_add, Control, ChildKnown
  <2>1. /\ pc[p] = "add" /\ q # p /\ pc[q] = "none" /\ tracee[q] # "unborn"
        /\ pc' = [pc EXCEPT ![p] = "list", ![q] = "attach"]
        /\ UNCHANGED <<tracee, child>>
    BY <1>4, <2>q DEF threads_add, Control, Children
  <2>2. q # Root
    BY <2>1 DEF Control, Places
  <2>0. /\ pc'[p] = "list" /\ pc'[q] = "attach"
        /\ \A r \in Pid \ {p, q} : pc'[r] = pc[r]
    BY <2>1 DEF TypeInt
  <2>3. Places'
    BY <2>0, <2>2, TracersAssumption DEF Control, Places
  <2>4. ChildKnown'
    BY <2>0, <2>1, <2>q DEF Control, ChildKnown
  <2>5. \A r \in Pid \ {p} : pc[r] = "add" => child[r].pid # q
    BY <1>4, <2>q DEF threads_add, Control, Children
  <2>6. \A r \in Pid : tracee'[r] = "unborn" => pc'[r] = "none"
    BY <2>0, <2>1 DEF Control, Children
  <2>7. ASSUME NEW r \in Pid, pc'[r] = "add"
        PROVE  /\ pc'[child'[r].pid] = "none" /\ tracee'[child'[r].pid] # "unborn"
               /\ \A x \in Pid \ {r} : pc'[x] = "add" => child'[x].pid # child'[r].pid
    <3>1. r # p /\ r # q /\ pc[r] = "add"
      BY <2>0, <2>7
    <3>2. child[r].pid \in Pid \ {p, q}
      BY <3>1, <2>5, <1>4 DEF Control, Children, ChildKnown, threads_add
    <3> QED
      BY <3>1, <3>2, <2>0, <2>1, ZenonT(30) DEF Control, Children
  <2>8. Children'
    BY <2>6, <2>7 DEF Children
  <2> QED
    BY <2>3, <2>4, <2>8 DEF Control
<1>5. CASE threads_prepend(p)
  <2>1. /\ pc[p] = "list" /\ pc' = [pc EXCEPT ![p] = "wait"] /\ UNCHANGED tracee
        /\ child' = [child EXCEPT ![p] = NoChild]
    BY <1>5 DEF threads_prepend, Goto
  <2>0. \A r \in Pid \ {p} : child'[r] = child[r] /\ pc'[r] = pc[r]
    BY <2>1 DEF TypeInt
  <2>2. Places'
    BY <2>1 DEF TypeInt, Control, Places
  <2>3. pc'[p] = "wait"
    BY <2>1 DEF TypeInt
  <2>4. ChildKnown'
    BY <2>0, <2>3 DEF Control, ChildKnown
  <2>5. \A q \in Pid : tracee'[q] = "unborn" => pc'[q] = "none"
    BY <2>0, <2>1, <2>3 DEF Control, Children
  <2>6. ASSUME NEW r \in Pid, pc'[r] = "add"
        PROVE  /\ pc'[child'[r].pid] = "none" /\ tracee'[child'[r].pid] # "unborn"
               /\ \A x \in Pid \ {r} : pc'[x] = "add" => child'[x].pid # child'[r].pid
    BY <2>0, <2>1, <2>3, <2>6 DEF Control, Children, ChildKnown
  <2>7. Children'
    BY <2>5, <2>6 DEF Children
  <2> QED
    BY <2>2, <2>4, <2>7 DEF Control
<1>6. CASE thread_tmps_insert(p)
  BY <1>6, ControlGoto DEF thread_tmps_insert
<1>7. CASE insert_dangling(p)
  BY <1>7, ControlStay DEF insert_dangling
<1>8. CASE wait_exited(p) \/ wait_signaled(p) \/ wait_uninitialised(p)
  BY <1>8, ControlGoto DEF wait_exited, wait_signaled, wait_uninitialised
<1>9. CASE file_state_merge(p) \/ syscall_stat_merge(p)
  BY <1>9, ControlGoto DEF file_state_merge, syscall_stat_merge
<1>10. CASE thread_tmps_remove(p)
  BY <1>10, ControlGoto DEF thread_tmps_remove
<1>11. CASE thread_func_dec(p) \/ thread_func_return(p)
  BY <1>11, ControlGoto DEF thread_func_dec, thread_func_return, Control, Places
<1> QED
  BY <1>1, <1>2, <1>3, <1>4, <1>5, <1>6, <1>7, <1>8, <1>9, <1>10, <1>11 DEF Thread

LEMMA ControlMain ==
  ASSUME TypeInt, Control, Main
  PROVE  Control'
BY ControlGoto, TracersAssumption DEF Main, main_poll, main_join, main_print, PCs

=============================================================================
