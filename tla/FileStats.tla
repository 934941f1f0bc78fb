----------------------------- MODULE FileStats -----------------------------
(***************************************************************************)
(* The statistics tables (file_stat.c, unconsidered_syscall_stat.c): each  *)
(* tracer thread counts the syscalls of its task in tables of its own and, *)
(* when the task is gone, merges them into those of main, one thread after *)
(* another, in any order.  At the end main writes its tables to a JSON     *)
(* file (json_printer.c), where a syscall has the name that is at its      *)
(* number in an array generated from the kernel's table of syscalls        *)
(* (syscall_names.c).  What is written must be the statistics of all the   *)
(* syscalls together.                                                      *)
(***************************************************************************)
EXTENDS Integers, Sequences, FiniteSets, Bags, FiniteSetsExt

CONSTANTS Thread,
          File,             \* names of files
          Sc,               \* the numbers of the other syscalls
          Rows,             \* syscall_64.tbl: numbers and names, numbers ascending
          Ns,               \* the times a syscall may take, in ns
          Bytes,            \* the results of read and write
          NANOS,            \* ns in a second, a multiple of every time so that
                            \* bytes per second are whole
          MIN_NS_INITIAL,
          MIN_BPS_INITIAL,
          MaxCalls          \* bound on the syscalls of all threads

ASSUME FileStatsAssumption ==
  /\ Ns \subseteq Nat \ {0}
  /\ Bytes \subseteq Int
  /\ {NANOS, MIN_NS_INITIAL, MIN_BPS_INITIAL, MaxCalls} \subseteq Nat
  /\ Rows \in Seq({Rows[i] : i \in DOMAIN Rows}) /\ Rows # <<>>
  /\ \A i \in DOMAIN Rows : Rows[i].nr \in Nat
  /\ \A i, j \in DOMAIN Rows : i < j => Rows[i].nr < Rows[j].nr

VARIABLES
  file_stat_table,       \* of each thread
  syscall_table,
  main_file_stat_table,
  main_syscall_table,
  merged_file,           \* the threads whose tables are merged
  merged_sys,
  log,                   \* the syscalls of each thread, a bag: what is to be counted
  json                   \* the file written: none yet, the error of writing it, or a document

fvars == <<file_stat_table, main_file_stat_table, merged_file>>
svars == <<syscall_table, main_syscall_table, merged_sys>>
vars == <<fvars, svars, log, json>>

-----------------------------------------------------------------------------
(* One entry.                                                              *)

\* g_hash_table_lookup, and the value of a key that is not there.
Get(table, key, fresh) == IF key \in DOMAIN table THEN table[key] ELSE fresh

Lesser(a, b) == IF a > b THEN b ELSE a
Greater(a, b) == IF a < b THEN b ELSE a

init_open_close ==
  [count |-> 0, total_ns |-> 0, min_ns |-> MIN_NS_INITIAL, max_ns |-> 0]

init_read_write ==
  [total_b |-> 0, total_ns |-> 0, min_bps |-> MIN_BPS_INITIAL, max_bps |-> 0,
   blocks |-> EmptyBag]

init_file_stat ==
  [open |-> init_open_close, close |-> init_open_close,
   read |-> init_read_write, write |-> init_read_write]

incr_open_close(s, ns) ==
  [count |-> s.count + 1, total_ns |-> s.total_ns + ns,
   min_ns |-> Lesser(s.min_ns, ns), max_ns |-> Greater(s.max_ns, ns)]

Bps(ns, bytes) == (bytes * NANOS) \div ns

\* Mutant: a result that is not positive counts for the bytes.
file_stat_incr_rw_signed(s, ns, bytes) ==
  [total_b |-> s.total_b + bytes, total_ns |-> s.total_ns + ns,
   min_bps |-> Lesser(s.min_bps, Bps(ns, bytes)),
   max_bps |-> Greater(s.max_bps, Bps(ns, bytes)),
   blocks |-> s.blocks (+) SetToBag({bytes})]

\* blocks counts every result, the rest only those that moved bytes.
file_stat_incr_rw(s, ns, bytes) ==
  LET moved == bytes > 0 IN
  [total_b |-> IF moved THEN s.total_b + bytes ELSE s.total_b,
   total_ns |-> s.total_ns + ns,
   min_bps |-> IF moved THEN Lesser(s.min_bps, Bps(ns, bytes)) ELSE s.min_bps,
   max_bps |-> IF moved THEN Greater(s.max_bps, Bps(ns, bytes)) ELSE s.max_bps,
   blocks |-> s.blocks (+) SetToBag({bytes})]

\* Mutant: the minimum is taken from the thread merged last.
merge_open_close_last(s1, s2) ==
  [count |-> s1.count + s2.count, total_ns |-> s1.total_ns + s2.total_ns,
   min_ns |-> s2.min_ns, max_ns |-> Greater(s1.max_ns, s2.max_ns)]

merge_open_close(s1, s2) ==
  [count |-> s1.count + s2.count, total_ns |-> s1.total_ns + s2.total_ns,
   min_ns |-> Lesser(s1.min_ns, s2.min_ns), max_ns |-> Greater(s1.max_ns, s2.max_ns)]

\* Mutant: a block size main knows already is not added to.
merge_blocks_known(b1, b2) ==
  [k \in DOMAIN b1 \cup DOMAIN b2 |-> IF k \in DOMAIN b1 THEN b1[k] ELSE b2[k]]

merge_blocks(b1, b2) ==
  [k \in DOMAIN b1 \cup DOMAIN b2 |-> Get(b1, k, 0) + Get(b2, k, 0)]

merge_read_write(s1, s2) ==
  [total_b |-> s1.total_b + s2.total_b, total_ns |-> s1.total_ns + s2.total_ns,
   min_bps |-> Lesser(s1.min_bps, s2.min_bps), max_bps |-> Greater(s1.max_bps, s2.max_bps),
   blocks |-> merge_blocks(s1.blocks, s2.blocks)]

merge_file_stat(s1, s2) ==
  [open |-> merge_open_close(s1.open, s2.open),
   close |-> merge_open_close(s1.close, s2.close),
   read |-> merge_read_write(s1.read, s2.read),
   write |-> merge_read_write(s1.write, s2.write)]

\* Of unconsidered_syscall_stat.c.
init_syscall_stat == [count |-> 0, total_ns |-> 0]
incr_syscall_stat(s, ns) == [count |-> s.count + 1, total_ns |-> s.total_ns + ns]
merge_syscall_stat(s1, s2) ==
  [count |-> s1.count + s2.count, total_ns |-> s1.total_ns + s2.total_ns]

-----------------------------------------------------------------------------
(* The tables: a key without an entry gets a fresh one when it is used.    *)

file_stat_create == [f \in {"NULL"} |-> init_file_stat]
syscall_stat_create == <<>>

file_stat_get_safe(table, file) == Get(table, file, init_file_stat)
syscall_stat_get_safe(table, sc) == Get(table, sc, init_syscall_stat)

Put(table, key, entry) ==
  [k \in DOMAIN table \cup {key} |-> IF k = key THEN entry ELSE table[k]]

\* Every entry of table2 is merged into table1.
MergeFiles(table1, table2) ==
  [f \in DOMAIN table1 \cup DOMAIN table2 |->
     IF f \in DOMAIN table2
       THEN merge_file_stat(file_stat_get_safe(table1, f), table2[f])
       ELSE table1[f]]

MergeSyscalls(table1, table2) ==
  [c \in DOMAIN table1 \cup DOMAIN table2 |->
     IF c \in DOMAIN table2
       THEN merge_syscall_stat(syscall_stat_get_safe(table1, c), table2[c])
       ELSE table1[c]]

Init ==
  /\ file_stat_table = [t \in Thread |-> file_stat_create]
  /\ syscall_table = [t \in Thread |-> syscall_stat_create]
  /\ main_file_stat_table = file_stat_create
  /\ main_syscall_table = syscall_stat_create
  /\ merged_file = {}
  /\ merged_sys = {}
  /\ log = [t \in Thread |-> EmptyBag]
  /\ json = <<>>

-----------------------------------------------------------------------------
(* What a thread does while its task lives.                                *)

Alive(t) == t \notin merged_file

Logged(t, event) == log' = [log EXCEPT ![t] = @ (+) SetToBag({event})]

Count(t, file, entry) ==
  /\ Alive(t)
  /\ file_stat_table' = [file_stat_table EXCEPT ![t] = Put(@, file, entry)]
  /\ UNCHANGED <<main_file_stat_table, merged_file, svars, json>>

file_stat_incr_open(t, f, ns) ==
  LET s == file_stat_get_safe(file_stat_table[t], f) IN
  /\ Count(t, f, [s EXCEPT !.open = incr_open_close(@, ns)])
  /\ Logged(t, [op |-> "open", key |-> f, ns |-> ns, bytes |-> 0])

file_stat_incr_close(t, f, ns) ==
  LET s == file_stat_get_safe(file_stat_table[t], f) IN
  /\ Count(t, f, [s EXCEPT !.close = incr_open_close(@, ns)])
  /\ Logged(t, [op |-> "close", key |-> f, ns |-> ns, bytes |-> 0])

file_stat_incr_read(t, f, ns, bytes) ==
  LET s == file_stat_get_safe(file_stat_table[t], f) IN
  /\ Count(t, f, [s EXCEPT !.read = file_stat_incr_rw(@, ns, bytes)])
  /\ Logged(t, [op |-> "read", key |-> f, ns |-> ns, bytes |-> bytes])

file_stat_incr_write(t, f, ns, bytes) ==
  LET s == file_stat_get_safe(file_stat_table[t], f) IN
  /\ Count(t, f, [s EXCEPT !.write = file_stat_incr_rw(@, ns, bytes)])
  /\ Logged(t, [op |-> "write", key |-> f, ns |-> ns, bytes |-> bytes])

syscall_stat_incr(t, c, ns) ==
  /\ Alive(t)
  /\ syscall_table' = [syscall_table EXCEPT ![t] =
       Put(@, c, incr_syscall_stat(syscall_stat_get_safe(@, c), ns))]
  /\ Logged(t, [op |-> "other", sc |-> c, ns |-> ns])
  /\ UNCHANGED <<main_syscall_table, merged_sys, fvars, json>>

(* What it does when its task is gone, each under a mutex of its own.      *)

file_state_merge(t) ==
  /\ Alive(t)
  /\ main_file_stat_table' = MergeFiles(main_file_stat_table, file_stat_table[t])
  /\ merged_file' = merged_file \cup {t}
  /\ UNCHANGED <<file_stat_table, svars, log, json>>

syscall_stat_merge(t) ==
  /\ t \in merged_file \ merged_sys
  /\ main_syscall_table' = MergeSyscalls(main_syscall_table, syscall_table[t])
  /\ merged_sys' = merged_sys \cup {t}
  /\ UNCHANGED <<syscall_table, fvars, log, json>>

-----------------------------------------------------------------------------
(* The names of syscalls (syscall_parser.sh), by number from 0 on.         *)

UNDEFINED_SYSCALL == "UNDEFINED_SYSCALL"

\* Mutant: a gap is filled up to and including the number after it.
AddRow_gap(names, row) ==
  names \o [i \in 1 .. row.nr + 1 - Len(names) |-> UNDEFINED_SYSCALL] \o <<row.name>>

\* A row goes to its number; the numbers no row has are undefined.
AddRow(names, row) ==
  names \o [i \in 1 .. row.nr - Len(names) |-> UNDEFINED_SYSCALL] \o <<row.name>>

\* The loop never sees the last row, which has no newline any more: read fails.
NamesOf[i \in 0 .. Len(Rows)] ==
  IF i = 0 THEN <<>> ELSE AddRow(NamesOf[i - 1], Rows[i])

syscall_names == NamesOf[Len(Rows) - 1]

NameOf(sc) == syscall_names[sc + 1]

-----------------------------------------------------------------------------
(* The JSON file.  An array of objects is a function: the keys of the hash *)
(* table stand for the positions, in an order that means nothing.          *)

builder_add_blocks(blocks) == [b \in DOMAIN blocks |-> <<b, blocks[b]>>]

builder_add_open_close(s) == <<s.count, s.total_ns, s.min_ns, s.max_ns>>

builder_add_read_write(s) == <<s.total_b, s.total_ns, s.min_bps, s.max_bps>>

\* Mutant: the blocks of read are written for write too.
builder_add_file_stats_copied(table) ==
  [f \in DOMAIN table |->
    [filename |-> f,
     open |-> builder_add_open_close(table[f].open),
     close |-> builder_add_open_close(table[f].close),
     read |-> builder_add_read_write(table[f].read),
     read_blocks |-> builder_add_blocks(table[f].read.blocks),
     write |-> builder_add_read_write(table[f].write),
     write_blocks |-> builder_add_blocks(table[f].read.blocks)]]

builder_add_file_stats(table) ==
  [f \in DOMAIN table |->
    [filename |-> f,
     open |-> builder_add_open_close(table[f].open),
     close |-> builder_add_open_close(table[f].close),
     read |-> builder_add_read_write(table[f].read),
     read_blocks |-> builder_add_blocks(table[f].read.blocks),
     write |-> builder_add_read_write(table[f].write),
     write_blocks |-> builder_add_blocks(table[f].write.blocks)]]

builder_add_syscall_stats(table) ==
  [c \in DOMAIN table |-> [syscall |-> NameOf(c), count |-> table[c].count,
                           total_ns |-> table[c].total_ns]]

\* main_tracer, when all threads are joined: the file is written, or it cannot
\* be and the exit status is 1.
print_stats_as_json ==
  /\ merged_sys = Thread /\ json = <<>>
  /\ json' \in {<<"error">>,
                <<"document", builder_add_file_stats(main_file_stat_table),
                              builder_add_syscall_stats(main_syscall_table)>>}
  /\ UNCHANGED <<fvars, svars, log>>

MoreCalls == SumFunction([t \in Thread |-> SumFunction(log[t])]) < MaxCalls

Counted(t) ==
  \/ \E f \in File, ns \in Ns : \/ file_stat_incr_open(t, f, ns)
                                \/ file_stat_incr_close(t, f, ns)
  \/ \E f \in File, ns \in Ns, b \in Bytes : \/ file_stat_incr_read(t, f, ns, b)
                                             \/ file_stat_incr_write(t, f, ns, b)
  \/ \E c \in Sc, ns \in Ns : syscall_stat_incr(t, c, ns)

Next ==
  \/ MoreCalls /\ \E t \in Thread : Counted(t)
  \/ \E t \in Thread : file_state_merge(t) \/ syscall_stat_merge(t)
  \/ print_stats_as_json

Spec == Init /\ [][Next]_vars

-----------------------------------------------------------------------------
(* The statistics of a bag of syscalls, by their definition.               *)

Total(events, Value(_)) == SumFunction([e \in DOMAIN events |-> events[e] * Value(e)])

Select(events, op, key) ==
  [e \in {d \in DOMAIN events : d.op = op /\ d.key = key} |-> events[e]]

OpenCloseOf(events) ==
  LET times == {e.ns : e \in DOMAIN events} IN
  IF times = {} THEN init_open_close
  ELSE [count |-> SumFunction(events), total_ns |-> Total(events, LAMBDA e : e.ns),
        min_ns |-> Min(times), max_ns |-> Max(times)]

ReadWriteOf(events) ==
  LET moving == {e \in DOMAIN events : e.bytes > 0}
      speeds == {Bps(e.ns, e.bytes) : e \in moving}
  IN
  [total_b |-> Total(events, LAMBDA e : IF e.bytes > 0 THEN e.bytes ELSE 0),
   total_ns |-> Total(events, LAMBDA e : e.ns),
   min_bps |-> IF moving = {} THEN MIN_BPS_INITIAL ELSE Min(speeds),
   max_bps |-> IF moving = {} THEN 0 ELSE Max(speeds),
   blocks |-> [b \in {e.bytes : e \in DOMAIN events} |->
                 Total(events, LAMBDA e : IF e.bytes = b THEN 1 ELSE 0)]]

FileOf(events, f) ==
  [open |-> OpenCloseOf(Select(events, "open", f)),
   close |-> OpenCloseOf(Select(events, "close", f)),
   read |-> ReadWriteOf(Select(events, "read", f)),
   write |-> ReadWriteOf(Select(events, "write", f))]

FilesOf(events) ==
  [f \in {"NULL"} \cup {e.key : e \in {d \in DOMAIN events : d.op # "other"}} |->
     FileOf(events, f)]

SelectOther(events, c) ==
  [e \in {d \in DOMAIN events : d.op = "other" /\ d.sc = c} |-> events[e]]

SyscallOf(events, c) ==
  [count |-> SumFunction(SelectOther(events, c)),
   total_ns |-> Total(SelectOther(events, c), LAMBDA e : e.ns)]

SyscallsOf(events) ==
  [c \in {e.sc : e \in {d \in DOMAIN events : d.op = "other"}} |-> SyscallOf(events, c)]

LogOf(threads) ==
  [e \in UNION {DOMAIN log[t] : t \in threads} |->
     SumFunction([t \in threads |-> Get(log[t], e, 0)])]

-----------------------------------------------------------------------------
OpenClose == [count : Nat, total_ns : Nat, min_ns : Nat, max_ns : Nat]
SyscallStat == [count : Nat, total_ns : Nat]

IsReadWrite(s) ==
  /\ s \in [total_b : Nat, total_ns : Nat, min_bps : Nat, max_bps : Nat, blocks : {s.blocks}]
  /\ IsABag(s.blocks)

IsFileStat(s) ==
  /\ s \in [open : OpenClose, close : OpenClose, read : {s.read}, write : {s.write}]
  /\ IsReadWrite(s.read) /\ IsReadWrite(s.write)

IsFileTable(table) ==
  /\ table = [f \in DOMAIN table |-> table[f]]
  /\ DOMAIN table \subseteq File \cup {"NULL"}
  /\ \A f \in DOMAIN table : IsFileStat(table[f])

IsSyscallTable(table) ==
  DOMAIN table \subseteq Sc /\ \A c \in DOMAIN table : table[c] \in SyscallStat

Event == [op : {"open", "close"}, key : File, ns : Ns, bytes : {0}]
           \cup [op : {"read", "write"}, key : File, ns : Ns, bytes : Bytes]
           \cup [op : {"other"}, sc : Sc, ns : Ns]

IsLog(events) ==
  IsABag(events) /\ IsFiniteSet(DOMAIN events) /\ DOMAIN events \subseteq Event

\* Every variable keeps its type; the members of the C structures are unsigned
\* and stay so although read and write return negative numbers on failure.
TypeOK ==
  /\ {DOMAIN file_stat_table, DOMAIN syscall_table, DOMAIN log} = {Thread}
  /\ \A t \in Thread : IsFileTable(file_stat_table[t]) /\ IsSyscallTable(syscall_table[t])
  /\ IsFileTable(main_file_stat_table) /\ IsSyscallTable(main_syscall_table)
  /\ merged_sys \subseteq merged_file /\ merged_file \subseteq Thread
  /\ \A t \in Thread : IsLog(log[t])
  /\ json = <<>> \/ json[1] \in {"error", "document"}

\* Each thread's tables are the statistics of what it has counted
\* (README.md:6 to 9).
ThreadExact ==
  \A t \in Thread : /\ file_stat_table[t] = FilesOf(log[t])
                    /\ syscall_table[t] = SyscallsOf(log[t])

\* The tables of main are the statistics of all the syscalls of the threads
\* merged so far, in whatever order they came (file_state_merge,
\* syscall_stat_merge).
MainExact ==
  /\ main_file_stat_table = FilesOf(LogOf(merged_file))
  /\ main_syscall_table = SyscallsOf(LogOf(merged_sys))

\* The block sizes main prints account for the bytes it prints.
BlocksExplainBytes ==
  \A f \in DOMAIN main_file_stat_table, op \in {"read", "write"} :
    LET s == main_file_stat_table[f][op] IN
    s.total_b = Total(s.blocks, LAMBDA b : IF b > 0 THEN b ELSE 0)

Values(f) == {f[x] : x \in DOMAIN f}

\* What a reader takes from the document (README.md:65 to 70).
OpenCloseRead(a) == [count |-> a[1], total_ns |-> a[2], min_ns |-> a[3], max_ns |-> a[4]]

ReadWriteRead(a, blocks) ==
  [total_b |-> a[1], total_ns |-> a[2], min_bps |-> a[3], max_bps |-> a[4],
   blocks |-> [b \in {e[1] : e \in Values(blocks)} |->
                 (CHOOSE e \in Values(blocks) : e[1] = b)[2]]]

FilesRead(objects) ==
  [f \in {o.filename : o \in Values(objects)} |->
     LET o == CHOOSE o \in Values(objects) : o.filename = f IN
     [open |-> OpenCloseRead(o.open), close |-> OpenCloseRead(o.close),
      read |-> ReadWriteRead(o.read, o.read_blocks),
      write |-> ReadWriteRead(o.write, o.write_blocks)]]

\* What MIN_NS_INITIAL and MIN_BPS_INITIAL are meant to be, above all that is
\* measured (file_stat.c:32), and the syscalls the array of names is meant for.
\* Without either the statistics or the names need not be exact.
BelowInitials ==
  /\ \A ns \in Ns : ns <= MIN_NS_INITIAL
  /\ \A ns \in Ns, b \in Bytes : b > 0 => Bps(ns, b) <= MIN_BPS_INITIAL

BelowLast ==
  /\ Len(Rows) > 1
  /\ Sc \subseteq 0 .. Rows[Len(Rows) - 1].nr

\* The names the table of the kernel has for a number.
RowNames(c) ==
  LET rows == {row \in Values(Rows) : row.nr = c} IN
  IF rows = {} THEN {UNDEFINED_SYSCALL} ELSE {row.name : row \in rows}

\* Every syscall that is counted is named as the table of the kernel names it
\* (syscall_names.h:30).
NamesExact == \A c \in Sc : NameOf(c) \in RowNames(c)

\* A file that is written holds the statistics of all the syscalls of all the
\* threads, as the README says it is to be read, and names every other syscall
\* as the table of the kernel does (README.md:65, syscall_names.h:30).
JsonExact ==
  json # <<>> /\ json[1] = "document" =>
    LET stats == SyscallsOf(LogOf(Thread)) IN
    /\ FilesRead(json[2]) = FilesOf(LogOf(Thread))
    /\ DOMAIN json[3] = DOMAIN stats
    /\ \A c \in DOMAIN json[3] :
         json[3][c] \in [syscall : RowNames(c), count : {stats[c].count},
                         total_ns : {stats[c].total_ns}]

=============================================================================
