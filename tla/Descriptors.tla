---------------------------- MODULE Descriptors ----------------------------
(***************************************************************************)
(* How iotrace follows the file descriptors of the traced tasks            *)
(* (syscall_handler.c over fd_table.c).  The kernel executes the syscalls  *)
(* of each task in one order; iotrace handles the stop before a call and   *)
(* the stop after it, the latter perhaps in another order when two tasks   *)
(* share a file table, for each has a tracer thread of its own.  The table *)
(* of iotrace maps descriptors to names, and every open, close, read and   *)
(* write is credited to a name.                                            *)
(*                                                                         *)
(* The statistics are modelled by what they owe: credit counts what iotrace*)
(* has counted less what the tasks have done, so that no length of a run   *)
(* needs a bound.                                                          *)
(*                                                                         *)
(* iotrace cannot follow every call: returns of tasks that share a table   *)
(* overtake each other, flags are not looked at, failures are taken for    *)
(* successes.  Such calls are steps as any other; the history variable     *)
(* strayed names the tasks whose tables they reached.                      *)
(***************************************************************************)
EXTENDS Integers, FiniteSets, Sequences

CONSTANTS Task,
          First,          \* the task forked by iotrace
          MaxFd,          \* bound on the descriptors
          FdArg,          \* the descriptors the tasks pass to syscalls
          Path,           \* the filenames passed to open
          Calls,          \* the syscalls the tasks use
          Failing,        \* the syscalls that may fail on good arguments
          Astray          \* whether a task that strayed goes on; without it the
                          \* states are finitely many

ASSUME DescriptorsAssumption ==
  /\ First \in Task /\ IsFiniteSet(Task)
  /\ MaxFd \in Nat \ {0, 1}
  /\ FdArg \subseteq -1 .. MaxFd
  /\ Path \subseteq STRING
  /\ Astray \in BOOLEAN

VARIABLES
  kernel,    \* the kernel's file table of each task: descriptor -> name, close-on-exec
  ksharers,  \* the tasks that share the kernel's table of a task
  new_child, \* what PTRACE_GETEVENTMSG shows at the event of clone or fork
  fd_table,  \* the table of iotrace for each task
  sharers,   \* the tasks whose thread_tmps point to the same fd_table
  stop,      \* where each task is
  call,      \* its registers at the call stop, which handle_*_call saves
  ret,       \* RAX and the descriptors of a pair, which the return stop shows
  credit,    \* file_stat_table less what the tasks did
  status,    \* whether iotrace still runs
  strayed    \* the tasks whose tables a call reached that iotrace cannot follow

kvars == <<kernel, ksharers, new_child>>
tvars == <<fd_table, sharers>>
vars == <<kvars, tvars, stop, call, ret, credit, status, strayed>>

-----------------------------------------------------------------------------
Fd == 0 .. MaxFd

\* The errno of a failed opener, and of any other failed call: RAX shows its
\* negation, and only the sign matters.
ENOENT == 2
EBADF == 9

\* Names are sequences of words: a pseudoterminal peer adds " slave".
Word == Path \cup {"NULL", "stdin", "stdout", "stderr", "pipe_r", "pipe_w", "socket",
                   "eventfd", "epoll", "accept", "/dev/ptmx", "slave"}
NULL == <<"NULL">>
STDIN == <<"stdin">>
STDOUT == <<"stdout">>
STDERR == <<"stderr">>
PIPE_R == <<"pipe_r">>
PIPE_W == <<"pipe_w">>
SOCKET == <<"socket">>
EVENTFD == <<"eventfd">>
EPOLL == <<"epoll">>
ACCEPT == <<"accept">>
PTMX == <<"/dev/ptmx">>
Slave(name) == Append(name, "slave")

Name == {<<p>> : p \in Path} \cup
        {NULL, STDIN, STDOUT, STDERR, PIPE_R, PIPE_W, SOCKET, EVENTFD, EPOLL,
         ACCEPT, Slave(PTMX)}

Entry(name, cloexec) == [name |-> name, cloexec |-> cloexec]

\* g_hash_table_insert and g_hash_table_remove.
Insert(table, fd, entry) ==
  [k \in DOMAIN table \cup {fd} |-> IF k = fd THEN entry ELSE table[k]]
Remove(table, fd) == [k \in DOMAIN table \ {fd} |-> table[k]]
WithoutCloexec(table) ==
  [k \in {j \in DOMAIN table : ~table[j].cloexec} |-> table[k]]

\* The name behind a descriptor, "NULL" for one without an entry.
Named(table, fd) == IF fd \in DOMAIN table THEN table[fd].name ELSE NULL

WithFlag == {"socket", "eventfd2", "epoll_create1", "accept4"}
WithoutFlag == {"eventfd", "epoll_create", "accept"}
Openers == {"open"} \cup WithFlag \cup WithoutFlag
Pairs == {"pipe", "pipe2", "socketpair"}
Dups == {"dup", "dup2", "dup3", "dupfd", "dupfd_cloexec", "gptpeer"}
\* Those with which a close-on-exec flag escapes iotrace.
Silent == {"socketpair", "dup3", "gptpeer"}

\* The registers of a call.  An untracked call opens a descriptor by a syscall
\* iotrace does not consider; dupfd, dupfd_cloexec and setfd are commands of
\* fcntl, gptpeer one of ioctl.
Registers ==
  { r \in [sc : {"open"}, name : {<<p>> : p \in Path}, cloexec : BOOLEAN]
     \cup [sc : WithFlag \cup {"pipe2", "socketpair"}, cloexec : BOOLEAN]
     \cup [sc : WithoutFlag \cup {"pipe", "untracked", "execve", "clone", "fork"},
           cloexec : {FALSE}]
     \cup [sc : {"close", "read", "write", "dup", "dupfd"}, fd : FdArg, cloexec : {FALSE}]
     \cup [sc : {"dupfd_cloexec"}, fd : FdArg, cloexec : {TRUE}]
     \cup [sc : {"dup2"}, fd : FdArg, new : Fd, cloexec : {FALSE}]
     \cup [sc : {"dup3"}, fd : FdArg, new : Fd, cloexec : BOOLEAN]
     \cup [sc : {"setfd", "gptpeer"}, fd : FdArg, cloexec : BOOLEAN] :
    r.sc \in Calls }

NoCall == [sc |-> "none"]
NoRet == [rax |-> 0, fds |-> <<>>]

Ops == {"open", "close", "read", "write"}

Init ==
  LET std == [k \in 0 .. 2 |-> Entry(<<STDIN, STDOUT, STDERR>>[k + 1], FALSE)] IN
  /\ kernel = [t \in Task |-> std]
  /\ ksharers = [t \in Task |-> {t}] /\ new_child = [t \in Task |-> t]
  /\ fd_table = [t \in Task |-> std]
  /\ sharers = [t \in Task |-> {t}]
  /\ stop = [t \in Task |-> IF t = First THEN "user" ELSE "unborn"]
  /\ call = [t \in Task |-> NoCall]
  /\ ret = [t \in Task |-> NoRet]
  /\ credit = [k \in Ops \X Name |-> 0]
  /\ status = "running"
  /\ strayed = {}

-----------------------------------------------------------------------------
(* The traced tasks and the kernel.                                        *)

Partners(t) == (ksharers[t] \cup sharers[t]) \ {t}
Returning == {"return", "removing"}
\* The kernel has executed the call, iotrace has not handled its return.
InFlight == Returning \cup {"event"}

\* The task makes a syscall; handle_*_call saves its registers.
handle_syscall_call(t) ==
  /\ stop[t] = "user"
  /\ t \in strayed => Astray
  /\ \E r \in Registers : call' = [call EXCEPT ![t] = r]
  /\ stop' = [stop EXCEPT ![t] = "call"]
  /\ UNCHANGED <<kvars, tvars, ret, credit, status>>

FreeFds(t) == Fd \ DOMAIN kernel[t]
Lowest(fds) == CHOOSE f \in fds : \A g \in fds : f <= g

\* The kernel executes the call of t.
Executes(t, scs) ==
  /\ stop[t] = "call" /\ call[t].sc \in scs
  /\ stop' = [stop EXCEPT ![t] = "return"]
  /\ UNCHANGED <<tvars, call, status>>

Returns(t, rax, fds) == ret' = [ret EXCEPT ![t] = [rax |-> rax, fds |-> fds]]
Fails(t, errno) == Returns(t, -errno, <<>>) /\ UNCHANGED kvars
MayFail(t) == call[t].sc \in Failing

\* All who share the file table see the change.
SetKernel(t, table) ==
  /\ kernel' = [u \in Task |-> IF u \in ksharers[t] THEN table ELSE kernel[u]]
  /\ UNCHANGED <<ksharers, new_child>>

\* What the tasks did is taken off what iotrace counts.
Owe(op, name) == credit' = [credit EXCEPT ![<<op, name>>] = @ - 1]
OweNothing == UNCHANGED credit

\* How often a pair is counted under an operation and a name.
Opens(k, names) ==
  IF k[1] = "open" THEN Cardinality({i \in {1, 2} : names[i] = k[2]}) ELSE 0

OpenedName(t) ==
  LET sc == call[t].sc IN
  CASE sc = "open" -> call[t].name
    [] sc = "socket" -> SOCKET
    [] sc \in {"eventfd", "eventfd2"} -> EVENTFD
    [] sc \in {"epoll_create", "epoll_create1"} -> EPOLL
    [] sc \in {"accept", "accept4"} -> ACCEPT

\* An open is owed whether it succeeds or not: the handlers count attempts.
kernel_open(t) ==
  /\ Executes(t, Openers)
  /\ \/ /\ FreeFds(t) # {}
        /\ LET f == Lowest(FreeFds(t)) IN
             /\ SetKernel(t, Insert(kernel[t], f, Entry(OpenedName(t), call[t].cloexec)))
             /\ Returns(t, f, <<>>)
     \/ MayFail(t) /\ Fails(t, ENOENT)
  /\ Owe("open", OpenedName(t))

\* The array of a pair may end where mapped memory ends: the eight bytes that
\* are read for its second half are then not all there, and the failed read,
\* which nobody tests, gives -1.
kernel_pair(t) ==
  /\ Executes(t, Pairs)
  /\ \/ \E f \in FreeFds(t) :
          LET g == Lowest(FreeFds(t) \ {f})
              names == IF call[t].sc = "socketpair" THEN <<SOCKET, SOCKET>>
                                                    ELSE <<PIPE_R, PIPE_W>>
          IN
          /\ f = Lowest(FreeFds(t)) /\ FreeFds(t) # {f}
          /\ SetKernel(t, Insert(Insert(kernel[t], f, Entry(names[1], call[t].cloexec)),
                                 g, Entry(names[2], call[t].cloexec)))
          /\ Returns(t, 0, <<f, g>>) \/ Returns(t, 0, <<f, -1>>)
          /\ credit' = [k \in Ops \X Name |-> credit[k] - Opens(k, names)]
     \/ /\ MayFail(t)
        /\ Fails(t, EBADF)
        /\ OweNothing

kernel_close(t) ==
  /\ Executes(t, {"close"})
  /\ IF call[t].fd \in DOMAIN kernel[t]
       THEN SetKernel(t, Remove(kernel[t], call[t].fd)) /\ Returns(t, 0, <<>>)
       ELSE Fails(t, EBADF)
  /\ Owe("close", Named(kernel[t], call[t].fd))

kernel_read_write(t) ==
  /\ Executes(t, {"read", "write"})
  /\ IF call[t].fd \in DOMAIN kernel[t]
       THEN Returns(t, 0, <<>>) /\ UNCHANGED kvars
       ELSE Fails(t, EBADF)
  /\ Owe(call[t].sc, Named(kernel[t], call[t].fd))

\* A descriptor for what fd refers to: the one named, or the lowest free one.
kernel_dup(t) ==
  LET c == call[t]
      named == c.sc \in {"dup2", "dup3"}
      name == IF c.sc = "gptpeer" THEN Slave(kernel[t][c.fd].name)
                                  ELSE kernel[t][c.fd].name
  IN
  /\ Executes(t, Dups)
  /\ \/ /\ c.fd \notin DOMAIN kernel[t]
        /\ Fails(t, EBADF)
     \/ /\ c.fd \in DOMAIN kernel[t]
        /\ c.sc = "gptpeer" /\ kernel[t][c.fd].name # PTMX
        /\ Fails(t, EBADF)
     \/ /\ c.fd \in DOMAIN kernel[t]
        /\ named /\ c.new = c.fd
        /\ IF c.sc = "dup2" THEN Returns(t, c.fd, <<>>) /\ UNCHANGED kvars
                            ELSE Fails(t, EBADF)
     \/ /\ c.fd \in DOMAIN kernel[t]
        /\ c.sc = "gptpeer" => kernel[t][c.fd].name = PTMX
        /\ IF named THEN c.new # c.fd ELSE FreeFds(t) # {}
        /\ LET f == IF named THEN c.new ELSE Lowest(FreeFds(t)) IN
             /\ SetKernel(t, Insert(kernel[t], f, Entry(name, c.cloexec)))
             /\ Returns(t, f, <<>>)
     \/ /\ c.fd \in DOMAIN kernel[t] /\ MayFail(t)
        /\ Fails(t, EBADF)
  /\ OweNothing

kernel_setfd(t) ==
  LET f == call[t].fd IN
  /\ Executes(t, {"setfd"})
  /\ IF f \in DOMAIN kernel[t]
       THEN /\ SetKernel(t, Insert(kernel[t], f, Entry(kernel[t][f].name, call[t].cloexec)))
            /\ Returns(t, 0, <<>>)
       ELSE Fails(t, EBADF)
  /\ OweNothing

\* A syscall iotrace does not consider opens a descriptor.  Nothing is owed for
\* it, though creat and openat2 open files by name: iotrace has no handler for
\* them, and their files are never counted as opened.
kernel_untracked(t) ==
  /\ Executes(t, {"untracked"})
  /\ FreeFds(t) # {}
  /\ SetKernel(t, Insert(kernel[t], Lowest(FreeFds(t)), Entry(NULL, FALSE)))
  /\ Returns(t, Lowest(FreeFds(t)), <<>>)
  /\ OweNothing

\* execve takes the task out of its file table and closes what is marked.
kernel_execve(t) ==
  /\ Executes(t, {"execve"})
  /\ \/ /\ kernel' = [kernel EXCEPT ![t] = WithoutCloexec(@)]
        /\ ksharers' = [u \in Task |-> IF u = t THEN {t} ELSE ksharers[u] \ {t}]
        /\ UNCHANGED new_child
        /\ Returns(t, 0, <<>>)
     \/ MayFail(t) /\ Fails(t, ENOENT)
  /\ OweNothing

\* A new task, with the file table of its parent or a copy of it.
kernel_clone(t, u) ==
  LET group == IF call[t].sc = "clone" THEN ksharers[t] \cup {u} ELSE {u} IN
  /\ stop[t] = "call" /\ call[t].sc \in {"clone", "fork"}
  /\ stop[u] = "unborn"
  /\ kernel' = [kernel EXCEPT ![u] = kernel[t]]
  /\ ksharers' = [v \in Task |-> IF v \in group THEN group ELSE ksharers[v]]
  /\ new_child' = [new_child EXCEPT ![t] = u]
  /\ stop' = [stop EXCEPT ![t] = "event", ![u] = "new"]
  /\ UNCHANGED <<tvars, call, ret, credit, status>>

-----------------------------------------------------------------------------
(* The calls iotrace cannot follow.                                        *)

\* A partner's call is in flight: iotrace may handle the two returns in either
\* order, and sees a table that is not the one the call used.  Two calls that
\* only use the table may overlap.
Reading(t) == call[t].sc \in {"read", "write"}
Races(t) == \E u \in Partners(t) : stop[u] \in InFlight /\ ~(Reading(t) /\ Reading(u))

\* A failed execve is handled as a successful one; it matters to who shares its
\* table or has something marked.
FailsToExec(t) ==
  /\ call[t].sc = "execve" /\ ret'[t].rax < 0
  /\ ksharers[t] # {t} \/ \E f \in DOMAIN kernel[t] : kernel[t][f].cloexec

Strays(t) ==
  \/ Races(t)
  \/ FailsToExec(t)
  \/ call[t].sc \in Silent /\ call[t].cloexec
  \/ \E i \in DOMAIN ret'[t].fds : ret'[t].fds[i] = -1

\* Those who share a table with t, and the new tasks on their way to one.
Affected(t) ==
  LET group == ksharers[t] \cup sharers[t] IN
  group \cup {new_child'[u] : u \in {v \in group : stop'[v] = "event"}}

\* What a task that strayed does reaches those it shares a table with later.
Follow(t) ==
  strayed' = strayed \cup IF t \in strayed \/ Strays(t) THEN Affected(t) ELSE {}

-----------------------------------------------------------------------------
(* fd_table.c: all who share the table see the change.                     *)

SetTable(t, table) ==
  fd_table' = [u \in Task |-> IF u \in sharers[t] THEN table ELSE fd_table[u]]

fd_table_insert(t, fd, name, cloexec) ==
  SetTable(t, Insert(fd_table[t], fd, Entry(name, cloexec)))

fd_table_remove(t, fd) == SetTable(t, Remove(fd_table[t], fd))

\* The original must have an entry: its filename is read without a test.
fd_table_insert_dup(t, orig_fd, dup_fd, cloexec, slave) ==
  LET name == fd_table[t][orig_fd].name IN
  /\ orig_fd \in DOMAIN fd_table[t]
  /\ fd_table_insert(t, dup_fd, IF slave THEN Slave(name) ELSE name, cloexec)

fd_table_set_cloexec(t, fd, cloexec) ==
  /\ fd \in DOMAIN fd_table[t]
  /\ fd_table_insert(t, fd, fd_table[t][fd].name, cloexec)

\* file_stat_incr_open, _close, _read and _write of file_stat.c.
incr(op, name) == credit' = [credit EXCEPT ![<<op, name>>] = @ + 1]

-----------------------------------------------------------------------------
(* The handlers of the return stop, run by the tracer thread of the task.  *)

AtReturn(t, scs) == stop[t] = "return" /\ call[t].sc \in scs

\* The task goes on.
Done(t) ==
  /\ stop' = [stop EXCEPT ![t] = "user"]
  /\ call' = [call EXCEPT ![t] = NoCall]
  /\ ret' = [ret EXCEPT ![t] = NoRet]
  /\ UNCHANGED kvars

\* Mutant: RAX is not tested, and a failed call inserts its negated errno.
OpenReturn_untested(t, name, cloexec) ==
  /\ fd_table_insert(t, ret[t].rax, name, cloexec)
  /\ incr("open", name)
  /\ Done(t)
  /\ UNCHANGED <<sharers, status>>

\* A successful call inserts its descriptor; any call is counted.
OpenReturn(t, name, cloexec) ==
  /\ IF ret[t].rax >= 0 THEN fd_table_insert(t, ret[t].rax, name, cloexec)
                        ELSE UNCHANGED fd_table
  /\ incr("open", name)
  /\ Done(t)
  /\ UNCHANGED <<sharers, status>>

handle_open_return(t) ==
  AtReturn(t, {"open"}) /\ OpenReturn(t, call[t].name, call[t].cloexec)

handle_socket_return(t) ==
  AtReturn(t, {"socket"}) /\ OpenReturn(t, SOCKET, call[t].cloexec)

handle_eventfd_return(t) ==
  /\ AtReturn(t, {"eventfd", "eventfd2"})
  /\ OpenReturn(t, EVENTFD, call[t].sc = "eventfd2" /\ call[t].cloexec)

handle_epollcreate_return(t) ==
  /\ AtReturn(t, {"epoll_create", "epoll_create1"})
  /\ OpenReturn(t, EPOLL, call[t].sc = "epoll_create1" /\ call[t].cloexec)

\* Mutant: the flags of accept are tested, which has none, and not those of
\* accept4.
handle_accept_return_other(t) ==
  /\ AtReturn(t, {"accept", "accept4"})
  /\ OpenReturn(t, ACCEPT, call[t].sc = "accept" /\ call[t].cloexec)

handle_accept_return(t) ==
  /\ AtReturn(t, {"accept", "accept4"})
  /\ OpenReturn(t, ACCEPT, call[t].sc = "accept4" /\ call[t].cloexec)

\* Two descriptors, each inserted under the lock, then both counted; nothing
\* on failure.  One that could not be read is inserted as what the read gave.
PairReturn(t, name1, name2, cloexec) ==
  LET f == ret[t].fds IN
  \/ /\ ret[t].rax = 0 /\ Len(f) = 2
     /\ fd_table_insert(t, f[1], name1, cloexec)
     /\ Returns(t, 0, Tail(f))
     /\ UNCHANGED <<kvars, sharers, stop, call, credit, status>>
  \/ /\ ret[t].rax = 0 /\ Len(f) = 1
     /\ fd_table_insert(t, f[1], name2, cloexec)
     /\ credit' = [k \in Ops \X Name |-> credit[k] + Opens(k, <<name1, name2>>)]
     /\ Done(t)
     /\ UNCHANGED <<sharers, status>>
  \/ /\ ret[t].rax # 0
     /\ Done(t)
     /\ UNCHANGED <<tvars, credit, status>>

handle_pipe_return(t) ==
  /\ AtReturn(t, {"pipe", "pipe2"})
  /\ PairReturn(t, PIPE_R, PIPE_W, call[t].sc = "pipe2" /\ call[t].cloexec)

handle_socketpair_return(t) ==
  AtReturn(t, {"socketpair"}) /\ PairReturn(t, SOCKET, SOCKET, FALSE)

\* Mutant: the entry is removed before its name is looked up.
handle_close_return_swapped(t) ==
  \/ /\ AtReturn(t, {"close"})
     /\ fd_table_remove(t, call[t].fd)
     /\ stop' = [stop EXCEPT ![t] = "removing"]
     /\ UNCHANGED <<kvars, sharers, call, ret, credit, status>>
  \/ /\ stop[t] = "removing"
     /\ incr("close", Named(fd_table[t], call[t].fd))
     /\ Done(t)
     /\ UNCHANGED <<tvars, status>>

\* The close is counted under the lock, the entry removed in a second section.
handle_close_return(t) ==
  \/ /\ AtReturn(t, {"close"})
     /\ incr("close", Named(fd_table[t], call[t].fd))
     /\ stop' = [stop EXCEPT ![t] = "removing"]
     /\ UNCHANGED <<kvars, tvars, call, ret, status>>
  \/ /\ stop[t] = "removing"
     /\ fd_table_remove(t, call[t].fd)
     /\ Done(t)
     /\ UNCHANGED <<sharers, credit, status>>

\* Counted under the name in the table, failed or not.
ReadWriteReturn(t, op) ==
  /\ AtReturn(t, {op})
  /\ incr(op, Named(fd_table[t], call[t].fd))
  /\ Done(t)
  /\ UNCHANGED <<tvars, status>>

handle_read_return(t) == ReadWriteReturn(t, "read")
handle_write_return(t) == ReadWriteReturn(t, "write")

\* What a handler does to the table, if the entry it reads exists; without one
\* it reads through a null pointer.
OnEntry(t, fd, Act) ==
  /\ \/ /\ fd \in DOMAIN fd_table[t]
        /\ Act
        /\ UNCHANGED status
     \/ /\ fd \notin DOMAIN fd_table[t]
        /\ status' = "crashed"
        /\ UNCHANGED fd_table
  /\ Done(t)
  /\ UNCHANGED <<sharers, credit>>

NoTableChange(t) == Done(t) /\ UNCHANGED <<tvars, credit, status>>

\* Mutant: dup2 of a descriptor to itself is not left alone.
handle_dup_return_itself(t) ==
  /\ AtReturn(t, {"dup", "dup2", "dup3"})
  /\ IF call[t].fd >= 0
       THEN OnEntry(t, call[t].fd,
                    fd_table_insert_dup(t, call[t].fd, ret[t].rax, FALSE, FALSE))
       ELSE NoTableChange(t)

\* A failed dup is not told from a successful one; no flags are looked at.
handle_dup_return(t) ==
  /\ AtReturn(t, {"dup", "dup2", "dup3"})
  /\ IF call[t].fd >= 0 /\ call[t].fd # ret[t].rax
       THEN OnEntry(t, call[t].fd,
                    fd_table_insert_dup(t, call[t].fd, ret[t].rax, FALSE, FALSE))
       ELSE NoTableChange(t)

\* RAX is compared with -1, but shows the negated errno of a failed call.
handle_fcntl_return(t) ==
  LET fd == call[t].fd IN
  /\ AtReturn(t, {"dupfd", "dupfd_cloexec", "setfd"})
  /\ IF ret[t].rax # -1
       THEN OnEntry(t, fd, IF call[t].sc = "setfd"
                             THEN fd_table_set_cloexec(t, fd, call[t].cloexec)
                             ELSE fd_table_insert_dup(t, fd, ret[t].rax,
                                    call[t].sc = "dupfd_cloexec", FALSE))
       ELSE NoTableChange(t)

handle_ioctl_return(t) ==
  /\ AtReturn(t, {"gptpeer"})
  /\ OnEntry(t, call[t].fd,
             fd_table_insert_dup(t, call[t].fd, ret[t].rax, FALSE, TRUE))

\* Mutant: the entries marked close-on-exec stay.
handle_execve_return_unswept(t) ==
  /\ AtReturn(t, {"execve"})
  /\ sharers' = [u \in Task |-> IF u = t THEN {t} ELSE sharers[u] \ {t}]
  /\ Done(t)
  /\ UNCHANGED <<fd_table, credit, status>>

\* Mutant: the table is swept without being copied.
handle_execve_return_uncopied(t) ==
  /\ AtReturn(t, {"execve"})
  /\ SetTable(t, WithoutCloexec(fd_table[t]))
  /\ Done(t)
  /\ UNCHANGED <<sharers, credit, status>>

\* A shared table is left for a copy; then the marked entries are removed.
handle_execve_return(t) ==
  /\ AtReturn(t, {"execve"})
  /\ fd_table' = [fd_table EXCEPT ![t] = WithoutCloexec(@)]
  /\ sharers' = [u \in Task |-> IF u = t THEN {t} ELSE sharers[u] \ {t}]
  /\ Done(t)
  /\ UNCHANGED <<credit, status>>

\* Any other syscall leaves the descriptors alone.
handle_unconsidered_return(t) ==
  /\ AtReturn(t, {"untracked", "clone", "fork"})
  /\ NoTableChange(t)

\* Mutant: the flag CLONE_FILES is not looked at.
threads_add_shared(t) ==
  LET u == new_child[t]
      group == sharers[t] \cup {u}
  IN
  /\ stop[t] = "event"
  /\ fd_table' = [fd_table EXCEPT ![u] = fd_table[t]]
  /\ sharers' = [v \in Task |-> IF v \in group THEN group ELSE sharers[v]]
  /\ stop' = [stop EXCEPT ![t] = "return", ![u] = "user"]
  /\ UNCHANGED <<kvars, call, ret, credit, status>>

\* The event of clone or fork: the tracer of the new task gets the table or a
\* copy of it.
threads_add(t) ==
  LET u == new_child[t]
      group == IF call[t].sc = "clone" THEN sharers[t] \cup {u} ELSE {u}
  IN
  /\ stop[t] = "event"
  /\ fd_table' = [fd_table EXCEPT ![u] = fd_table[t]]
  /\ sharers' = [v \in Task |-> IF v \in group THEN group ELSE sharers[v]]
  /\ stop' = [stop EXCEPT ![t] = "return", ![u] = "user"]
  /\ UNCHANGED <<kvars, call, ret, credit, status>>

-----------------------------------------------------------------------------
Kernel(t) ==
  \/ kernel_open(t) \/ kernel_pair(t) \/ kernel_close(t) \/ kernel_read_write(t)
  \/ kernel_dup(t) \/ kernel_setfd(t) \/ kernel_untracked(t) \/ kernel_execve(t)
  \/ \E u \in Task : kernel_clone(t, u)

handle_syscall_return(t) ==
  \/ handle_open_return(t) \/ handle_close_return(t)
  \/ handle_read_return(t) \/ handle_write_return(t)
  \/ handle_pipe_return(t) \/ handle_socket_return(t) \/ handle_socketpair_return(t)
  \/ handle_eventfd_return(t) \/ handle_epollcreate_return(t) \/ handle_accept_return(t)
  \/ handle_dup_return(t) \/ handle_fcntl_return(t) \/ handle_ioctl_return(t)
  \/ handle_execve_return(t) \/ handle_unconsidered_return(t)

Next ==
  /\ status = "running"
  /\ \E t \in Task :
       \/ Kernel(t) /\ Follow(t)
       \/ /\ handle_syscall_call(t) \/ handle_syscall_return(t) \/ threads_add(t)
          /\ UNCHANGED strayed

Spec == Init /\ [][Next]_vars

-----------------------------------------------------------------------------
\* The negative keys a failed dup, fcntl or ioctl and a pair that could not be
\* read may leave in a table.
Phantom == {-EBADF, -1}

IsTable(table, keys) ==
  /\ DOMAIN table \subseteq keys
  /\ \A k \in DOMAIN table : /\ table[k].name \in Seq(Word)
                             /\ table[k].cloexec \in BOOLEAN

\* Every variable keeps its type; a table of iotrace never has a key that no
\* duplication or pair gave it (the test of RAX in the open handlers).
TypeOK ==
  /\ \A t \in Task : IsTable(kernel[t], Fd) /\ IsTable(fd_table[t], Fd \cup Phantom)
  /\ DOMAIN kernel = Task /\ DOMAIN fd_table = Task /\ DOMAIN call = Task /\ DOMAIN ret = Task
  /\ ksharers \in [Task -> SUBSET Task] /\ sharers \in [Task -> SUBSET Task]
  /\ new_child \in [Task -> Task]
  /\ stop \in [Task -> {"unborn", "new", "user", "call", "event", "return", "removing"}]
  /\ \A t \in Task : call[t] \in Registers \cup {NoCall}
  /\ \A t \in Task : ret[t].rax \in Fd \cup {-ENOENT, -EBADF} /\ ret[t].fds \in Seq(Fd \cup {-1})
  /\ credit \in [Ops \X Name -> Int]
  /\ status \in {"running", "crashed"}
  /\ strayed \subseteq Task

\* The kernel has executed nothing of t and its partners that iotrace has not
\* handled.
Handled(t) == \A u \in {t} \cup Partners(t) : stop[u] \in {"user", "call"}

\* Behind every descriptor iotrace sees the name the kernel's table gives it,
\* or none where a syscall it does not consider opened it: under every schedule,
\* for every task whose table no call reached that iotrace cannot follow.
NamesMirrored ==
  \A t \in Task \ strayed : status = "running" /\ Handled(t) =>
    \A f \in Fd : Named(fd_table[t], f) = Named(kernel[t], f)

\* The close-on-exec flags of such tasks agree too, so that execve removes what
\* the kernel closes (fd_table.h:48 and 60: "the value of the cloexec flag").
CloexecMirrored ==
  \A t \in Task \ strayed : status = "running" /\ Handled(t) =>
    \A f \in Fd \cap DOMAIN fd_table[t] :
      f \in DOMAIN kernel[t] /\ fd_table[t][f].cloexec = kernel[t][f].cloexec

\* Every open, close, read and write a task attempts is counted once, for the
\* file it went to (README.md:6), in whatever order descriptors are reused,
\* duplicated or shared.
CreditExact ==
  status = "running" /\ (\A t \in Task : stop[t] \notin Returning) =>
    \A k \in Ops \X Name : credit[k] = 0

\* So it is, under every schedule, until a first call that iotrace cannot follow.
CreditKept == strayed = {} => CreditExact

\* No handler reads the filename or flag of an entry that is not there
\* (fd_table.h:112: "can be NULL if no mapping exists").
EntryFound == status # "crashed"

=============================================================================
