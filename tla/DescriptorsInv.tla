--------------------------- MODULE DescriptorsInv ---------------------------
(***************************************************************************)
(* The inductive invariant of Descriptors: what the registers of a stopped *)
(* task may show, who shares which table, and what each table will be when *)
(* the return that is on its way has been handled.  Who shares what is     *)
(* known of every task; what the tables hold, of those that did not stray. *)
(***************************************************************************)
EXTENDS Descriptors

\* The tasks iotrace follows.
Clean == Task \ strayed

-----------------------------------------------------------------------------
(* Registers.                                                              *)

\* What RAX and the array of a pair show of each call that returned.
Shown(t) ==
  LET sc == call[t].sc  rax == ret[t].rax IN
  /\ sc \in Openers => rax \in Fd \cup {-ENOENT}
  /\ sc \in Dups => rax \in Fd \cup {-EBADF}
  /\ sc \in Pairs /\ rax = 0 => Len(ret[t].fds) \in {1, 2}

Registered ==
  \A t \in Task :
    /\ stop[t] \in {"call", "event"} \cup Returning => call[t] \in Registers
    /\ stop[t] = "event" => call[t].sc \in {"clone", "fork"}
    /\ stop[t] = "removing" => call[t].sc = "close"
    /\ stop[t] = "return" => Shown(t)

\* The files behind the kernel's descriptors.
KernelNames == \A t \in Task : \A f \in DOMAIN kernel[t] : kernel[t][f].name \in Name

-----------------------------------------------------------------------------
(* Groups.                                                                 *)

\* execve took the task out of its group in the kernel, not yet in iotrace.
Leaving(t) == stop[t] = "return" /\ call[t].sc = "execve"

\* A group shares one table.
Shared(group, table) ==
  \A t \in Task : /\ t \in group[t]
                  /\ \A u \in group[t] : group[u] = group[t] /\ table[u] = table[t]

\* A task that has no thread yet.
Unborn ==
  \A t \in Task :
    /\ stop[t] = "unborn" => ksharers[t] = {t} /\ sharers[t] = {t} /\ t \notin strayed
    /\ stop[t] = "new" => /\ sharers[t] = {t}
                          /\ \E c \in Task : stop[c] = "event" /\ new_child[c] = t

\* A new task, as long as its creator is at the event: it has its table, or a
\* copy, and strays with it.
Newborn ==
  \A c \in Task : stop[c] = "event" =>
    LET u == new_child[c] IN
    /\ stop[u] = "new"
    /\ c \in strayed <=> u \in strayed
    /\ c \in Clean => kernel[u] = kernel[c]
    /\ ksharers[u] = IF call[c].sc = "clone" THEN ksharers[c] ELSE {u}
    /\ \A d \in Task \ {c} : stop[d] = "event" => new_child[d] # u

\* Nobody shares a table with a task that strayed and did not stray.
Closed == \A t \in strayed : Partners(t) \subseteq strayed

\* The group of t in iotrace is its group in the kernel, but for tasks that come
\* or go.
SameGroups(t) ==
  /\ \A u \in ksharers[t] : u \in sharers[t] \/ "new" \in {stop[t], stop[u]}
  /\ \A u \in sharers[t] : u \in ksharers[t] \/ Leaving(t) \/ Leaving(u)
  /\ Leaving(t) => ksharers[t] = {t}

\* Two calls on one table are in flight only if both only use it.
OneInFlight(t) ==
  stop[t] \in InFlight =>
    \A u \in Partners(t) : stop[u] \in InFlight => Reading(t) /\ Reading(u)

-----------------------------------------------------------------------------
(* Tables.                                                                 *)

\* A table of iotrace agrees with one of the kernel: it has no entry without a
\* descriptor, lacks one only where no syscall it considers opened it, and has
\* none for the -1 a program may pass.
Mirrors(table, ktable) ==
  /\ \A f \in Fd :
       /\ f \in DOMAIN table => /\ f \in DOMAIN ktable
                                /\ table[f].name = ktable[f].name
                                /\ table[f].cloexec = ktable[f].cloexec
       /\ f \in DOMAIN ktable => f \in DOMAIN table \/ ktable[f].name = NULL
  /\ -1 \notin DOMAIN table

PairNames(t) ==
  IF call[t].sc = "socketpair" THEN <<SOCKET, SOCKET>> ELSE <<PIPE_R, PIPE_W>>

\* The handler would read an entry that is not there.
Missing(t) ==
  /\ call[t].fd \notin DOMAIN fd_table[t]
  /\ call[t].sc \in {"dup", "dup2", "dup3"} => call[t].fd >= 0 /\ call[t].fd # ret[t].rax

\* The flag of the call, as the handlers see it.
SeenCloexec(t) == call[t].cloexec /\ call[t].sc \notin Silent

\* What the table of t will be when its return has been handled is what the
\* kernel's is.
Pending(t) ==
  LET T == fd_table[t]  c == call[t]  rax == ret[t].rax  fds == ret[t].fds
      Becomes(table) == Mirrors(table, kernel[t])
  IN
  /\ c.sc \in Openers =>
       Becomes(IF rax >= 0 THEN Insert(T, rax, Entry(OpenedName(t), c.cloexec)) ELSE T)
  /\ c.sc \in Pairs =>
       /\ rax # 0 => Becomes(T)
       /\ rax = 0 /\ Len(fds) = 2 =>
            Becomes(Insert(Insert(T, fds[1], Entry(PairNames(t)[1], SeenCloexec(t))),
                           fds[2], Entry(PairNames(t)[2], SeenCloexec(t))))
       /\ rax = 0 /\ Len(fds) = 1 =>
            Becomes(Insert(T, fds[1], Entry(PairNames(t)[2], SeenCloexec(t))))
  /\ c.sc = "close" => Becomes(Remove(T, c.fd))
  /\ c.sc \in Dups /\ ~Missing(t) =>
       Becomes(IF c.sc \in {"dup", "dup2", "dup3"} /\ (c.fd < 0 \/ c.fd = rax) THEN T
               ELSE Insert(T, rax, Entry(IF c.sc = "gptpeer" THEN Slave(T[c.fd].name)
                                                             ELSE T[c.fd].name, SeenCloexec(t))))
  /\ c.sc = "setfd" /\ ~Missing(t) => Becomes(Insert(T, c.fd, Entry(T[c.fd].name, c.cloexec)))
  /\ c.sc = "execve" => Becomes(WithoutCloexec(T))
  /\ c.sc \in {"read", "write", "untracked", "clone", "fork"} => Becomes(T)

\* The tables of a task agree if none of its group has a return on its way that
\* will change them.
Settled(t) ==
  /\ stop[t] \in {"user", "call", "event"}
  /\ \A u \in Partners(t) : stop[u] \in Returning => Leaving(u) \/ Reading(u)
  => Mirrors(fd_table[t], kernel[t])

Followed(t) ==
  /\ SameGroups(t) /\ OneInFlight(t)
  /\ stop[t] \in Returning => Pending(t)
  /\ Settled(t)

\* The attempts that iotrace has not counted yet: those of the tasks that return.
Owes(t, i, k) ==
  LET sc == call[t].sc IN
  /\ stop[t] = "return"
  /\ \/ i = 1 /\ sc \in Openers /\ k = <<"open", OpenedName(t)>>
     \/ i = 1 /\ sc \in {"close", "read", "write"} /\ k = <<sc, Named(fd_table[t], call[t].fd)>>
     \/ sc \in Pairs /\ ret[t].rax = 0 /\ k = <<"open", PairNames(t)[i]>>

Owed(k) == {w \in Task \X {1, 2} : Owes(w[1], w[2], k)}

Counted == \A k \in Ops \X Name : credit[k] = -Cardinality(Owed(k))

\* Who shares what, strayed or not.
Grouped ==
  /\ Shared(ksharers, kernel) /\ Shared(sharers, fd_table)
  /\ Unborn /\ Newborn /\ Closed

\* iotrace follows the kernel.
Follows == (\A t \in Clean : Followed(t)) /\ (strayed = {} => Counted)

IInv == /\ TypeOK /\ Registered /\ KernelNames
        /\ status = "running" => Grouped /\ Follows
=============================================================================
