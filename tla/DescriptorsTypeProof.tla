-------------------------- MODULE DescriptorsTypeProof ------------------------
(***************************************************************************)
(* Descriptors for every number of tasks and descriptors, every path and   *)
(* every set of calls.                                                     *)
(***************************************************************************)
EXTENDS DescriptorsInv, TLAPS, FiniteSetTheorems, SequenceTheorems, WellFoundedInduction

-----------------------------------------------------------------------------
(* Descriptors, names and registers.                                       *)

LEMMA Numbers ==
  /\ MaxFd \in Nat /\ MaxFd >= 2 /\ Fd \subseteq Nat /\ 0 \in Fd /\ 1 \in Fd /\ 2 \in Fd
  /\ -EBADF \notin Nat /\ -ENOENT \notin Nat /\ -EBADF \in Int /\ -ENOENT \in Int
  /\ -EBADF # -ENOENT /\ -EBADF # 0 /\ -EBADF # -1
  /\ Phantom = {-EBADF, -1}
  /\ \A f \in FdArg : f \in Fd \/ f = -1
BY DescriptorsAssumption DEF Fd, EBADF, ENOENT, Phantom

\* A set of naturals that is not empty has a least element.
LEMMA LowestFree ==
  ASSUME NEW T, T \subseteq Nat, T # {}
  PROVE  Lowest(T) \in T
<1>1. \E n \in T : \A k \in T : ~ (<<k, n>> \in OpToRel(<, Nat))
  BY NatLessThanWellFounded, WFMin, Zenon
<1>2. PICK n \in T : \A k \in T : ~ (<<k, n>> \in OpToRel(<, Nat))
  BY <1>1
<1>3. ASSUME NEW k \in T
      PROVE  n <= k
  <2>1. <<k, n>> \in Nat \X Nat /\ <<k, n>>[1] = k /\ <<k, n>>[2] = n
    OBVIOUS
  <2>2. ~ (k < n)
    BY <1>2, <1>3, <2>1 DEF OpToRel
  <2> QED  BY <1>3, <2>2, SMT
<1> QED  BY <1>2, <1>3 DEF Lowest

LEMMA OneWord ==
  ASSUME NEW S, NEW p \in S
  PROVE  <<p>> \in Seq(S)
<1>1. <<p>> \in [1 .. 1 -> S]
  OBVIOUS
<1> QED  BY <1>1, SeqDef

LEMMA Names ==
  /\ \A n \in Name : n \in Seq(Word)
  /\ \A n \in Seq(Word) : Slave(n) \in Seq(Word)
  /\ {NULL, STDIN, STDOUT, STDERR, PIPE_R, PIPE_W, SOCKET, EVENTFD, EPOLL, ACCEPT,
      Slave(PTMX)} \subseteq Name
<1>1. \A p \in Word : <<p>> \in Seq(Word)
  BY OneWord
<1>2. /\ NULL \in Seq(Word) /\ STDIN \in Seq(Word) /\ STDOUT \in Seq(Word)
      /\ STDERR \in Seq(Word) /\ PIPE_R \in Seq(Word) /\ PIPE_W \in Seq(Word)
      /\ SOCKET \in Seq(Word) /\ EVENTFD \in Seq(Word) /\ EPOLL \in Seq(Word)
      /\ ACCEPT \in Seq(Word) /\ PTMX \in Seq(Word)
  <2>1. /\ "NULL" \in Word /\ "stdin" \in Word /\ "stdout" \in Word
        /\ "stderr" \in Word /\ "pipe_r" \in Word /\ "pipe_w" \in Word
        /\ "socket" \in Word /\ "eventfd" \in Word /\ "epoll" \in Word
        /\ "accept" \in Word /\ "/dev/ptmx" \in Word
    BY DEF Word
  <2> QED  BY <1>1, <2>1 DEF NULL, STDIN, STDOUT, STDERR, PIPE_R, PIPE_W, SOCKET, EVENTFD,
                             EPOLL, ACCEPT, PTMX
<1>3. \A n \in Seq(Word) : Slave(n) \in Seq(Word)
  <2>1. "slave" \in Word
    BY DEF Word
  <2> QED  BY <2>1, AppendProperties DEF Slave
<1>4. \A p \in Path : <<p>> \in Seq(Word)
  BY <1>1 DEF Word
<1> QED  BY <1>2, <1>3, <1>4 DEF Name

\* What the registers of each call hold.
LEMMA RegistersFlag ==
  ASSUME NEW r \in Registers
  PROVE  r.cloexec \in BOOLEAN
BY DescriptorsAssumption DEF Registers

LEMMA RegistersName ==
  ASSUME NEW r \in Registers, r.sc = "open"
  PROVE  r.name \in Name
BY DEF Registers, WithFlag, WithoutFlag, Name

LEMMA RegistersFd ==
  ASSUME NEW r \in Registers, r.sc \in {"close", "read", "write", "setfd"} \cup Dups
  PROVE  r.fd \in FdArg
BY DEF Registers, WithFlag, WithoutFlag, Dups

LEMMA RegistersNew ==
  ASSUME NEW r \in Registers, r.sc \in {"dup2", "dup3"}
  PROVE  r.new \in Fd
BY DEF Registers, WithFlag, WithoutFlag

\* The flags that are not taken from a register.
LEMMA RegistersFixed ==
  ASSUME NEW r \in Registers
  PROVE  /\ r.sc \in WithoutFlag \cup {"pipe", "dup", "dup2", "dupfd"} => r.cloexec = FALSE
         /\ r.sc = "dupfd_cloexec" => r.cloexec = TRUE
<1>1. r.sc \in WithoutFlag \cup {"pipe", "dup", "dup2", "dupfd"} => r.cloexec = FALSE
  BY DEF Registers, WithFlag, WithoutFlag
<1>2. r.sc = "dupfd_cloexec" => r.cloexec = TRUE
  BY DEF Registers, WithFlag, WithoutFlag
<1> QED  BY <1>1, <1>2

-----------------------------------------------------------------------------
(* Tables and counts.                                                      *)

LEMMA InsertType ==
  ASSUME NEW keys, NEW T, IsTable(T, keys), NEW f \in keys,
         NEW n \in Seq(Word), NEW c \in BOOLEAN
  PROVE  IsTable(Insert(T, f, Entry(n, c)), keys)
BY DEF IsTable, Insert, Entry

LEMMA RemoveType ==
  ASSUME NEW keys, NEW T, IsTable(T, keys), NEW f
  PROVE  IsTable(Remove(T, f), keys)
BY DEF IsTable, Remove

LEMMA SweepType ==
  ASSUME NEW keys, NEW T, IsTable(T, keys)
  PROVE  IsTable(WithoutCloexec(T), keys)
BY DEF IsTable, WithoutCloexec

LEMMA CreditType ==
  ASSUME TypeOK, NEW op, NEW n
  PROVE  /\ [credit EXCEPT ![<<op, n>>] = @ - 1] \in [Ops \X Name -> Int]
         /\ [credit EXCEPT ![<<op, n>>] = @ + 1] \in [Ops \X Name -> Int]
<1>1. credit \in [Ops \X Name -> Int]
  BY DEF TypeOK
<1>2. ASSUME NEW S, NEW f \in [S -> Int], NEW k
      PROVE  [f EXCEPT ![k] = @ - 1] \in [S -> Int] /\ [f EXCEPT ![k] = @ + 1] \in [S -> Int]
  <2>1. [f EXCEPT ![k] = @ - 1] = [x \in S |-> IF x = k THEN f[x] - 1 ELSE f[x]]
    BY <1>2
  <2>2. [f EXCEPT ![k] = @ + 1] = [x \in S |-> IF x = k THEN f[x] + 1 ELSE f[x]]
    BY <1>2
  <2>3. /\ [x \in S |-> IF x = k THEN f[x] - 1 ELSE f[x]] \in [S -> Int]
        /\ [x \in S |-> IF x = k THEN f[x] + 1 ELSE f[x]] \in [S -> Int]
    BY <1>2
  <2> QED  BY <2>1, <2>2, <2>3, Zenon
<1> QED  BY <1>1, <1>2, Zenon

LEMMA OpensType ==
  ASSUME NEW k, NEW names
  PROVE  Opens(k, names) \in Nat
<1>1. IsFiniteSet({1, 2})
  <2>1. IsFiniteSet({1} \cup {2})
    BY FS_Singleton, FS_AddElement, Zenon
  <2>2. {1} \cup {2} = {1, 2}
    OBVIOUS
  <2> QED  BY <2>1, <2>2
<1>2. IsFiniteSet({i \in {1, 2} : names[i] = k[2]})
  BY <1>1, FS_Subset
<1> QED  BY <1>2, FS_CardinalityType DEF Opens

KernelTyped(k) ==
  /\ DOMAIN k = Task
  /\ \A u \in Task : IsTable(k[u], Fd) /\ \A f \in DOMAIN k[u] : k[u][f].name \in Name

TypeInv == TypeOK /\ Registered /\ KernelNames

\* The kernel has executed the call of t; the types of what it returned.
Executed(t) ==
  /\ stop[t] = "call" /\ stop' = [stop EXCEPT ![t] = "return"]
  /\ UNCHANGED <<tvars, call, status>>
  /\ KernelTyped(kernel')
  /\ ksharers' \in [Task -> SUBSET Task] /\ new_child' \in [Task -> Task]
  /\ credit' \in [Ops \X Name -> Int]
  /\ \E rax \in Fd \cup {-ENOENT, -EBADF}, fds \in Seq(Fd \cup {-1}) : Returns(t, rax, fds)

LEMMA TypeExecuted ==
  ASSUME TypeInv, strayed' \subseteq Task, NEW t \in Task, Executed(t), Shown(t)'
  PROVE  TypeInv'
<1>1. PICK rax \in Fd \cup {-ENOENT, -EBADF}, fds \in Seq(Fd \cup {-1}) :
        ret' = [ret EXCEPT ![t] = [rax |-> rax, fds |-> fds]]
  BY DEF Executed, Returns
<1>2. /\ DOMAIN ret' = Task /\ ret'[t] = [rax |-> rax, fds |-> fds]
      /\ \A u \in Task \ {t} : ret'[u] = ret[u]
  BY <1>1 DEF TypeInv, TypeOK
<1>3. /\ stop' \in [Task -> {"unborn", "new", "user", "call", "event", "return", "removing"}]
      /\ stop'[t] = "return" /\ \A u \in Task \ {t} : stop'[u] = stop[u]
  BY DEF TypeInv, TypeOK, Executed
<1>4. \A u \in Task : ret'[u].rax \in Fd \cup {-ENOENT, -EBADF} /\ ret'[u].fds \in Seq(Fd \cup {-1})
  BY <1>2 DEF TypeInv, TypeOK
<1>5. UNCHANGED <<fd_table, sharers, call, status>>
  BY DEF Executed, tvars
<1>6. TypeOK'
  <2>1. \A u \in Task : IsTable(kernel'[u], Fd) /\ IsTable(fd_table'[u], Fd \cup Phantom)
    BY <1>5 DEF Executed, KernelTyped, TypeInv, TypeOK
  <2>2. /\ DOMAIN kernel' = Task /\ DOMAIN fd_table' = Task
        /\ DOMAIN call' = Task /\ DOMAIN ret' = Task
    BY <1>2, <1>5 DEF Executed, KernelTyped, TypeInv, TypeOK
  <2>3. /\ ksharers' \in [Task -> SUBSET Task] /\ sharers' \in [Task -> SUBSET Task]
        /\ new_child' \in [Task -> Task] /\ credit' \in [Ops \X Name -> Int]
        /\ status' \in {"running", "crashed"}
        /\ \A u \in Task : call'[u] \in Registers \cup {NoCall}
    BY <1>5 DEF Executed, TypeInv, TypeOK
  <2> QED  BY <1>3, <1>4, <2>1, <2>2, <2>3 DEF TypeOK
<1>7. Registered'
  <2>1. SUFFICES ASSUME NEW u \in Task
                 PROVE  /\ stop'[u] \in {"call", "event"} \cup Returning => call'[u] \in Registers
                        /\ stop'[u] = "event" => call'[u].sc \in {"clone", "fork"}
                        /\ stop'[u] = "removing" => call'[u].sc = "close"
                        /\ stop'[u] = "return" => Shown(u)'
    BY DEF Registered
  <2>2. CASE u = t
    BY <1>3, <1>5, <2>2 DEF TypeInv, Registered, Executed
  <2>3. CASE u # t
    BY <1>2, <1>3, <1>5, <2>3 DEF TypeInv, Registered, Shown
  <2> QED  BY <2>2, <2>3
<1>8. KernelNames'
  BY DEF Executed, KernelTyped, KernelNames
<1> QED  BY <1>6, <1>7, <1>8 DEF TypeInv

\* The handler of the return of t is done.
Returned(t) ==
  /\ stop[t] \in Returning /\ Done(t)
  /\ DOMAIN fd_table' = Task /\ \A u \in Task : IsTable(fd_table'[u], Fd \cup Phantom)
  /\ sharers' \in [Task -> SUBSET Task]
  /\ credit' \in [Ops \X Name -> Int]
  /\ status' \in {"running", "crashed"}

LEMMA TypeReturned ==
  ASSUME TypeInv, strayed' \subseteq Task, NEW t \in Task, Returned(t)
  PROVE  TypeInv'
<1>1. /\ DOMAIN ret' = Task /\ ret'[t] = NoRet
      /\ \A u \in Task \ {t} : ret'[u] = ret[u]
      /\ DOMAIN call' = Task /\ call'[t] = NoCall
      /\ \A u \in Task \ {t} : call'[u] = call[u]
  BY DEF TypeInv, TypeOK, Returned, Done
<1>2. /\ stop' \in [Task -> {"unborn", "new", "user", "call", "event", "return", "removing"}]
      /\ stop'[t] = "user" /\ \A u \in Task \ {t} : stop'[u] = stop[u]
  BY DEF TypeInv, TypeOK, Returned, Done
<1>3. UNCHANGED <<kernel, ksharers, new_child>>
  BY DEF Returned, Done, kvars
<1>4. \A u \in Task : ret'[u].rax \in Fd \cup {-ENOENT, -EBADF} /\ ret'[u].fds \in Seq(Fd \cup {-1})
  <2>1. 0 \in Fd /\ <<>> \in Seq(Fd \cup {-1})
    BY Numbers
  <2>2. ret'[t].rax = 0 /\ ret'[t].fds = <<>>
    BY <1>1 DEF NoRet
  <2> QED  BY <1>1, <2>1, <2>2 DEF TypeInv, TypeOK
<1>5. TypeOK'
  BY <1>1, <1>2, <1>3, <1>4 DEF Returned, TypeInv, TypeOK
<1>6. Registered'
  BY <1>1, <1>2 DEF TypeInv, Registered, Shown, Returning
<1>7. KernelNames'
  BY <1>3 DEF TypeInv, KernelNames
<1> QED  BY <1>5, <1>6, <1>7 DEF TypeInv

-----------------------------------------------------------------------------
(* The types, action by action: the kernel.                                *)

KernelTable(T) == IsTable(T, Fd) /\ \A f \in DOMAIN T : T[f].name \in Name

LEMMA KernelTables ==
  ASSUME TypeInv, NEW t \in Task
  PROVE  KernelTable(kernel[t])
BY DEF TypeInv, TypeOK, KernelNames, KernelTable

LEMMA KernelInsert ==
  ASSUME NEW T, KernelTable(T), NEW f \in Fd, NEW n \in Name, NEW c \in BOOLEAN
  PROVE  KernelTable(Insert(T, f, Entry(n, c)))
<1>1. IsTable(Insert(T, f, Entry(n, c)), Fd)
  BY InsertType, Names DEF KernelTable
<1>2. \A g \in DOMAIN Insert(T, f, Entry(n, c)) : Insert(T, f, Entry(n, c))[g].name \in Name
  BY DEF KernelTable, Insert, Entry
<1> QED  BY <1>1, <1>2 DEF KernelTable

LEMMA KernelRemove ==
  ASSUME NEW T, KernelTable(T), NEW f
  PROVE  KernelTable(Remove(T, f)) /\ KernelTable(WithoutCloexec(T))
<1>1. IsTable(Remove(T, f), Fd) /\ IsTable(WithoutCloexec(T), Fd)
  BY RemoveType, SweepType DEF KernelTable
<1>2. \A g \in DOMAIN Remove(T, f) : Remove(T, f)[g].name \in Name
  BY DEF KernelTable, Remove
<1>3. \A g \in DOMAIN WithoutCloexec(T) : WithoutCloexec(T)[g].name \in Name
  BY DEF KernelTable, WithoutCloexec
<1> QED  BY <1>1, <1>2, <1>3 DEF KernelTable

\* The kernel's part of the types after a step.
KernelOK ==
  /\ KernelTyped(kernel')
  /\ ksharers' \in [Task -> SUBSET Task] /\ new_child' \in [Task -> Task]

LEMMA KernelSame ==
  ASSUME TypeInv, UNCHANGED kvars
  PROVE  KernelOK
BY DEF TypeInv, TypeOK, KernelNames, KernelOK, KernelTyped, kvars

LEMMA KernelSet ==
  ASSUME TypeInv, NEW t \in Task, NEW T, KernelTable(T), SetKernel(t, T)
  PROVE  KernelOK
BY DEF TypeInv, TypeOK, KernelNames, KernelTable, SetKernel, KernelOK, KernelTyped

LEMMA Failed ==
  ASSUME TypeInv, NEW t \in Task, NEW e \in {ENOENT, EBADF}, Fails(t, e)
  PROVE  KernelOK /\ Returns(t, -e, <<>>) /\ -e \in Fd \cup {-ENOENT, -EBADF}
                  /\ <<>> \in Seq(Fd \cup {-1})
<1>1. KernelOK
  BY KernelSame DEF Fails
<1>2. -e \in Fd \cup {-ENOENT, -EBADF}
  BY DEF Phantom
<1>3. <<>> \in Seq(Fd \cup {-1})
  OBVIOUS
<1> QED  BY <1>1, <1>2, <1>3 DEF Fails

\* What RAX and the array show after Returns.
LEMMA ReturnsShow ==
  ASSUME TypeInv, NEW t \in Task, NEW rax, NEW fds, Returns(t, rax, fds)
  PROVE  /\ ret'[t] = [rax |-> rax, fds |-> fds]
         /\ ret'[t].rax = rax /\ ret'[t].fds = fds
         /\ DOMAIN ret' = Task /\ \A u \in Task \ {t} : ret'[u] = ret[u]
BY DEF TypeInv, TypeOK, Returns

\* The registers of a task that is at its call.
LEMMA AtCall ==
  ASSUME TypeInv, NEW t \in Task, NEW scs, Executes(t, scs)
  PROVE  /\ stop[t] = "call" /\ call[t] \in Registers /\ call[t].sc \in scs
         /\ call' = call /\ stop' = [stop EXCEPT ![t] = "return"]
         /\ UNCHANGED <<tvars, call, status>>
BY DEF TypeInv, Registered, Executes

LEMMA OpenedNameType ==
  ASSUME NEW t, call[t] \in Registers, call[t].sc \in Openers
  PROVE  OpenedName(t) \in Name
<1>1. CASE call[t].sc = "open"
  BY <1>1, RegistersName DEF OpenedName
<1>2. CASE call[t].sc # "open"
  BY <1>2, Names DEF OpenedName, Openers, WithFlag, WithoutFlag
<1> QED  BY <1>1, <1>2

LEMMA FreeFdsType ==
  ASSUME NEW t, FreeFds(t) # {}
  PROVE  Lowest(FreeFds(t)) \in Fd /\ Lowest(FreeFds(t)) \notin DOMAIN kernel[t]
<1>1. FreeFds(t) \subseteq Nat
  BY Numbers DEF FreeFds
<1>2. Lowest(FreeFds(t)) \in FreeFds(t)
  BY <1>1, LowestFree
<1> QED  BY <1>2 DEF FreeFds

LEMMA kernel_open_Type ==
  ASSUME TypeInv, NEW t \in Task, kernel_open(t)
  PROVE  Executed(t) /\ Shown(t)'
<1>1. /\ stop[t] = "call" /\ call[t] \in Registers /\ call[t].sc \in Openers
      /\ call' = call /\ stop' = [stop EXCEPT ![t] = "return"]
      /\ UNCHANGED <<tvars, call, status>>
  BY AtCall DEF kernel_open
<1>2. credit' \in [Ops \X Name -> Int]
  BY CreditType DEF kernel_open, Owe, TypeInv
<1>3. call[t].sc \notin Dups \cup Pairs
  BY <1>1 DEF Openers, WithFlag, WithoutFlag, Dups, Pairs
<1>4. CASE FreeFds(t) # {} /\ Lowest(FreeFds(t)) \in Fd
           /\ SetKernel(t, Insert(kernel[t], Lowest(FreeFds(t)), Entry(OpenedName(t), call[t].cloexec)))
           /\ Returns(t, Lowest(FreeFds(t)), <<>>)
  <2>1. KernelOK
    BY <1>1, <1>4, KernelTables, KernelInsert, KernelSet, OpenedNameType, RegistersFlag
  <2>2. <<>> \in Seq(Fd \cup {-1})
    OBVIOUS
  <2>3. Shown(t)'
    <3>1. ret'[t].rax \in Fd
      BY <1>4, ReturnsShow
    <3> QED  BY <1>1, <1>3, <3>1 DEF Shown
  <2> QED  BY <1>1, <1>2, <1>4, <2>1, <2>2, <2>3 DEF Executed, KernelOK
<1>5. CASE Fails(t, ENOENT)
  <2>1. KernelOK /\ Returns(t, -ENOENT, <<>>) /\ <<>> \in Seq(Fd \cup {-1})
    BY <1>5, Failed
  <2>2. Shown(t)'
    BY <1>1, <1>3, <2>1, ReturnsShow DEF Shown
  <2> QED  BY <1>1, <1>2, <2>1, <2>2 DEF Executed, KernelOK
<1> QED  BY <1>4, <1>5, FreeFdsType DEF kernel_open

LEMMA kernel_pair_Type ==
  ASSUME TypeInv, NEW t \in Task, kernel_pair(t)
  PROVE  Executed(t) /\ Shown(t)'
<1>1. /\ stop[t] = "call" /\ call[t] \in Registers /\ call[t].sc \in Pairs
      /\ call' = call /\ stop' = [stop EXCEPT ![t] = "return"]
      /\ UNCHANGED <<tvars, call, status>>
  <2>1. Executes(t, Pairs)
    BY DEF kernel_pair
  <2> QED  BY <2>1, AtCall
<1>2. call[t].sc \notin Dups \cup Openers
  BY <1>1 DEF Openers, WithFlag, WithoutFlag, Dups, Pairs
<1>3. ASSUME NEW f \in FreeFds(t),
             NEW g, g = Lowest(FreeFds(t) \ {f}),
             NEW names, names = PairNames(t),
             FreeFds(t) # {f},
             SetKernel(t, Insert(Insert(kernel[t], f, Entry(names[1], call[t].cloexec)),
                                 g, Entry(names[2], call[t].cloexec))),
             NEW h \in {g, -1}, Returns(t, 0, <<f, h>>),
             credit' = [k \in Ops \X Name |-> credit[k] - Opens(k, names)]
      PROVE  Executed(t) /\ Shown(t)'
  <2>1. f \in Fd /\ g \in Fd
    <3>1. FreeFds(t) \ {f} \subseteq Nat /\ FreeFds(t) \ {f} # {}
      BY <1>3, Numbers DEF FreeFds
    <3>2. g \in FreeFds(t) \ {f}
      BY <1>3, <3>1, LowestFree
    <3> QED  BY <3>2 DEF FreeFds
  <2>2. names[1] \in Name /\ names[2] \in Name
    BY <1>3, Names DEF PairNames
  <2>3. KernelOK
    <3>1. KernelTable(Insert(kernel[t], f, Entry(names[1], call[t].cloexec)))
      BY <1>1, <2>1, <2>2, KernelTables, KernelInsert, RegistersFlag
    <3>2. KernelTable(Insert(Insert(kernel[t], f, Entry(names[1], call[t].cloexec)),
                             g, Entry(names[2], call[t].cloexec)))
      BY <1>1, <2>1, <2>2, <3>1, KernelInsert, RegistersFlag
    <3> QED  BY <1>3, <3>2, KernelSet
  <2>4. credit' \in [Ops \X Name -> Int]
    <3>1. \A k \in Ops \X Name : credit[k] - Opens(k, names) \in Int
      BY OpensType DEF TypeInv, TypeOK
    <3> QED  BY <1>3, <3>1
  <2>5. Shown(t)'
    <3>1. ret'[t].rax = 0 /\ ret'[t].fds = <<f, h>> /\ Len(<<f, h>>) = 2
      BY <1>3, ReturnsShow
    <3> QED  BY <1>1, <1>2, <3>1 DEF Shown
  <2>6. 0 \in Fd /\ <<f, h>> \in Seq(Fd \cup {-1})
    <3>1. <<f, h>> \in [1 .. 2 -> Fd \cup {-1}]
      BY <1>3, <2>1
    <3> QED  BY <3>1, Numbers, SeqDef
  <2> QED  BY <1>1, <1>3, <2>3, <2>4, <2>5, <2>6 DEF Executed, KernelOK
<1>4. CASE Fails(t, EBADF) /\ OweNothing
  <2>1. KernelOK /\ Returns(t, -EBADF, <<>>) /\ <<>> \in Seq(Fd \cup {-1})
    BY <1>4, Failed
  <2>2. Shown(t)'
    <3>1. ret'[t].rax = -EBADF
      BY <2>1, ReturnsShow
    <3> QED  BY <1>1, <1>2, <3>1, Numbers DEF Shown
  <2>3. credit' \in [Ops \X Name -> Int]
    BY <1>4 DEF OweNothing, TypeInv, TypeOK
  <2> QED  BY <1>1, <2>1, <2>2, <2>3 DEF Executed, KernelOK, Phantom
<1> DEFINE f == Lowest(FreeFds(t))
           g == Lowest(FreeFds(t) \ {f})
           names == PairNames(t)
<1>5. \/ /\ f \in FreeFds(t) /\ FreeFds(t) # {f}
         /\ SetKernel(t, Insert(Insert(kernel[t], f, Entry(names[1], call[t].cloexec)),
                                g, Entry(names[2], call[t].cloexec)))
         /\ Returns(t, 0, <<f, g>>) \/ Returns(t, 0, <<f, -1>>)
         /\ credit' = [k \in Ops \X Name |-> credit[k] - Opens(k, names)]
      \/ Fails(t, EBADF) /\ OweNothing
  BY DEF kernel_pair, PairNames
<1> QED  BY <1>3, <1>4, <1>5

LEMMA kernel_close_Type ==
  ASSUME TypeInv, NEW t \in Task, kernel_close(t)
  PROVE  Executed(t) /\ Shown(t)'
<1>1. /\ stop[t] = "call" /\ call[t] \in Registers /\ call[t].sc = "close"
      /\ call' = call /\ stop' = [stop EXCEPT ![t] = "return"]
      /\ UNCHANGED <<tvars, call, status>>
  BY AtCall DEF kernel_close
<1>2. credit' \in [Ops \X Name -> Int]
  BY CreditType DEF kernel_close, Owe, TypeInv
<1>3. Shown(t)'
  BY <1>1 DEF Shown, Openers, WithFlag, WithoutFlag, Dups, Pairs
<1>4. 0 \in Fd /\ <<>> \in Seq(Fd \cup {-1})
  BY Numbers
<1>5. CASE SetKernel(t, Remove(kernel[t], call[t].fd)) /\ Returns(t, 0, <<>>)
  BY <1>1, <1>2, <1>3, <1>4, <1>5, KernelTables, KernelRemove, KernelSet DEF Executed, KernelOK
<1>6. CASE Fails(t, EBADF)
  BY <1>1, <1>2, <1>3, <1>6, Failed DEF Executed, KernelOK
<1> QED  BY <1>5, <1>6 DEF kernel_close

LEMMA kernel_read_write_Type ==
  ASSUME TypeInv, NEW t \in Task, kernel_read_write(t)
  PROVE  Executed(t) /\ Shown(t)'
<1>1. /\ stop[t] = "call" /\ call[t] \in Registers /\ call[t].sc \in {"read", "write"}
      /\ call' = call /\ stop' = [stop EXCEPT ![t] = "return"]
      /\ UNCHANGED <<tvars, call, status>>
  BY AtCall DEF kernel_read_write
<1>2. credit' \in [Ops \X Name -> Int]
  BY CreditType DEF kernel_read_write, Owe, TypeInv
<1>3. Shown(t)'
  BY <1>1 DEF Shown, Openers, WithFlag, WithoutFlag, Dups, Pairs
<1>4. 0 \in Fd /\ <<>> \in Seq(Fd \cup {-1})
  BY Numbers
<1>5. CASE Returns(t, 0, <<>>) /\ UNCHANGED kvars
  BY <1>1, <1>2, <1>3, <1>4, <1>5, KernelSame DEF Executed, KernelOK
<1>6. CASE Fails(t, EBADF)
  BY <1>1, <1>2, <1>3, <1>6, Failed DEF Executed, KernelOK
<1> QED  BY <1>5, <1>6 DEF kernel_read_write

LEMMA kernel_setfd_Type ==
  ASSUME TypeInv, NEW t \in Task, kernel_setfd(t)
  PROVE  Executed(t) /\ Shown(t)'
<1>1. /\ stop[t] = "call" /\ call[t] \in Registers /\ call[t].sc = "setfd"
      /\ call' = call /\ stop' = [stop EXCEPT ![t] = "return"]
      /\ UNCHANGED <<tvars, call, status>>
  BY AtCall DEF kernel_setfd
<1>2. credit' \in [Ops \X Name -> Int]
  BY DEF kernel_setfd, OweNothing, TypeInv, TypeOK
<1>3. Shown(t)'
  BY <1>1 DEF Shown, Openers, WithFlag, WithoutFlag, Dups, Pairs
<1>4. 0 \in Fd /\ <<>> \in Seq(Fd \cup {-1})
  BY Numbers
<1>5. CASE /\ call[t].fd \in DOMAIN kernel[t]
           /\ SetKernel(t, Insert(kernel[t], call[t].fd,
                                  Entry(kernel[t][call[t].fd].name, call[t].cloexec)))
           /\ Returns(t, 0, <<>>)
  <2>1. KernelTable(kernel[t]) /\ call[t].fd \in Fd /\ kernel[t][call[t].fd].name \in Name
    BY <1>5, KernelTables DEF KernelTable, IsTable
  <2>2. KernelOK
    BY <1>1, <1>5, <2>1, KernelInsert, KernelSet, RegistersFlag
  <2> QED  BY <1>1, <1>2, <1>3, <1>4, <1>5, <2>2 DEF Executed, KernelOK
<1>6. CASE Fails(t, EBADF)
  BY <1>1, <1>2, <1>3, <1>6, Failed DEF Executed, KernelOK
<1> QED  BY <1>5, <1>6 DEF kernel_setfd

LEMMA kernel_untracked_Type ==
  ASSUME TypeInv, NEW t \in Task, kernel_untracked(t)
  PROVE  Executed(t) /\ Shown(t)'
<1>1. /\ stop[t] = "call" /\ call[t] \in Registers /\ call[t].sc = "untracked"
      /\ call' = call /\ stop' = [stop EXCEPT ![t] = "return"]
      /\ UNCHANGED <<tvars, call, status>>
  BY AtCall DEF kernel_untracked
<1>2. credit' \in [Ops \X Name -> Int]
  BY DEF kernel_untracked, OweNothing, TypeInv, TypeOK
<1>3. Shown(t)'
  BY <1>1 DEF Shown, Openers, WithFlag, WithoutFlag, Dups, Pairs
<1>4. Lowest(FreeFds(t)) \in Fd
  BY FreeFdsType DEF kernel_untracked
<1>5. KernelOK
  <2>1. KernelTable(Insert(kernel[t], Lowest(FreeFds(t)), Entry(NULL, FALSE)))
    BY <1>4, KernelTables, KernelInsert, Names
  <2> QED  BY <2>1, KernelSet DEF kernel_untracked
<1>6. <<>> \in Seq(Fd \cup {-1})
  OBVIOUS
<1> QED  BY <1>1, <1>2, <1>3, <1>4, <1>5, <1>6 DEF Executed, KernelOK, kernel_untracked

\* What kernel_dup does, case by case.
DupFails(t) == Fails(t, EBADF)
DupItself(t) ==
  /\ call[t].sc = "dup2" /\ call[t].new = call[t].fd
  /\ Returns(t, call[t].fd, <<>>) /\ UNCHANGED kvars
DupMakes(t, f) ==
  LET k == kernel[t][call[t].fd].name IN
  /\ f \in Fd
  /\ call[t].sc \in {"dup2", "dup3"} => f # call[t].fd
  /\ call[t].sc \notin {"dup2", "dup3"} => f \notin DOMAIN kernel[t]
  /\ call[t].sc = "gptpeer" => k = PTMX
  /\ SetKernel(t, Insert(kernel[t], f, Entry(IF call[t].sc = "gptpeer" THEN Slave(k) ELSE k,
                                             call[t].cloexec)))
  /\ Returns(t, f, <<>>)

LEMMA DupCases ==
  ASSUME TypeInv, NEW t \in Task, kernel_dup(t)
  PROVE  \/ DupFails(t)
         \/ call[t].fd \in DOMAIN kernel[t] /\ DupItself(t)
         \/ call[t].fd \in DOMAIN kernel[t] /\ \E f : DupMakes(t, f)
<1>1. Executes(t, Dups)
  BY DEF kernel_dup
<1>2. call[t] \in Registers /\ call[t].sc \in Dups
  BY <1>1, AtCall
<1> DEFINE c == call[t]
           named == c.sc \in {"dup2", "dup3"}
           k == kernel[t][c.fd].name
           f == IF named THEN c.new ELSE Lowest(FreeFds(t))
<1>3. \/ Fails(t, EBADF)
      \/ /\ c.fd \in DOMAIN kernel[t] /\ named /\ c.new = c.fd
         /\ c.sc = "dup2" /\ Returns(t, c.fd, <<>>) /\ UNCHANGED kvars
      \/ /\ c.fd \in DOMAIN kernel[t]
         /\ c.sc = "gptpeer" => k = PTMX
         /\ IF named THEN c.new # c.fd ELSE FreeFds(t) # {}
         /\ SetKernel(t, Insert(kernel[t], f,
                                Entry(IF c.sc = "gptpeer" THEN Slave(k) ELSE k, c.cloexec)))
         /\ Returns(t, f, <<>>)
  BY DEF kernel_dup
<1>4. CASE Fails(t, EBADF)
  BY <1>4 DEF DupFails
<1>5. CASE /\ c.fd \in DOMAIN kernel[t] /\ named /\ c.new = c.fd
           /\ c.sc = "dup2" /\ Returns(t, c.fd, <<>>) /\ UNCHANGED kvars
  BY <1>5 DEF DupItself
<1>6. CASE /\ c.fd \in DOMAIN kernel[t]
           /\ c.sc = "gptpeer" => k = PTMX
           /\ IF named THEN c.new # c.fd ELSE FreeFds(t) # {}
           /\ SetKernel(t, Insert(kernel[t], f,
                                  Entry(IF c.sc = "gptpeer" THEN Slave(k) ELSE k, c.cloexec)))
           /\ Returns(t, f, <<>>)
  <2>1. f \in Fd /\ (named => f # c.fd) /\ (~named => f \notin DOMAIN kernel[t])
    BY <1>2, <1>6, RegistersNew, FreeFdsType
  <2>2. DupMakes(t, f)
    BY <1>6, <2>1 DEF DupMakes
  <2> QED  BY <1>6, <2>2
<1> QED  BY <1>3, <1>4, <1>5, <1>6

LEMMA kernel_dup_Type ==
  ASSUME TypeInv, NEW t \in Task, kernel_dup(t)
  PROVE  Executed(t) /\ Shown(t)'
<1>1. Executes(t, Dups) /\ OweNothing
  BY DEF kernel_dup
<1>2. /\ stop[t] = "call" /\ call[t] \in Registers /\ call[t].sc \in Dups
      /\ call' = call /\ stop' = [stop EXCEPT ![t] = "return"]
      /\ UNCHANGED <<tvars, call, status>>
  BY <1>1, AtCall
<1>3. credit' \in [Ops \X Name -> Int]
  BY <1>1 DEF OweNothing, TypeInv, TypeOK
<1>4. call[t].sc \notin Openers \cup Pairs
  BY <1>2 DEF Openers, WithFlag, WithoutFlag, Dups, Pairs
<1>5. <<>> \in Seq(Fd \cup {-1})
  OBVIOUS
<1>6. ASSUME NEW rax \in Fd \cup {-EBADF}, Returns(t, rax, <<>>), KernelOK
      PROVE  Executed(t) /\ Shown(t)'
  <2>1. ret'[t].rax = rax
    BY <1>6, ReturnsShow
  <2>2. Shown(t)'
    BY <1>2, <1>4, <2>1 DEF Shown
  <2> QED  BY <1>2, <1>3, <1>5, <1>6, <2>2 DEF Executed, KernelOK, Phantom
<1>7. CASE DupFails(t)
  <2>1. KernelOK /\ Returns(t, -EBADF, <<>>)
    BY <1>7, Failed DEF DupFails
  <2> QED  BY <1>6, <2>1
<1>8. CASE call[t].fd \in DOMAIN kernel[t] /\ DupItself(t)
  <2>1. call[t].fd \in Fd
    BY <1>8 DEF TypeInv, TypeOK, IsTable
  <2> QED  BY <1>6, <1>8, <2>1, KernelSame DEF DupItself
<1>9. ASSUME call[t].fd \in DOMAIN kernel[t], NEW f, DupMakes(t, f)
      PROVE  Executed(t) /\ Shown(t)'
  <2> DEFINE k == kernel[t][call[t].fd].name
             n == IF call[t].sc = "gptpeer" THEN Slave(k) ELSE k
  <2>1. n \in Name
    BY <1>9, Names DEF TypeInv, KernelNames, DupMakes
  <2>2. f \in Fd /\ SetKernel(t, Insert(kernel[t], f, Entry(n, call[t].cloexec)))
        /\ Returns(t, f, <<>>)
    BY <1>9 DEF DupMakes
  <2> HIDE DEF n
  <2>3. KernelOK
    <3>1. KernelTable(Insert(kernel[t], f, Entry(n, call[t].cloexec)))
      BY <1>2, <2>1, <2>2, KernelTables, KernelInsert, RegistersFlag
    <3> QED  BY <2>2, <3>1, KernelSet
  <2> QED  BY <1>6, <2>2, <2>3
<1> QED  BY <1>7, <1>8, <1>9, DupCases

LEMMA kernel_execve_Type ==
  ASSUME TypeInv, NEW t \in Task, kernel_execve(t)
  PROVE  Executed(t) /\ Shown(t)'
<1>1. Executes(t, {"execve"}) /\ OweNothing
  BY DEF kernel_execve
<1>2. /\ stop[t] = "call" /\ call[t] \in Registers /\ call[t].sc = "execve"
      /\ call' = call /\ stop' = [stop EXCEPT ![t] = "return"]
      /\ UNCHANGED <<tvars, call, status>>
  BY <1>1, AtCall
<1>3. credit' \in [Ops \X Name -> Int]
  BY <1>1 DEF OweNothing, TypeInv, TypeOK
<1>4. Shown(t)'
  BY <1>2 DEF Shown, Openers, WithFlag, WithoutFlag, Dups, Pairs
<1>5. 0 \in Fd /\ <<>> \in Seq(Fd \cup {-1})
  BY Numbers
<1>6. CASE /\ kernel' = [kernel EXCEPT ![t] = WithoutCloexec(@)]
           /\ ksharers' = [u \in Task |-> IF u = t THEN {t} ELSE ksharers[u] \ {t}]
           /\ UNCHANGED new_child
           /\ Returns(t, 0, <<>>)
  <2>1. KernelTable(WithoutCloexec(kernel[t]))
    BY KernelTables, KernelRemove
  <2>2. KernelTyped(kernel')
    BY <1>6, <2>1 DEF TypeInv, TypeOK, KernelNames, KernelTable, KernelTyped
  <2>3. ksharers' \in [Task -> SUBSET Task] /\ new_child' \in [Task -> Task]
    BY <1>6 DEF TypeInv, TypeOK
  <2> QED  BY <1>2, <1>3, <1>4, <1>5, <1>6, <2>2, <2>3 DEF Executed
<1>7. CASE Fails(t, ENOENT)
  BY <1>2, <1>3, <1>4, <1>7, Failed DEF Executed, KernelOK
<1> QED  BY <1>6, <1>7 DEF kernel_execve

LEMMA kernel_clone_Type ==
  ASSUME TypeInv, strayed' \subseteq Task, NEW t \in Task, NEW u \in Task, kernel_clone(t, u)
  PROVE  TypeInv'
<1>1. /\ stop[t] = "call" /\ call[t].sc \in {"clone", "fork"} /\ stop[u] = "unborn"
      /\ kernel' = [kernel EXCEPT ![u] = kernel[t]]
      /\ new_child' = [new_child EXCEPT ![t] = u]
      /\ stop' = [stop EXCEPT ![t] = "event", ![u] = "new"]
      /\ UNCHANGED <<fd_table, sharers, call, ret, credit, status>>
  BY DEF kernel_clone, tvars
<1>2. ksharers' \in [Task -> SUBSET Task]
  BY DEF kernel_clone, TypeInv, TypeOK
<1>3. TypeOK'
  BY <1>1, <1>2 DEF TypeInv, TypeOK
<1>4. Registered'
  BY <1>1 DEF TypeInv, TypeOK, Registered, Shown, Returning
<1>5. KernelNames'
  BY <1>1 DEF TypeInv, TypeOK, KernelNames
<1> QED  BY <1>3, <1>4, <1>5 DEF TypeInv

LEMMA threads_add_Type ==
  ASSUME TypeInv, strayed' \subseteq Task, NEW t \in Task, threads_add(t)
  PROVE  TypeInv'
<1> DEFINE u == new_child[t]
<1>1. /\ stop[t] = "event" /\ u \in Task
      /\ fd_table' = [fd_table EXCEPT ![u] = fd_table[t]]
      /\ stop' = [stop EXCEPT ![t] = "return", ![u] = "user"]
      /\ UNCHANGED <<kernel, ksharers, new_child, call, ret, credit, status>>
  BY DEF threads_add, kvars, TypeInv, TypeOK
<1>2. sharers' \in [Task -> SUBSET Task]
  BY DEF threads_add, TypeInv, TypeOK
<1> HIDE DEF u
<1>3. TypeOK'
  BY <1>1, <1>2 DEF TypeInv, TypeOK
<1>4. Registered'
  <2>1. call[t].sc \in {"clone", "fork"} /\ call[t] \in Registers
    BY <1>1 DEF TypeInv, Registered
  <2>2. call[t].sc \notin Openers \cup Dups \cup Pairs
    BY <2>1 DEF Openers, WithFlag, WithoutFlag, Dups, Pairs
  <2> QED  BY <1>1, <2>1, <2>2 DEF TypeInv, TypeOK, Registered, Shown, Returning
<1>5. KernelNames'
  BY <1>1 DEF TypeInv, KernelNames
<1> QED  BY <1>3, <1>4, <1>5 DEF TypeInv

LEMMA handle_syscall_call_Type ==
  ASSUME TypeInv, strayed' \subseteq Task, NEW t \in Task, handle_syscall_call(t)
  PROVE  TypeInv'
<1>1. PICK r \in Registers : call' = [call EXCEPT ![t] = r]
  BY DEF handle_syscall_call
<1>2. /\ stop[t] = "user" /\ stop' = [stop EXCEPT ![t] = "call"]
      /\ UNCHANGED <<kernel, ksharers, new_child, fd_table, sharers, ret, credit, status>>
  BY DEF handle_syscall_call, kvars, tvars
<1>3. TypeOK'
  BY <1>1, <1>2 DEF TypeInv, TypeOK
<1>4. Registered'
  BY <1>1, <1>2 DEF TypeInv, TypeOK, Registered, Shown, Returning
<1>5. KernelNames'
  BY <1>2 DEF TypeInv, KernelNames
<1> QED  BY <1>3, <1>4, <1>5 DEF TypeInv

-----------------------------------------------------------------------------
(* The types, action by action: the handlers.                              *)

\* The part of the types that is about the tables of iotrace, after a step.
TablesOK == DOMAIN fd_table' = Task /\ \A u \in Task : IsTable(fd_table'[u], Fd \cup Phantom)

LEMMA TablesSame ==
  ASSUME TypeInv, UNCHANGED fd_table
  PROVE  TablesOK
BY DEF TypeInv, TypeOK, TablesOK

LEMMA TableSet ==
  ASSUME TypeInv, NEW t \in Task, NEW T, IsTable(T, Fd \cup Phantom), SetTable(t, T)
  PROVE  TablesOK
BY DEF TypeInv, TypeOK, SetTable, TablesOK

LEMMA TableInserted ==
  ASSUME TypeInv, NEW t \in Task, NEW f \in Fd \cup Phantom, NEW n \in Seq(Word),
         NEW c \in BOOLEAN, fd_table_insert(t, f, n, c)
  PROVE  TablesOK
<1>1. IsTable(fd_table[t], Fd \cup Phantom)
  BY DEF TypeInv, TypeOK
<1>2. IsTable(Insert(fd_table[t], f, Entry(n, c)), Fd \cup Phantom)
  BY <1>1, InsertType
<1> QED  BY <1>2, TableSet DEF fd_table_insert

LEMMA OpenReturn_Type ==
  ASSUME TypeInv, NEW t \in Task, stop[t] = "return", call[t] \in Registers,
         call[t].sc \in Openers,
         NEW n \in Name, NEW c \in BOOLEAN, OpenReturn(t, n, c)
  PROVE  Returned(t)
<1>1. TablesOK
  <2>1. CASE ret[t].rax >= 0
    <3>1. ret[t].rax \in Fd \cup {-ENOENT}
      BY DEF TypeInv, Registered, Shown
    <3>2. ret[t].rax \in Fd
      BY <2>1, <3>1 DEF ENOENT
    <3>3. fd_table_insert(t, ret[t].rax, n, c)
      BY <2>1 DEF OpenReturn
    <3> QED  BY <3>2, <3>3, Names, TableInserted
  <2>2. CASE ~ (ret[t].rax >= 0)
    BY <2>2, TablesSame DEF OpenReturn
  <2> QED  BY <2>1, <2>2
<1>2. credit' \in [Ops \X Name -> Int]
  BY CreditType DEF OpenReturn, incr, TypeInv
<1>3. sharers' \in [Task -> SUBSET Task] /\ status' \in {"running", "crashed"}
  BY DEF OpenReturn, TypeInv, TypeOK
<1> QED  BY <1>1, <1>2, <1>3 DEF Returned, TablesOK, OpenReturn, Returning

\* The name and the flag with which each handler of an open is run.
Opening(t) ==
  \/ handle_open_return(t) \/ handle_socket_return(t) \/ handle_eventfd_return(t)
  \/ handle_epollcreate_return(t) \/ handle_accept_return(t)

LEMMA OpeningReturns ==
  ASSUME TypeInv, NEW t \in Task, Opening(t)
  PROVE  /\ stop[t] = "return" /\ call[t] \in Registers /\ call[t].sc \in Openers
         /\ OpenReturn(t, OpenedName(t), call[t].cloexec)
<1>1. ASSUME NEW scs, scs \subseteq Openers, AtReturn(t, scs)
      PROVE  /\ stop[t] = "return" /\ call[t] \in Registers /\ call[t].sc \in scs
             /\ call[t].sc \in Openers
             /\ call[t].sc \in WithoutFlag => call[t].cloexec = FALSE
             /\ call[t].cloexec \in BOOLEAN
  BY <1>1, RegistersFixed, RegistersFlag DEF AtReturn, TypeInv, Registered, Returning
<1>2. CASE handle_open_return(t)
  <2>1. AtReturn(t, {"open"}) /\ OpenReturn(t, call[t].name, call[t].cloexec)
    BY <1>2 DEF handle_open_return
  <2>2. {"open"} \subseteq Openers
    BY DEF Openers
  <2>3. OpenedName(t) = call[t].name
    BY <2>1 DEF OpenedName, AtReturn
  <2> QED  BY <1>1, <2>1, <2>2, <2>3
<1>3. CASE handle_socket_return(t)
  <2>1. AtReturn(t, {"socket"}) /\ OpenReturn(t, SOCKET, call[t].cloexec)
    BY <1>3 DEF handle_socket_return
  <2>2. {"socket"} \subseteq Openers
    BY DEF Openers, WithFlag
  <2>3. OpenedName(t) = SOCKET
    BY <2>1 DEF OpenedName, AtReturn
  <2> QED  BY <1>1, <2>1, <2>2, <2>3
<1>4. CASE handle_eventfd_return(t)
  <2>1. /\ AtReturn(t, {"eventfd", "eventfd2"})
        /\ OpenReturn(t, EVENTFD, call[t].sc = "eventfd2" /\ call[t].cloexec)
    BY <1>4 DEF handle_eventfd_return
  <2>2. /\ stop[t] = "return" /\ call[t] \in Registers /\ call[t].sc \in {"eventfd", "eventfd2"}
        /\ call[t].sc \in Openers /\ call[t].cloexec \in BOOLEAN
        /\ call[t].sc = "eventfd" => call[t].cloexec = FALSE
    BY <1>1, <2>1 DEF Openers, WithFlag, WithoutFlag
  <2>3. (call[t].sc = "eventfd2" /\ call[t].cloexec) = call[t].cloexec
    BY <2>2
  <2>4. OpenedName(t) = EVENTFD
    BY <2>2 DEF OpenedName
  <2> QED  BY <2>1, <2>2, <2>3, <2>4
<1>5. CASE handle_epollcreate_return(t)
  <2>1. /\ AtReturn(t, {"epoll_create", "epoll_create1"})
        /\ OpenReturn(t, EPOLL, call[t].sc = "epoll_create1" /\ call[t].cloexec)
    BY <1>5 DEF handle_epollcreate_return
  <2>2. /\ stop[t] = "return" /\ call[t] \in Registers
        /\ call[t].sc \in {"epoll_create", "epoll_create1"}
        /\ call[t].sc \in Openers /\ call[t].cloexec \in BOOLEAN
        /\ call[t].sc = "epoll_create" => call[t].cloexec = FALSE
    BY <1>1, <2>1 DEF Openers, WithFlag, WithoutFlag
  <2>3. (call[t].sc = "epoll_create1" /\ call[t].cloexec) = call[t].cloexec
    BY <2>2
  <2>4. OpenedName(t) = EPOLL
    BY <2>2 DEF OpenedName
  <2> QED  BY <2>1, <2>2, <2>3, <2>4
<1>6. CASE handle_accept_return(t)
  <2>1. /\ AtReturn(t, {"accept", "accept4"})
        /\ OpenReturn(t, ACCEPT, call[t].sc = "accept4" /\ call[t].cloexec)
    BY <1>6 DEF handle_accept_return
  <2>2. /\ stop[t] = "return" /\ call[t] \in Registers /\ call[t].sc \in {"accept", "accept4"}
        /\ call[t].sc \in Openers /\ call[t].cloexec \in BOOLEAN
        /\ call[t].sc = "accept" => call[t].cloexec = FALSE
    BY <1>1, <2>1 DEF Openers, WithFlag, WithoutFlag
  <2>3. (call[t].sc = "accept4" /\ call[t].cloexec) = call[t].cloexec
    BY <2>2
  <2>4. OpenedName(t) = ACCEPT
    BY <2>2 DEF OpenedName
  <2> QED  BY <2>1, <2>2, <2>3, <2>4
<1> QED  BY <1>2, <1>3, <1>4, <1>5, <1>6 DEF Opening

LEMMA Opening_Type ==
  ASSUME TypeInv, NEW t \in Task, Opening(t)
  PROVE  Returned(t)
BY OpeningReturns, OpenReturn_Type, OpenedNameType, RegistersFlag

\* The handlers of the pairs, with the flag of the call.
Pairing(t) == handle_pipe_return(t) \/ handle_socketpair_return(t)

LEMMA PairingReturns ==
  ASSUME TypeInv, NEW t \in Task, Pairing(t)
  PROVE  /\ stop[t] = "return" /\ call[t] \in Registers /\ call[t].sc \in Pairs
         /\ \E c \in BOOLEAN : /\ c = SeenCloexec(t)
                               /\ PairReturn(t, PairNames(t)[1], PairNames(t)[2], c)
<1>1. ASSUME stop[t] = "return", call[t].sc \in Pairs
      PROVE  /\ call[t] \in Registers /\ call[t].cloexec \in BOOLEAN
             /\ call[t].sc = "pipe" => call[t].cloexec = FALSE
  BY <1>1, RegistersFixed, RegistersFlag DEF TypeInv, Registered, Returning
<1>2. CASE handle_pipe_return(t)
  <2> DEFINE c == call[t].sc = "pipe2" /\ call[t].cloexec
  <2>1. stop[t] = "return" /\ call[t].sc \in {"pipe", "pipe2"} /\ PairReturn(t, PIPE_R, PIPE_W, c)
    BY <1>2 DEF handle_pipe_return, AtReturn
  <2>2. call[t].sc \in Pairs
    BY <2>1 DEF Pairs
  <2>3. c \in BOOLEAN /\ c = SeenCloexec(t)
    BY <1>1, <2>1, <2>2 DEF SeenCloexec, Silent
  <2>4. PairNames(t)[1] = PIPE_R /\ PairNames(t)[2] = PIPE_W
    BY <2>1 DEF PairNames
  <2> QED  BY <1>1, <2>1, <2>2, <2>3, <2>4
<1>3. CASE handle_socketpair_return(t)
  <2>1. stop[t] = "return" /\ call[t].sc = "socketpair" /\ PairReturn(t, SOCKET, SOCKET, FALSE)
    BY <1>3 DEF handle_socketpair_return, AtReturn
  <2>2. call[t].sc \in Pairs
    BY <2>1 DEF Pairs
  <2>3. PairNames(t)[1] = SOCKET /\ PairNames(t)[2] = SOCKET
    BY <2>1 DEF PairNames
  <2>4. FALSE = SeenCloexec(t)
    BY <2>1 DEF SeenCloexec, Silent
  <2> QED  BY <1>1, <2>1, <2>2, <2>3, <2>4
<1> QED  BY <1>2, <1>3 DEF Pairing

\* Where a handler has two sections, the types between them.
LEMMA BetweenSections ==
  ASSUME TypeInv, strayed' \subseteq Task, NEW t \in Task, stop[t] = "return",
         NEW s \in Returning, stop' = [stop EXCEPT ![t] = s],
         s = "removing" => call[t].sc = "close",
         UNCHANGED <<kvars, sharers, call, status>>, TablesOK,
         credit' \in [Ops \X Name -> Int],
         DOMAIN ret' = Task, \A u \in Task \ {t} : ret'[u] = ret[u],
         ret'[t].rax = ret[t].rax, ret'[t].fds \in Seq(Fd \cup {-1}),
         call[t].sc \in Pairs /\ ret'[t].rax = 0 => Len(ret'[t].fds) \in {1, 2}
  PROVE  TypeInv'
<1>1. /\ stop' \in [Task -> {"unborn", "new", "user", "call", "event", "return", "removing"}]
      /\ stop'[t] = s /\ \A u \in Task \ {t} : stop'[u] = stop[u]
  BY DEF TypeInv, TypeOK, Returning
<1>2. UNCHANGED <<kernel, ksharers, new_child, sharers, call, status>>
  BY DEF kvars
<1>3. \A u \in Task : ret'[u].rax \in Fd \cup {-ENOENT, -EBADF} /\ ret'[u].fds \in Seq(Fd \cup {-1})
  BY DEF TypeInv, TypeOK
<1>4. TypeOK'
  BY <1>1, <1>2, <1>3 DEF TypeInv, TypeOK, TablesOK
<1>5. Registered'
  <2>1. SUFFICES ASSUME NEW u \in Task
                 PROVE  /\ stop'[u] \in {"call", "event"} \cup Returning => call'[u] \in Registers
                        /\ stop'[u] = "event" => call'[u].sc \in {"clone", "fork"}
                        /\ stop'[u] = "removing" => call'[u].sc = "close"
                        /\ stop'[u] = "return" => Shown(u)'
    BY DEF Registered
  <2>2. CASE u = t
    <3>1. call[t] \in Registers /\ Shown(t)
      BY DEF TypeInv, Registered, Returning
    <3>2. Shown(t)'
      BY <1>2, <3>1 DEF Shown
    <3>3. s # "event"
      BY DEF Returning
    <3> QED  BY <1>1, <1>2, <2>2, <3>1, <3>2, <3>3
  <2>3. CASE u # t
    BY <1>1, <1>2, <2>3 DEF TypeInv, Registered, Shown
  <2> QED  BY <2>2, <2>3
<1>6. KernelNames'
  BY <1>2 DEF TypeInv, KernelNames
<1> QED  BY <1>4, <1>5, <1>6 DEF TypeInv

\* The entries of the array of a pair.
LEMMA PairFds ==
  ASSUME TypeInv, NEW t \in Task, Len(ret[t].fds) \in {1, 2}
  PROVE  /\ ret[t].fds[1] \in Fd \cup Phantom
         /\ Len(ret[t].fds) = 2 => ret[t].fds[2] \in Fd \cup Phantom
         /\ Len(ret[t].fds) = 2 => /\ Tail(ret[t].fds) \in Seq(Fd \cup {-1})
                                   /\ Len(Tail(ret[t].fds)) = 1
                                   /\ Tail(ret[t].fds)[1] = ret[t].fds[2]
<1>1. ret[t].fds \in Seq(Fd \cup {-1})
  BY DEF TypeInv, TypeOK
<1> QED  BY <1>1, Numbers

LEMMA PairReturn_Type ==
  ASSUME TypeInv, strayed' \subseteq Task, NEW t \in Task, stop[t] = "return", call[t].sc \in Pairs,
         NEW c \in BOOLEAN, PairReturn(t, PairNames(t)[1], PairNames(t)[2], c)
  PROVE  TypeInv'
<1> DEFINE f == ret[t].fds
           n1 == PairNames(t)[1]
           n2 == PairNames(t)[2]
<1>1. n1 \in Seq(Word) /\ n2 \in Seq(Word)
  BY Names DEF PairNames
<1> HIDE DEF n1, n2
<1>2. CASE /\ ret[t].rax = 0 /\ Len(f) = 2
           /\ fd_table_insert(t, f[1], n1, c)
           /\ Returns(t, 0, Tail(f))
           /\ UNCHANGED <<kvars, sharers, stop, call, credit, status>>
  <2>1. TablesOK
    BY <1>1, <1>2, PairFds, TableInserted
  <2>2. ret'[t].rax = 0 /\ ret'[t].fds = Tail(f) /\ DOMAIN ret' = Task
        /\ \A u \in Task \ {t} : ret'[u] = ret[u]
    <3>1. Returns(t, 0, Tail(f))
      BY <1>2
    <3> HIDE DEF f
    <3> QED  BY <3>1, ReturnsShow, Zenon
  <2>3. Tail(f) \in Seq(Fd \cup {-1}) /\ Len(Tail(f)) = 1
    BY <1>2, PairFds
  <2>4. stop' = [stop EXCEPT ![t] = "return"]
    BY <1>2 DEF TypeInv, TypeOK
  <2>5. credit' \in [Ops \X Name -> Int]
    BY <1>2 DEF TypeInv, TypeOK
  <2>6. "return" \in Returning
    BY DEF Returning
  <2> QED  BY <1>2, <2>1, <2>2, <2>3, <2>4, <2>5, <2>6, BetweenSections
<1>3. CASE /\ ret[t].rax = 0 /\ Len(f) = 1
           /\ fd_table_insert(t, f[1], n2, c)
           /\ credit' = [k \in Ops \X Name |-> credit[k] + Opens(k, <<n1, n2>>)]
           /\ Done(t)
           /\ UNCHANGED <<sharers, status>>
  <2>1. TablesOK
    BY <1>1, <1>3, PairFds, TableInserted
  <2>2. credit' \in [Ops \X Name -> Int]
    <3>1. \A k \in Ops \X Name : credit[k] + Opens(k, <<n1, n2>>) \in Int
      BY OpensType DEF TypeInv, TypeOK
    <3> QED  BY <1>3, <3>1
  <2> QED  BY <1>3, <2>1, <2>2, TypeReturned DEF Returned, TablesOK, Returning, TypeInv, TypeOK
<1>4. CASE ret[t].rax # 0 /\ Done(t) /\ UNCHANGED <<tvars, credit, status>>
  BY <1>4, TypeReturned, TablesSame DEF Returned, TablesOK, Returning, TypeInv, TypeOK, tvars
<1> QED  BY <1>2, <1>3, <1>4 DEF PairReturn, n1, n2

LEMMA close_return_Type ==
  ASSUME TypeInv, strayed' \subseteq Task, NEW t \in Task, handle_close_return(t)
  PROVE  TypeInv'
<1>1. CASE /\ AtReturn(t, {"close"})
           /\ incr("close", Named(fd_table[t], call[t].fd))
           /\ stop' = [stop EXCEPT ![t] = "removing"]
           /\ UNCHANGED <<kvars, tvars, call, ret, status>>
  <2>1. credit' \in [Ops \X Name -> Int]
    BY <1>1, CreditType DEF incr, TypeInv
  <2>2. TablesOK
    BY <1>1, TablesSame DEF tvars
  <2>3. DOMAIN ret' = Task /\ ret'[t].fds \in Seq(Fd \cup {-1})
    BY <1>1 DEF TypeInv, TypeOK
  <2>4. stop[t] = "return" /\ call[t].sc = "close" /\ "removing" \in Returning
    BY <1>1 DEF AtReturn, Returning
  <2>5. call[t].sc \notin Pairs
    BY <2>4 DEF Pairs
  <2>6. ret' = ret /\ UNCHANGED <<kvars, sharers, call, status>>
    BY <1>1 DEF tvars
  <2> QED  BY <1>1, <2>1, <2>2, <2>3, <2>4, <2>5, <2>6, BetweenSections
<1>2. CASE /\ stop[t] = "removing"
           /\ fd_table_remove(t, call[t].fd)
           /\ Done(t)
           /\ UNCHANGED <<sharers, credit, status>>
  <2>1. IsTable(Remove(fd_table[t], call[t].fd), Fd \cup Phantom)
    BY RemoveType DEF TypeInv, TypeOK
  <2>2. TablesOK
    BY <1>2, <2>1, TableSet DEF fd_table_remove
  <2> QED  BY <1>2, <2>2, TypeReturned DEF Returned, TablesOK, Returning, TypeInv, TypeOK
<1> QED  BY <1>1, <1>2 DEF handle_close_return

\* The handlers of a read or write.
Using(t) == handle_read_return(t) \/ handle_write_return(t)

LEMMA UsingReturns ==
  ASSUME TypeInv, NEW t \in Task, Using(t)
  PROVE  /\ stop[t] = "return" /\ call[t] \in Registers /\ call[t].sc \in {"read", "write"}
         /\ incr(call[t].sc, Named(fd_table[t], call[t].fd))
         /\ Done(t) /\ UNCHANGED <<tvars, status>>
<1>1. stop[t] = "return" => call[t] \in Registers
  BY DEF TypeInv, Registered, Returning
<1>2. CASE handle_read_return(t)
  BY <1>1, <1>2 DEF handle_read_return, ReadWriteReturn, AtReturn
<1>3. CASE handle_write_return(t)
  BY <1>1, <1>3 DEF handle_write_return, ReadWriteReturn, AtReturn
<1> QED  BY <1>2, <1>3 DEF Using

LEMMA Using_Type ==
  ASSUME TypeInv, NEW t \in Task, Using(t)
  PROVE  Returned(t)
<1>1. /\ stop[t] = "return" /\ incr(call[t].sc, Named(fd_table[t], call[t].fd))
      /\ Done(t) /\ UNCHANGED <<fd_table, sharers, status>>
  BY UsingReturns DEF tvars
<1>2. credit' \in [Ops \X Name -> Int]
  BY <1>1, CreditType DEF incr, TypeInv
<1> QED  BY <1>1, <1>2, TablesSame DEF Returned, TablesOK, Returning, TypeInv, TypeOK

\* The handlers of the syscalls that read an entry: the table that they make,
\* or none, and the crash.
Copying(t) == handle_dup_return(t) \/ handle_fcntl_return(t) \/ handle_ioctl_return(t)

CopyName(t) ==
  LET name == fd_table[t][call[t].fd].name IN
  IF call[t].sc = "gptpeer" THEN Slave(name) ELSE name

CopyFd(t) == IF call[t].sc = "setfd" THEN call[t].fd ELSE ret[t].rax

CopyKept(t) == call[t].sc \in {"dup", "dup2", "dup3"} /\ ~ (call[t].fd >= 0 /\ call[t].fd # ret[t].rax)

LEMMA CopyingReturns ==
  ASSUME TypeInv, NEW t \in Task, Copying(t)
  PROVE  /\ stop[t] = "return" /\ call[t] \in Registers /\ call[t].sc \in Dups \cup {"setfd"}
         /\ Done(t) /\ UNCHANGED <<sharers, credit>>
         /\ \/ CopyKept(t) /\ UNCHANGED <<fd_table, status>>
            \/ /\ ~CopyKept(t) /\ call[t].fd \in DOMAIN fd_table[t] /\ UNCHANGED status
               /\ \E c \in BOOLEAN : /\ c = SeenCloexec(t)
                                     /\ fd_table_insert(t, CopyFd(t), CopyName(t), c)
            \/ /\ ~CopyKept(t) /\ call[t].fd \notin DOMAIN fd_table[t]
               /\ status' = "crashed" /\ UNCHANGED fd_table
<1> DEFINE fd == call[t].fd
           sc == call[t].sc
           Goal == /\ Done(t) /\ UNCHANGED <<sharers, credit>>
                   /\ \/ CopyKept(t) /\ UNCHANGED <<fd_table, status>>
                      \/ /\ ~CopyKept(t) /\ fd \in DOMAIN fd_table[t] /\ UNCHANGED status
                         /\ \E c \in BOOLEAN : /\ c = SeenCloexec(t)
                                               /\ fd_table_insert(t, CopyFd(t), CopyName(t), c)
                      \/ /\ ~CopyKept(t) /\ fd \notin DOMAIN fd_table[t]
                         /\ status' = "crashed" /\ UNCHANGED fd_table
<1>1. stop[t] = "return" => call[t] \in Registers
  BY DEF TypeInv, Registered, Returning
<1>2. ASSUME NEW ACTION Act, ~CopyKept(t), OnEntry(t, fd, Act),
             NEW c \in BOOLEAN, c = SeenCloexec(t),
             Act => fd_table_insert(t, CopyFd(t), CopyName(t), c)
      PROVE  Goal
  <2>1. CASE fd \in DOMAIN fd_table[t] /\ Act /\ UNCHANGED status
    BY <1>2, <2>1 DEF OnEntry
  <2>2. CASE fd \notin DOMAIN fd_table[t] /\ status' = "crashed" /\ UNCHANGED fd_table
    BY <1>2, <2>2 DEF OnEntry
  <2> QED  BY <1>2, <2>1, <2>2 DEF OnEntry
<1>3. CASE handle_dup_return(t)
  <2>1. stop[t] = "return" /\ sc \in {"dup", "dup2", "dup3"} /\ sc \in Dups
    BY <1>3 DEF handle_dup_return, AtReturn, Dups
  <2>2. CASE fd >= 0 /\ fd # ret[t].rax
    <3>1. OnEntry(t, fd, fd_table_insert_dup(t, fd, ret[t].rax, FALSE, FALSE))
      BY <1>3, <2>2 DEF handle_dup_return
    <3>2. FALSE = SeenCloexec(t)
      BY <1>1, <2>1, RegistersFixed DEF SeenCloexec, Silent
    <3>3. fd_table_insert_dup(t, fd, ret[t].rax, FALSE, FALSE)
          => fd_table_insert(t, CopyFd(t), CopyName(t), FALSE)
      BY <2>1 DEF fd_table_insert_dup, CopyFd, CopyName
    <3>4. ~CopyKept(t)
      BY <2>2 DEF CopyKept
    <3> HIDE DEF Goal
    <3>5. Goal
      BY <1>2, <3>1, <3>2, <3>3, <3>4
    <3> QED  BY <1>1, <2>1, <3>5 DEF Goal
  <2>3. CASE ~ (fd >= 0 /\ fd # ret[t].rax)
    <3>1. CopyKept(t)
      BY <2>1, <2>3 DEF CopyKept
    <3>2. NoTableChange(t)
      BY <1>3, <2>3 DEF handle_dup_return
    <3> QED  BY <1>1, <2>1, <3>1, <3>2 DEF NoTableChange, tvars
  <2> QED  BY <2>2, <2>3
<1>4. CASE handle_fcntl_return(t)
  <2>1. stop[t] = "return" /\ sc \in {"dupfd", "dupfd_cloexec", "setfd"}
    BY <1>4 DEF handle_fcntl_return, AtReturn
  <2>2. ret[t].rax # -1
    BY Numbers DEF TypeInv, TypeOK, ENOENT, EBADF
  <2> DEFINE Act == IF sc = "setfd" THEN fd_table_set_cloexec(t, fd, call[t].cloexec)
                    ELSE fd_table_insert_dup(t, fd, ret[t].rax, sc = "dupfd_cloexec", FALSE)
  <2>3. OnEntry(t, fd, Act)
    BY <1>4, <2>2 DEF handle_fcntl_return
  <2>4. call[t].cloexec \in BOOLEAN
    BY <1>1, <2>1, RegistersFlag
  <2>5. sc # "setfd" => (sc = "dupfd_cloexec") = call[t].cloexec
    BY <1>1, <2>1, RegistersFixed
  <2>10. call[t].cloexec = SeenCloexec(t)
    BY <2>1, <2>4 DEF SeenCloexec, Silent
  <2>6. Act => fd_table_insert(t, CopyFd(t), CopyName(t), call[t].cloexec)
    BY <2>1, <2>5 DEF fd_table_insert_dup, fd_table_set_cloexec, CopyFd, CopyName
  <2>7. ~CopyKept(t)
    BY <2>1 DEF CopyKept
  <2> HIDE DEF Goal, Act
  <2>8. Goal
    BY <1>2, <2>3, <2>4, <2>6, <2>7, <2>10
  <2>9. sc \in Dups \cup {"setfd"}
    BY <2>1 DEF Dups
  <2> QED  BY <1>1, <2>1, <2>8, <2>9 DEF Goal
<1>5. CASE handle_ioctl_return(t)
  <2>1. stop[t] = "return" /\ sc = "gptpeer" /\ sc \in Dups
    BY <1>5 DEF handle_ioctl_return, AtReturn, Dups
  <2>2. OnEntry(t, fd, fd_table_insert_dup(t, fd, ret[t].rax, FALSE, TRUE))
    BY <1>5 DEF handle_ioctl_return
  <2>3. FALSE = SeenCloexec(t)
    BY <2>1 DEF SeenCloexec, Silent
  <2>4. fd_table_insert_dup(t, fd, ret[t].rax, FALSE, TRUE)
        => fd_table_insert(t, CopyFd(t), CopyName(t), FALSE)
    BY <2>1 DEF fd_table_insert_dup, CopyFd, CopyName
  <2>5. ~CopyKept(t)
    BY <2>1 DEF CopyKept
  <2> HIDE DEF Goal
  <2>6. Goal
    BY <1>2, <2>2, <2>3, <2>4, <2>5
  <2> QED  BY <1>1, <2>1, <2>6 DEF Goal
<1> QED  BY <1>3, <1>4, <1>5 DEF Copying

LEMMA Copying_Type ==
  ASSUME TypeInv, NEW t \in Task, Copying(t)
  PROVE  Returned(t)
<1>1. /\ stop[t] = "return" /\ call[t] \in Registers /\ call[t].sc \in Dups \cup {"setfd"}
      /\ Done(t) /\ UNCHANGED <<sharers, credit>>
  BY CopyingReturns
<1>2. TablesOK /\ status' \in {"running", "crashed"}
  <2>1. CASE UNCHANGED <<fd_table, status>>
    BY <2>1, TablesSame DEF TypeInv, TypeOK
  <2>2. CASE UNCHANGED fd_table /\ status' = "crashed"
    BY <2>2, TablesSame
  <2>3. ASSUME call[t].fd \in DOMAIN fd_table[t], UNCHANGED status,
               NEW c \in BOOLEAN, fd_table_insert(t, CopyFd(t), CopyName(t), c)
        PROVE  TablesOK /\ status' \in {"running", "crashed"}
    <3>1. IsTable(fd_table[t], Fd \cup Phantom)
      BY DEF TypeInv, TypeOK
    <3>2. fd_table[t][call[t].fd].name \in Seq(Word)
      BY <2>3, <3>1 DEF IsTable
    <3>3. CopyName(t) \in Seq(Word)
      BY <3>2, Names DEF CopyName
    <3>4. CopyFd(t) \in Fd \cup Phantom
      <4>1. CASE call[t].sc = "setfd"
        BY <2>3, <3>1, <4>1 DEF CopyFd, IsTable
      <4>2. CASE call[t].sc # "setfd"
        <5>1. Shown(t) /\ call[t].sc \in Dups
          BY <1>1, <4>2 DEF TypeInv, Registered
        <5> QED  BY <4>2, <5>1 DEF CopyFd, Shown, Phantom
      <4> QED  BY <4>1, <4>2
    <3>5. TablesOK
      BY <2>3, <3>3, <3>4, TableInserted
    <3> QED  BY <2>3, <3>5 DEF TypeInv, TypeOK
  <2> QED  BY <2>1, <2>2, <2>3, CopyingReturns
<1> QED  BY <1>1, <1>2 DEF Returned, TablesOK, Returning, TypeInv, TypeOK

LEMMA execve_return_Type ==
  ASSUME TypeInv, NEW t \in Task, handle_execve_return(t)
  PROVE  Returned(t)
<1>1. /\ stop[t] = "return" /\ Done(t) /\ UNCHANGED <<credit, status>>
      /\ fd_table' = [fd_table EXCEPT ![t] = WithoutCloexec(@)]
      /\ sharers' = [u \in Task |-> IF u = t THEN {t} ELSE sharers[u] \ {t}]
  BY DEF handle_execve_return, AtReturn
<1>2. IsTable(WithoutCloexec(fd_table[t]), Fd \cup Phantom)
  BY SweepType DEF TypeInv, TypeOK
<1>3. TablesOK
  BY <1>1, <1>2 DEF TypeInv, TypeOK, TablesOK
<1>4. sharers' \in [Task -> SUBSET Task]
  BY <1>1 DEF TypeInv, TypeOK
<1> QED  BY <1>1, <1>3, <1>4 DEF Returned, TablesOK, Returning, TypeInv, TypeOK

LEMMA unconsidered_return_Type ==
  ASSUME TypeInv, NEW t \in Task, handle_unconsidered_return(t)
  PROVE  Returned(t)
BY TablesSame DEF handle_unconsidered_return, AtReturn, NoTableChange, Returned, TablesOK,
                  Returning, TypeInv, TypeOK, tvars

-----------------------------------------------------------------------------
(* The types in every step.                                                *)

\* What a step of a task is.
Handles(t) ==
  \/ handle_syscall_call(t)
  \/ Opening(t) \/ Pairing(t) \/ handle_close_return(t) \/ Using(t) \/ Copying(t)
  \/ handle_execve_return(t) \/ handle_unconsidered_return(t)
  \/ threads_add(t)

Steps(t) == (Kernel(t) /\ Follow(t)) \/ (Handles(t) /\ UNCHANGED strayed)

LEMMA NextSteps ==
  ASSUME Next
  PROVE  status = "running" /\ \E t \in Task : Steps(t)
BY Zenon DEF Next, handle_syscall_return, Steps, Handles, Opening, Pairing, Using, Copying

LEMMA KernelType ==
  ASSUME TypeInv, NEW t \in Task, Kernel(t)
  PROVE  /\ new_child' \in [Task -> Task]
         /\ strayed' \subseteq Task => TypeInv'
<1>1. CASE \/ kernel_open(t) \/ kernel_pair(t) \/ kernel_close(t) \/ kernel_read_write(t)
           \/ kernel_dup(t) \/ kernel_setfd(t) \/ kernel_untracked(t) \/ kernel_execve(t)
  <2>1. Executed(t) /\ Shown(t)'
    BY <1>1, kernel_open_Type, kernel_pair_Type, kernel_close_Type, kernel_read_write_Type,
       kernel_dup_Type, kernel_setfd_Type, kernel_untracked_Type, kernel_execve_Type
  <2> QED  BY <2>1, TypeExecuted DEF Executed
<1>2. ASSUME NEW u \in Task, kernel_clone(t, u)
      PROVE  new_child' \in [Task -> Task] /\ (strayed' \subseteq Task => TypeInv')
  <2>1. new_child' \in [Task -> Task]
    BY <1>2 DEF kernel_clone, TypeInv, TypeOK
  <2> QED  BY <1>2, <2>1, kernel_clone_Type
<1> QED  BY <1>1, <1>2 DEF Kernel

\* Only tasks stray.
LEMMA StrayedType ==
  ASSUME TypeInv, NEW t \in Task, Steps(t)
  PROVE  strayed' \subseteq Task
<1>1. strayed \subseteq Task /\ ksharers[t] \subseteq Task /\ sharers[t] \subseteq Task
  BY DEF TypeInv, TypeOK
<1>2. ASSUME Kernel(t), Follow(t)
      PROVE  strayed' \subseteq Task
  <2>1. new_child' \in [Task -> Task]
    BY <1>2, KernelType
  <2>2. Affected(t) \subseteq Task
    BY <1>1, <2>1 DEF Affected
  <2> QED  BY <1>1, <1>2, <2>2 DEF Follow
<1> QED  BY <1>1, <1>2 DEF Steps

LEMMA StepsType ==
  ASSUME TypeInv, NEW t \in Task, Steps(t)
  PROVE  TypeInv'
<1>1. strayed' \subseteq Task
  BY StrayedType
<1>2. CASE Kernel(t)
  BY <1>1, <1>2, KernelType
<1>3. CASE handle_syscall_call(t)
  BY <1>1, <1>3, handle_syscall_call_Type
<1>4. CASE Opening(t)
  BY <1>1, <1>4, Opening_Type, TypeReturned
<1>5. CASE Pairing(t)
  BY <1>1, <1>5, PairingReturns, PairReturn_Type
<1>6. CASE handle_close_return(t)
  BY <1>1, <1>6, close_return_Type
<1>7. CASE Using(t)
  BY <1>1, <1>7, Using_Type, TypeReturned
<1>8. CASE Copying(t)
  BY <1>1, <1>8, Copying_Type, TypeReturned
<1>9. CASE handle_execve_return(t)
  BY <1>1, <1>9, execve_return_Type, TypeReturned
<1>10. CASE handle_unconsidered_return(t)
  BY <1>1, <1>10, unconsidered_return_Type, TypeReturned
<1>11. CASE threads_add(t)
  BY <1>1, <1>11, threads_add_Type
<1> QED
  BY <1>2, <1>3, <1>4, <1>5, <1>6, <1>7, <1>8, <1>9, <1>10, <1>11 DEF Steps, Handles

LEMMA InitType ==
  Init => TypeInv
<1> SUFFICES ASSUME Init PROVE TypeInv
  OBVIOUS
<1> DEFINE std == [k \in 0 .. 2 |-> Entry(<<STDIN, STDOUT, STDERR>>[k + 1], FALSE)]
<1>1. /\ kernel = [t \in Task |-> std] /\ fd_table = [t \in Task |-> std]
      /\ ksharers = [t \in Task |-> {t}] /\ sharers = [t \in Task |-> {t}]
      /\ new_child = [t \in Task |-> t]
      /\ stop = [t \in Task |-> IF t = First THEN "user" ELSE "unborn"]
      /\ call = [t \in Task |-> NoCall] /\ ret = [t \in Task |-> NoRet]
      /\ credit = [k \in Ops \X Name |-> 0] /\ status = "running" /\ strayed = {}
  BY DEF Init
<1>2. /\ DOMAIN std = 0 .. 2
      /\ \A k \in 0 .. 2 : std[k].name \in Name /\ std[k].cloexec \in BOOLEAN
  <2>1. /\ std[0] = Entry(STDIN, FALSE) /\ std[1] = Entry(STDOUT, FALSE)
        /\ std[2] = Entry(STDERR, FALSE)
    <3>1. /\ 0 \in 0 .. 2 /\ 1 \in 0 .. 2 /\ 2 \in 0 .. 2
          /\ 0 + 1 = 1 /\ 1 + 1 = 2 /\ 2 + 1 = 3
      OBVIOUS
    <3>2. /\ <<STDIN, STDOUT, STDERR>>[1] = STDIN /\ <<STDIN, STDOUT, STDERR>>[2] = STDOUT
          /\ <<STDIN, STDOUT, STDERR>>[3] = STDERR
      OBVIOUS
    <3> QED  BY <3>1, <3>2, Zenon
  <2>2. STDIN \in Name /\ STDOUT \in Name /\ STDERR \in Name
    BY Names
  <2>3. \A k \in 0 .. 2 : k = 0 \/ k = 1 \/ k = 2
    OBVIOUS
  <2> HIDE DEF std
  <2>5. /\ std[0].name = STDIN /\ std[0].cloexec = FALSE
        /\ std[1].name = STDOUT /\ std[1].cloexec = FALSE
        /\ std[2].name = STDERR /\ std[2].cloexec = FALSE
    BY <2>1 DEF Entry
  <2>6. \A k \in 0 .. 2 : std[k].name \in Name /\ std[k].cloexec \in BOOLEAN
    BY <2>2, <2>3, <2>5
  <2>7. DOMAIN std = 0 .. 2
    BY DEF std
  <2> QED  BY <2>6, <2>7
<1> HIDE DEF std
<1>3. 0 .. 2 \subseteq Fd
  BY Numbers DEF Fd
<1>4. IsTable(std, Fd) /\ IsTable(std, Fd \cup Phantom)
  BY <1>2, <1>3, Names DEF IsTable
<1>5. NoRet.rax \in Fd /\ NoRet.fds \in Seq(Fd \cup {-1})
  BY Numbers DEF NoRet
<1>6. TypeOK
  BY <1>1, <1>4, <1>5 DEF TypeOK
<1>7. Registered
  BY <1>1 DEF Registered, Returning
<1>8. KernelNames
  BY <1>1, <1>2 DEF KernelNames
<1> QED  BY <1>6, <1>7, <1>8 DEF TypeInv

LEMMA StutterType ==
  TypeInv /\ UNCHANGED vars => TypeInv'
BY DEF TypeInv, TypeOK, Registered, KernelNames, Shown, vars, kvars, tvars

LEMMA NextType ==
  TypeInv /\ [Next]_vars => TypeInv'
<1>1. ASSUME TypeInv, Next PROVE TypeInv'
  BY <1>1, NextSteps, StepsType
<1> QED  BY <1>1, StutterType

\* Every variable keeps its type: a table of iotrace never has a key that no
\* duplication or pair gave it, whatever fails and in whatever order returns are
\* handled.
THEOREM TypeCorrect == Spec => []TypeOK
<1>1. TypeInv => TypeOK
  BY DEF TypeInv
<1> QED  BY <1>1, InitType, NextType, PTL DEF Spec

=============================================================================
