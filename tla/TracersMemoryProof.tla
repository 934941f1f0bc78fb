------------------------ MODULE TracersMemoryProof ------------------------
(***************************************************************************)
(* Proof that no step of Tracers lets an entry of thread_tmps_table point  *)
(* to freed memory, miscounts share_count or loses a table.                *)
(***************************************************************************)
EXTENDS TracersProof

LEMMA SharersFinite ==
  ASSUME NEW c
  PROVE  /\ IsFiniteSet(Sharers(c))
         /\ Cardinality(Sharers(c)) \in Nat
         /\ Cardinality(Sharers(c)) = 0 <=> Sharers(c) = {}
<1>1. IsFiniteSet(Sharers(c))
  BY FS_Subset, TracersAssumption DEF Sharers
<1> QED
  BY <1>1, FS_CardinalityType, FS_EmptySet

\* A thread holds no private table exactly when PrivateTable says None.
LEMMA NoPrivate ==
  ASSUME NEW p \in Pid, ~HoldsPrivate(p)
  PROVE  PrivateTable(p) = None
BY DEF HoldsPrivate, PrivateTable

LEMMA MemoryInit == Init => Memory
<1> SUFFICES ASSUME Init PROVE Memory
  OBVIOUS
<1> USE TracersAssumption, FirstMemory
<1>1. /\ \A p \in Pid : Counted(p) <=> p = Root
      /\ \A p \in Pid : pc[p] \notin ExecPCs /\ ~Attaching(p)
      /\ thread_tmps[Root] = [table |-> FirstTable, cell |-> FirstCell]
  BY DEF Init, Counted, CountedPCs, ExecPCs, Attaching
<1>2. \A p \in Pid : ~HoldsPrivate(p) /\ ~Shared(p) /\ pc[p] # "exec_reuse"
  BY <1>1 DEF HoldsPrivate, Shared, ExecPCs
<1>3. /\ table_mem[FirstTable] = "live" /\ cell_mem[FirstCell] = "live"
      /\ \A t \in Table : table_mem[t] = "live" => t = FirstTable
      /\ \A c \in Cell : cell_mem[c] = "live" => c = FirstCell
  BY DEF Init
<1>4. EntryExists /\ EntryLive /\ SameTableSameMutex
  BY <1>1, <1>3 DEF EntryExists, EntryLive, SameTableSameMutex
<1>5. Counts
  <2>1. Sharers(FirstCell) = {Root}
    BY <1>1 DEF Sharers
  <2>2. Cardinality({Root}) = 1
    BY FS_Singleton
  <2> QED
    BY <1>3, <2>1, <2>2 DEF Counts, Init
<1>6. PrivateTables /\ Reused /\ Handed
  BY <1>2 DEF PrivateTables, Reused, Handed
<1>7. Owned
  BY <1>1, <1>3 DEF Owned
<1> QED
  BY <1>4, <1>5, <1>6, <1>7 DEF Memory

\* Steps that move threads only within the classes Memory tells apart.
LEMMA MemoryFrame ==
  ASSUME Memory, UNCHANGED <<start, thread_tmps, fd_copy, mem>>,
         \A q \in Pid : /\ Counted(q)' <=> Counted(q)
                        /\ Attaching(q)' <=> Attaching(q)
                        /\ pc'[q] \in ExecPCs <=> pc[q] \in ExecPCs
                        /\ pc'[q] = "exec_reuse" <=> pc[q] = "exec_reuse"
  PROVE  Memory'
<1>1. \A q \in Pid : /\ HoldsPrivate(q)' <=> HoldsPrivate(q)
                     /\ PrivateTable(q)' = PrivateTable(q)
                     /\ Shared(q)' <=> Shared(q)
  BY DEF HoldsPrivate, PrivateTable, Shared, HandedCount
<1>2. \A c \in Cell : Sharers(c)' = Sharers(c)
  BY DEF Sharers
<1> USE DEF Memory, mem
<1>3. EntryExists' /\ EntryLive' /\ SameTableSameMutex'
  BY DEF EntryExists, EntryLive, SameTableSameMutex
<1>4. Counts'
  BY <1>2 DEF Counts
<1>5. PrivateTables'
  BY <1>1 DEF PrivateTables
<1>6. Reused' /\ Handed'
  BY <1>1 DEF Reused, Handed
<1>7. Owned'
  BY <1>1 DEF Owned
<1> QED
  BY <1>3, <1>4, <1>5, <1>6, <1>7

LEMMA MemoryCopy ==
  ASSUME TypeInt, Memory, NEW p \in Pid, exec_copy(p)
  PROVE  Memory'
<1> DEFINE t == NewTable
<1> USE DEF Memory, mem
<1>1. /\ t \in Table /\ table_mem[t] = "unused"
      /\ table_mem' = [table_mem EXCEPT ![t] = "live"]
      /\ fd_copy' = [fd_copy EXCEPT ![p] = t]
      /\ UNCHANGED <<start, thread_tmps, cell_mem, share_count>>
  BY NewTableUnused DEF exec_copy
<1>2. /\ pc[p] = "exec_copy" /\ pc'[p] = "exec_release"
      /\ \A q \in Pid \ {p} : pc'[q] = pc[q] /\ fd_copy'[q] = fd_copy[q]
      /\ fd_copy'[p] = t
      /\ table_mem'[t] = "live" /\ \A x \in Table \ {t} : table_mem'[x] = table_mem[x]
  BY <1>1 DEF exec_copy, Goto, TypeInt
<1>3. \A q \in Pid : /\ Counted(q)' <=> Counted(q)
                     /\ Attaching(q)' <=> Attaching(q)
                     /\ Shared(q)' <=> Shared(q)
                     /\ pc'[q] = "exec_reuse" <=> pc[q] = "exec_reuse"
  BY <1>1, <1>2 DEF Counted, CountedPCs, Attaching, Shared, HandedCount
<1>4. /\ HoldsPrivate(p)' /\ PrivateTable(p)' = t
      /\ ~HoldsPrivate(p) /\ PrivateTable(p) = None
      /\ \A q \in Pid \ {p} : /\ HoldsPrivate(q)' <=> HoldsPrivate(q)
                              /\ PrivateTable(q)' = PrivateTable(q)
  BY <1>1, <1>2 DEF HoldsPrivate, PrivateTable, ExecPCs, Attaching, HandedCount
<1>5. EntryExists' /\ EntryLive' /\ SameTableSameMutex'
  BY <1>1, <1>2, <1>3 DEF EntryExists, EntryLive, SameTableSameMutex
<1>6. Counts'
  <2>1. \A c \in Cell : Sharers(c)' = Sharers(c)
    BY <1>1, <1>3 DEF Sharers
  <2> QED
    BY <1>1, <2>1 DEF Counts
<1>7. PrivateTables'
  <2>1. \A q \in Pid : PrivateTable(q) # t
    BY <1>1, NoPrivate, TracersAssumption DEF PrivateTables
  <2>2. \A q \in Pid : /\ Counted(q) => thread_tmps[q].table # t
                       /\ Shared(q) => start[q].table \in Table
    BY <1>1 DEF EntryLive, Handed
  <2>3. \A q \in Pid : Shared(q) => start[q].table # t
    BY <1>1 DEF Handed
  <2> QED
    BY <1>1, <1>2, <1>3, <1>4, <2>1, <2>2, <2>3 DEF PrivateTables
<1>8. Reused'
  BY <1>1, <1>3 DEF Reused
<1>9. Handed'
  BY <1>1, <1>2, <1>3 DEF Handed
<1>10. Owned'
  <2>1. ASSUME NEW x \in Table, table_mem'[x] = "live"
        PROVE  \E q \in Pid : \/ Counted(q)' /\ thread_tmps'[q].table = x
                              \/ PrivateTable(q)' = x
    <3>1. CASE x = t
      BY <3>1, <1>4
    <3>2. CASE x # t
      <4>1. PICK q \in Pid : (Counted(q) /\ thread_tmps[q].table = x) \/ PrivateTable(q) = x
        BY <3>2, <2>1, <1>2 DEF Owned
      <4>2. PrivateTable(q) = x => q # p
        BY <1>4, TracersAssumption
      <4> QED
        BY <4>1, <4>2, <1>1, <1>3, <1>4
    <3> QED
      BY <3>1, <3>2
  <2>2. ASSUME NEW c \in Cell, cell_mem'[c] = "live"
        PROVE  \E q \in Pid : /\ Counted(q)' \/ pc'[q] = "exec_reuse"
                              /\ thread_tmps'[q].cell = c
    BY <2>2, <1>1, <1>3 DEF Owned
  <2> QED
    BY <2>1, <2>2 DEF Owned
<1> QED
  BY <1>5, <1>6, <1>7, <1>8, <1>9, <1>10

-----------------------------------------------------------------------------
(* Giving up and taking a reference.                                       *)

\* The last user of a count is the last of its table; any other leaves a
\* partner behind.
LEMMA Leaving ==
  ASSUME TypeInt, Memory, NEW p \in Pid, Counted(p), NEW r, r = thread_tmps[p]
  PROVE  /\ r.table \in Table /\ table_mem[r.table] = "live"
         /\ r.cell \in Cell /\ cell_mem[r.cell] = "live"
         /\ Cardinality(Sharers(r.cell) \ {p}) = share_count[r.cell] - 1
         /\ LastRef(r.cell) =>
              \A q \in Pid \ {p} : Counted(q) => /\ thread_tmps[q].table # r.table
                                                 /\ thread_tmps[q].cell # r.cell
         /\ ~LastRef(r.cell) =>
              \E q \in Pid \ {p} : Counted(q) /\ thread_tmps[q] = r
<1> USE DEF Memory
<1>1. /\ r.table \in Table /\ table_mem[r.table] = "live"
      /\ r.cell \in Cell /\ cell_mem[r.cell] = "live"
  BY DEF EntryExists, EntryLive
<1>2. p \in Sharers(r.cell) /\ share_count[r.cell] = Cardinality(Sharers(r.cell))
  BY <1>1 DEF Sharers, Counts
<1>3. Cardinality(Sharers(r.cell) \ {p}) = share_count[r.cell] - 1
  BY <1>2, SharersFinite, FS_RemoveElement
<1>4. /\ IsFiniteSet(Sharers(r.cell) \ {p})
      /\ Cardinality(Sharers(r.cell) \ {p}) = 0 <=> Sharers(r.cell) \ {p} = {}
  BY SharersFinite, FS_RemoveElement, FS_EmptySet
<1>5. ASSUME NEW q \in Pid \ {p}, Counted(q)
      PROVE  thread_tmps[q].table = r.table <=> thread_tmps[q].cell = r.cell
  BY <1>5 DEF SameTableSameMutex
<1>6. ASSUME LastRef(r.cell), NEW q \in Pid \ {p}, Counted(q)
      PROVE  thread_tmps[q].table # r.table /\ thread_tmps[q].cell # r.cell
  <2>1. Sharers(r.cell) \ {p} = {}
    BY <1>3, <1>4, <1>6 DEF LastRef
  <2> QED
    BY <2>1, <1>5, <1>6 DEF Sharers
<1>7. ASSUME ~LastRef(r.cell)
      PROVE  \E q \in Pid \ {p} : Counted(q) /\ thread_tmps[q] = r
  <2>1. share_count[r.cell] \in Int
    BY <1>1 DEF TypeInt
  <2>2. PICK q \in Sharers(r.cell) \ {p} : TRUE
    BY <1>3, <1>4, <1>7, <2>1 DEF LastRef
  <2>3. q \in Pid \ {p} /\ Counted(q) /\ thread_tmps[q].cell = r.cell
    BY <2>2 DEF Sharers
  <2>4. thread_tmps[q].table = r.table
    BY <2>3, <1>5
  <2>5. thread_tmps[q] \in Ref /\ r \in Ref
    BY <2>3 DEF TypeInt
  <2> QED
    BY <2>3, <2>4, <2>5 DEF Ref
<1> QED
  BY <1>1, <1>3, <1>6, <1>7

LEMMA Joining ==
  ASSUME NEW p, ~Counted(p), NEW c
  PROVE  Cardinality(Sharers(c) \cup {p}) = Cardinality(Sharers(c)) + 1
<1>1. p \notin Sharers(c)
  BY DEF Sharers
<1> QED
  BY <1>1, SharersFinite, FS_AddElement

LEMMA MemoryRelease ==
  ASSUME TypeInt, Memory, NEW p \in Pid, exec_release(p)
  PROVE  Memory'
<1> USE DEF Memory, mem
<1>r. PICK r : r = thread_tmps[p]
  OBVIOUS
<1>1. /\ pc[p] = "exec_release" /\ Counted(p)
      /\ share_count' = [share_count EXCEPT ![r.cell] = @ - 1]
      /\ UNCHANGED <<start, thread_tmps, fd_copy, cell_mem>>
  BY <1>r DEF exec_release, Counted, CountedPCs
<1>2. \/ /\ LastRef(r.cell) /\ pc' = [pc EXCEPT ![p] = "exec_reuse"]
         /\ table_mem' = [table_mem EXCEPT ![r.table] = "freed"]
      \/ /\ ~LastRef(r.cell) /\ pc' = [pc EXCEPT ![p] = "exec_new"]
         /\ UNCHANGED table_mem
  BY <1>r DEF exec_release, Goto
<1>3. /\ r.table \in Table /\ table_mem[r.table] = "live"
      /\ r.cell \in Cell /\ cell_mem[r.cell] = "live"
      /\ Cardinality(Sharers(r.cell) \ {p}) = share_count[r.cell] - 1
      /\ LastRef(r.cell) =>
           \A q \in Pid \ {p} : Counted(q) => /\ thread_tmps[q].table # r.table
                                              /\ thread_tmps[q].cell # r.cell
      /\ ~LastRef(r.cell) =>
           \E q \in Pid \ {p} : Counted(q) /\ thread_tmps[q] = r
  BY <1>1, <1>r, Leaving
<1>4. /\ \A q \in Pid \ {p} : pc'[q] = pc[q]
      /\ pc'[p] = IF LastRef(r.cell) THEN "exec_reuse" ELSE "exec_new"
      /\ \A x \in Table : table_mem'[x] = IF x = r.table /\ LastRef(r.cell) THEN "freed"
                                         ELSE table_mem[x]
  BY <1>2, <1>3 DEF TypeInt
<1>5. /\ ~Counted(p)' /\ \A q \in Pid \ {p} : Counted(q)' <=> Counted(q)
      /\ \A q \in Pid : Shared(q)' <=> Shared(q)
  BY <1>1, <1>4 DEF Counted, CountedPCs, Shared, Attaching, HandedCount
<1>6. \A q \in Pid : /\ HoldsPrivate(q)' <=> HoldsPrivate(q)
                     /\ PrivateTable(q)' = PrivateTable(q)
  BY <1>1, <1>4 DEF HoldsPrivate, PrivateTable, ExecPCs, Attaching, HandedCount
<1>7. EntryExists' /\ SameTableSameMutex'
  BY <1>1, <1>5 DEF EntryExists, SameTableSameMutex
<1>8. EntryLive'
  BY <1>1, <1>3, <1>4, <1>5 DEF EntryLive, EntryExists
<1>9. Counts'
  <2>1. Sharers(r.cell)' = Sharers(r.cell) \ {p}
    BY <1>1, <1>5 DEF Sharers
  <2>2. \A c \in Cell \ {r.cell} : Sharers(c)' = Sharers(c)
    BY <1>1, <1>5, <1>r DEF Sharers
  <2>3. /\ share_count'[r.cell] = share_count[r.cell] - 1
        /\ \A c \in Cell \ {r.cell} : share_count'[c] = share_count[c]
    BY <1>1, <1>3 DEF TypeInt
  <2> QED
    BY <1>1, <1>3, <2>1, <2>2, <2>3 DEF Counts
<1>10. PrivateTables'
  <2>1. \A q \in Pid : HoldsPrivate(q) => PrivateTable(q) # r.table
    BY <1>1, <1>r DEF PrivateTables
  <2> QED
    BY <1>1, <1>4, <1>5, <1>6, <2>1 DEF PrivateTables
<1>11. Reused'
  <2>1. \A q \in Pid : pc[q] = "exec_reuse" => thread_tmps[q].cell # r.cell
    BY <1>1, <1>r DEF Reused
  <2>2. ASSUME NEW q \in Pid, pc'[q] = "exec_reuse"
        PROVE  /\ thread_tmps'[q].cell \in Cell
               /\ cell_mem'[thread_tmps'[q].cell] = "live"
               /\ \A x \in Pid : x # q /\ (Counted(x)' \/ pc'[x] = "exec_reuse") =>
                    thread_tmps'[x].cell # thread_tmps'[q].cell
    <3>1. CASE q = p
      BY <3>1, <2>1, <2>2, <1>1, <1>r, <1>3, <1>4, <1>5
    <3>2. CASE q # p
      BY <3>2, <2>1, <2>2, <1>1, <1>r, <1>4, <1>5 DEF Reused
    <3> QED
      BY <3>1, <3>2
  <2> QED
    BY <2>2 DEF Reused
<1>12. Handed'
  <2>1. ASSUME NEW q \in Pid, Shared(q), table_mem'[start[q].table] = "live"
        PROVE  \E x \in Pid : Counted(x)' /\ thread_tmps[x] = start[q]
    <3>1. PICK x \in Pid : Counted(x) /\ thread_tmps[x] = start[q]
      BY <2>1, <1>4 DEF Handed
    <3>2. CASE x # p
      BY <3>1, <3>2, <1>5
    <3>3. CASE x = p
      <4>1. ~LastRef(r.cell)
        BY <3>1, <3>3, <2>1, <1>r, <1>3, <1>4
      <4> QED
        BY <4>1, <3>1, <3>3, <1>r, <1>3, <1>5
    <3> QED
      BY <3>2, <3>3
  <2> QED
    BY <2>1, <1>1, <1>4, <1>5 DEF Handed
<1>13. Owned'
  <2>1. ASSUME NEW x \in Table, table_mem'[x] = "live"
        PROVE  \E q \in Pid : \/ Counted(q)' /\ thread_tmps[q].table = x
                              \/ PrivateTable(q)' = x
    <3>1. table_mem[x] = "live"
      BY <2>1, <1>4
    <3>2. PICK q \in Pid : (Counted(q) /\ thread_tmps[q].table = x) \/ PrivateTable(q) = x
      BY <3>1 DEF Owned
    <3>3. CASE q = p /\ thread_tmps[q].table = x
      <4>1. ~LastRef(r.cell)
        BY <3>3, <2>1, <1>r, <1>4
      <4> QED
        BY <4>1, <3>3, <1>r, <1>3, <1>5
    <3> QED
      BY <3>2, <3>3, <1>5, <1>6
  <2>2. ASSUME NEW c \in Cell, cell_mem[c] = "live"
        PROVE  \E q \in Pid : /\ Counted(q)' \/ pc'[q] = "exec_reuse"
                              /\ thread_tmps[q].cell = c
    <3>1. PICK q \in Pid : (Counted(q) \/ pc[q] = "exec_reuse") /\ thread_tmps[q].cell = c
      BY <2>2 DEF Owned
    <3>2. CASE q # p
      BY <3>1, <3>2, <1>4, <1>5
    <3>3. CASE q = p
      <4>1. CASE LastRef(r.cell)
        BY <4>1, <3>1, <3>3, <1>4
      <4>2. CASE ~LastRef(r.cell)
        BY <4>2, <3>1, <3>3, <1>r, <1>3, <1>5
      <4> QED
        BY <4>1, <4>2
    <3> QED
      BY <3>2, <3>3
  <2> QED
    BY <2>1, <2>2, <1>1 DEF Owned
<1> QED
  BY <1>7, <1>8, <1>9, <1>10, <1>11, <1>12, <1>13

\* A thread registers with its private table and a count nobody else uses.
LEMMA MemoryRegister ==
  ASSUME TypeInt, Memory, NEW p \in Pid, NEW t \in Table, NEW c \in Cell,
         HoldsPrivate(p), PrivateTable(p) = t, ~Counted(p), share_count[c] = 0,
         \A q \in Pid \ {p} : Counted(q) \/ pc[q] = "exec_reuse" => thread_tmps[q].cell # c,
         pc[p] = "exec_reuse" => thread_tmps[p].cell = c,
         pc' = [pc EXCEPT ![p] = "wait"],
         thread_tmps' = [thread_tmps EXCEPT ![p] = [table |-> t, cell |-> c]],
         share_count' = [share_count EXCEPT ![c] = @ + 1],
         \A x \in Cell : cell_mem'[x] = IF x = c THEN "live" ELSE cell_mem[x],
         UNCHANGED table_mem,
         \A q \in Pid \ {p} : fd_copy'[q] = fd_copy[q] /\ start'[q] = start[q]
  PROVE  Memory'
<1> USE DEF Memory
<1>1. /\ pc'[p] = "wait" /\ \A q \in Pid \ {p} : pc'[q] = pc[q]
      /\ thread_tmps'[p].table = t /\ thread_tmps'[p].cell = c
      /\ \A q \in Pid \ {p} : thread_tmps'[q] = thread_tmps[q]
      /\ share_count'[c] = share_count[c] + 1
      /\ \A x \in Cell \ {c} : share_count'[x] = share_count[x]
  BY DEF TypeInt
<1>2. /\ Counted(p)' /\ ~HoldsPrivate(p)' /\ ~Shared(p)' /\ PrivateTable(p)' = None
      /\ \A q \in Pid \ {p} : /\ Counted(q)' <=> Counted(q)
                              /\ HoldsPrivate(q)' <=> HoldsPrivate(q)
                              /\ PrivateTable(q)' = PrivateTable(q)
                              /\ Shared(q)' <=> Shared(q)
  BY <1>1 DEF Counted, CountedPCs, HoldsPrivate, PrivateTable, ExecPCs, Shared,
              Attaching, HandedCount
<1>3. table_mem[t] = "live" /\ \A q \in Pid : Counted(q) => thread_tmps[q].table # t
  BY DEF PrivateTables
<1>4. EntryExists' /\ EntryLive'
  BY <1>1, <1>2, <1>3 DEF EntryExists, EntryLive
<1>5. SameTableSameMutex'
  BY <1>1, <1>2, <1>3 DEF SameTableSameMutex
<1>6. Counts'
  <2>1. Sharers(c)' = Sharers(c) \cup {p}
    BY <1>1, <1>2 DEF Sharers
  <2>2. Sharers(c) = {} /\ Cardinality({}) = 0
    BY FS_EmptySet DEF Sharers
  <2>3. Cardinality(Sharers(c) \cup {p}) = Cardinality(Sharers(c)) + 1
    BY Joining
  <2>5. Cardinality(Sharers(c)') = 1
    BY <2>1, <2>2, <2>3
  <2>4. \A x \in Cell \ {c} : Sharers(x)' = Sharers(x)
    BY <1>1, <1>2 DEF Sharers
  <2> QED
    BY <1>1, <2>5, <2>4 DEF Counts
<1>7. PrivateTables'
  <2>1. \A q \in Pid : HoldsPrivate(q) => PrivateTable(q) # None
    BY TracersAssumption DEF PrivateTables
  <2>2. \A q \in Pid \ {p} : HoldsPrivate(q) => PrivateTable(q) # t
    BY DEF PrivateTables
  <2> QED
    BY <1>1, <1>2, <2>1, <2>2 DEF PrivateTables
<1>8. Reused'
  BY <1>1, <1>2 DEF Reused
<1>9. Handed'
  BY <1>1, <1>2 DEF Handed
<1>10. Owned'
  <2>1. ASSUME NEW x \in Table, table_mem[x] = "live"
        PROVE  \E q \in Pid : \/ Counted(q)' /\ thread_tmps'[q].table = x
                              \/ PrivateTable(q)' = x
    <3>1. PICK q \in Pid : (Counted(q) /\ thread_tmps[q].table = x) \/ PrivateTable(q) = x
      BY <2>1 DEF Owned
    <3>2. CASE q = p
      BY <3>1, <3>2, <1>1, <1>2
    <3>3. CASE q # p
      BY <3>1, <3>3, <1>1, <1>2
    <3> QED
      BY <3>2, <3>3
  <2>2. ASSUME NEW x \in Cell, cell_mem'[x] = "live"
        PROVE  \E q \in Pid : /\ Counted(q)' \/ pc'[q] = "exec_reuse"
                              /\ thread_tmps'[q].cell = x
    <3>1. CASE x = c
      BY <3>1, <1>1, <1>2
    <3>2. CASE x # c
      <4>1. PICK q \in Pid : (Counted(q) \/ pc[q] = "exec_reuse") /\ thread_tmps[q].cell = x
        BY <2>2, <3>2 DEF Owned
      <4>2. q # p
        BY <4>1, <3>2
      <4> QED
        BY <4>1, <4>2, <1>1, <1>2
    <3> QED
      BY <3>1, <3>2
  <2> QED
    BY <2>1, <2>2 DEF Owned
<1> QED
  BY <1>4, <1>5, <1>6, <1>7, <1>8, <1>9, <1>10

LEMMA MemoryReuse ==
  ASSUME TypeInt, Memory, NEW p \in Pid, exec_reuse(p)
  PROVE  Memory'
<1>1. PICK t, c : t = fd_copy[p] /\ c = thread_tmps[p].cell
  OBVIOUS
<1>2. /\ pc[p] = "exec_reuse" /\ pc' = [pc EXCEPT ![p] = "wait"]
      /\ thread_tmps' = [thread_tmps EXCEPT ![p] = [table |-> t, cell |-> c]]
      /\ share_count' = [share_count EXCEPT ![c] = @ + 1]
      /\ fd_copy' = [fd_copy EXCEPT ![p] = None]
      /\ UNCHANGED <<table_mem, cell_mem, start>>
  BY <1>1 DEF exec_reuse, Adopt, Goto
<1>3. HoldsPrivate(p) /\ PrivateTable(p) = t /\ ~Counted(p)
  BY <1>1, <1>2 DEF HoldsPrivate, PrivateTable, ExecPCs, Counted, CountedPCs
<1>4. t \in Table
  BY <1>3 DEF Memory, PrivateTables
<1>5. /\ c \in Cell /\ cell_mem[c] = "live"
      /\ \A q \in Pid \ {p} : Counted(q) \/ pc[q] = "exec_reuse" => thread_tmps[q].cell # c
  BY <1>1, <1>2 DEF Memory, Reused
<1>6. share_count[c] = 0
  <2>1. Sharers(c) = {}
    BY <1>3, <1>5 DEF Sharers
  <2>2. Cardinality(Sharers(c)) = 0
    BY <2>1, FS_EmptySet
  <2> QED
    BY <2>2, <1>5 DEF Memory, Counts
<1>7. \A q \in Pid \ {p} : fd_copy'[q] = fd_copy[q] /\ start'[q] = start[q]
  BY <1>2 DEF TypeInt
<1> QED
  BY <1>1, <1>2, <1>3, <1>4, <1>5, <1>6, <1>7, MemoryRegister, ZenonT(30)

\* An address that was never used is nobody's count.
LEMMA UnusedCell ==
  ASSUME Memory, NEW c \in Cell, cell_mem[c] = "unused"
  PROVE  /\ share_count[c] = 0
         /\ \A q \in Pid : Counted(q) \/ pc[q] = "exec_reuse" => thread_tmps[q].cell # c
BY DEF Memory, Counts, EntryLive, Reused

LEMMA MemoryNew ==
  ASSUME TypeInt, Memory, NEW p \in Pid, exec_new(p)
  PROVE  Memory'
<1>1. PICK t, c : t = fd_copy[p] /\ c = NewCell
  OBVIOUS
<1>2. /\ pc[p] = "exec_new" /\ pc' = [pc EXCEPT ![p] = "wait"]
      /\ Unused(cell_mem) # {}
      /\ thread_tmps' = [thread_tmps EXCEPT ![p] = [table |-> t, cell |-> c]]
      /\ share_count' = [share_count EXCEPT ![c] = @ + 1]
      /\ cell_mem' = [cell_mem EXCEPT ![c] = "live"]
      /\ fd_copy' = [fd_copy EXCEPT ![p] = None]
      /\ UNCHANGED <<table_mem, start>>
  BY <1>1 DEF exec_new, Adopt, Goto
<1>3. HoldsPrivate(p) /\ PrivateTable(p) = t /\ ~Counted(p)
  BY <1>1, <1>2 DEF HoldsPrivate, PrivateTable, ExecPCs, Counted, CountedPCs
<1>4. t \in Table
  BY <1>3 DEF Memory, PrivateTables
<1>5. c \in Cell /\ cell_mem[c] = "unused"
  BY <1>1, <1>2, NewCellUnused
<1>6. /\ share_count[c] = 0
      /\ \A q \in Pid : Counted(q) \/ pc[q] = "exec_reuse" => thread_tmps[q].cell # c
  BY <1>5, UnusedCell
<1>7. /\ \A q \in Pid \ {p} : fd_copy'[q] = fd_copy[q] /\ start'[q] = start[q]
      /\ \A x \in Cell : cell_mem'[x] = IF x = c THEN "live" ELSE cell_mem[x]
  BY <1>2, <1>5 DEF TypeInt
<1> QED
  BY <1>1, <1>2, <1>3, <1>4, <1>5, <1>6, <1>7, MemoryRegister

LEMMA MemoryInsertOwn ==
  ASSUME TypeInt, Memory, NEW p \in Pid, thread_tmps_insert(p), ~HandedCount(start[p])
  PROVE  Memory'
<1>1. PICK t, c : t = start[p].table /\ c = NewCell
  OBVIOUS
<1>2. /\ pc[p] = "attach" /\ pc' = [pc EXCEPT ![p] = "wait"]
      /\ Unused(cell_mem) # {}
      /\ thread_tmps' = [thread_tmps EXCEPT ![p] = [table |-> t, cell |-> c]]
      /\ share_count' = [share_count EXCEPT ![c] = @ + 1]
      /\ cell_mem' = [cell_mem EXCEPT ![c] = "live"]
      /\ start' = [start EXCEPT ![p] = NoRef]
      /\ UNCHANGED <<table_mem, fd_copy>>
  BY <1>1 DEF thread_tmps_insert, Goto
<1>3. HoldsPrivate(p) /\ PrivateTable(p) = t /\ ~Counted(p)
  BY <1>1, <1>2 DEF HoldsPrivate, PrivateTable, Attaching, ExecPCs, Counted, CountedPCs
<1>4. t \in Table
  BY <1>3 DEF Memory, PrivateTables
<1>5. c \in Cell /\ cell_mem[c] = "unused"
  BY <1>1, <1>2, NewCellUnused
<1>6. /\ share_count[c] = 0
      /\ \A q \in Pid : Counted(q) \/ pc[q] = "exec_reuse" => thread_tmps[q].cell # c
  BY <1>5, UnusedCell
<1>7. /\ \A q \in Pid \ {p} : fd_copy'[q] = fd_copy[q] /\ start'[q] = start[q]
      /\ \A x \in Cell : cell_mem'[x] = IF x = c THEN "live" ELSE cell_mem[x]
  BY <1>2, <1>5 DEF TypeInt
<1> QED
  BY <1>1, <1>2, <1>3, <1>4, <1>5, <1>6, <1>7, MemoryRegister

LEMMA MemoryInsertHanded ==
  ASSUME TypeInt, Memory, NEW p \in Pid, thread_tmps_insert(p), HandedCount(start[p])
  PROVE  Memory'
<1> USE DEF Memory
<1>r. PICK r : r = start[p]
  OBVIOUS
<1>1. /\ pc[p] = "attach" /\ pc' = [pc EXCEPT ![p] = "wait"]
      /\ Usable(r)
      /\ thread_tmps' = [thread_tmps EXCEPT ![p] = r]
      /\ share_count' = [share_count EXCEPT ![r.cell] = @ + 1]
      /\ cell_mem' = [cell_mem EXCEPT ![r.cell] = "live"]
      /\ start' = [start EXCEPT ![p] = NoRef]
      /\ UNCHANGED <<table_mem, fd_copy>>
  <2>1. r \in Ref /\ [table |-> r.table, cell |-> r.cell] = r
    BY <1>r DEF TypeInt, Ref
  <2> QED
    BY <1>r, <2>1 DEF thread_tmps_insert, Goto
<1>2. Shared(p) /\ ~Counted(p) /\ pc[p] # "exec_reuse" /\ ~HoldsPrivate(p)
  BY <1>1 DEF Shared, Attaching, Counted, CountedPCs, HoldsPrivate, ExecPCs
<1>3. PICK w \in Pid \ {p} : Counted(w) /\ thread_tmps[w] = r
  BY <1>r, <1>1, <1>2 DEF Handed, Usable
<1>4. /\ r.table \in Table /\ table_mem[r.table] = "live"
      /\ r.cell \in Cell /\ cell_mem[r.cell] = "live"
  BY <1>3 DEF EntryExists, EntryLive
<1>5. /\ pc'[p] = "wait" /\ \A q \in Pid \ {p} : pc'[q] = pc[q]
      /\ thread_tmps'[p] = r
      /\ \A q \in Pid \ {p} : thread_tmps'[q] = thread_tmps[q] /\ start'[q] = start[q]
      /\ share_count'[r.cell] = share_count[r.cell] + 1
      /\ \A x \in Cell \ {r.cell} : share_count'[x] = share_count[x]
      /\ UNCHANGED cell_mem
  BY <1>1, <1>4 DEF TypeInt
<1>6. /\ Counted(p)' /\ ~HoldsPrivate(p)' /\ ~Shared(p)'
      /\ PrivateTable(p)' = None /\ PrivateTable(p) = None
      /\ \A q \in Pid \ {p} : /\ Counted(q)' <=> Counted(q)
                              /\ HoldsPrivate(q)' <=> HoldsPrivate(q)
                              /\ PrivateTable(q)' = PrivateTable(q)
                              /\ Shared(q)' <=> Shared(q)
  BY <1>1, <1>2, <1>5, NoPrivate DEF Counted, CountedPCs, HoldsPrivate, PrivateTable,
              ExecPCs, Shared, Attaching, HandedCount
<1>7. EntryExists' /\ EntryLive'
  BY <1>1, <1>4, <1>5, <1>6 DEF EntryExists, EntryLive
<1>8. SameTableSameMutex'
  BY <1>3, <1>5, <1>6 DEF SameTableSameMutex
<1>9. Counts'
  <2>1. Sharers(r.cell)' = Sharers(r.cell) \cup {p}
    BY <1>5, <1>6 DEF Sharers
  <2>2. Cardinality(Sharers(r.cell)') = Cardinality(Sharers(r.cell)) + 1
    BY <1>2, <2>1, Joining
  <2>3. \A x \in Cell \ {r.cell} : Sharers(x)' = Sharers(x)
    BY <1>2, <1>5, <1>6 DEF Sharers
  <2> QED
    BY <1>4, <1>5, <2>2, <2>3 DEF Counts
<1>10. PrivateTables'
  <2>1. \A q \in Pid : HoldsPrivate(q) => PrivateTable(q) # r.table
    BY <1>3 DEF PrivateTables
  <2>2. \A q \in Pid : HoldsPrivate(q) => PrivateTable(q) # None
    BY TracersAssumption DEF PrivateTables
  <2> QED
    BY <1>1, <1>5, <1>6, <2>1, <2>2 DEF PrivateTables
<1>11. Reused'
  <2>1. \A q \in Pid : pc[q] = "exec_reuse" => thread_tmps[q].cell # r.cell
    BY <1>3 DEF Reused, Counted, CountedPCs
  <2> QED
    BY <1>2, <1>5, <1>6, <2>1 DEF Reused
<1>12. Handed'
  <2>1. ASSUME NEW q \in Pid, Shared(q)', table_mem[start'[q].table] = "live"
        PROVE  \E x \in Pid : Counted(x)' /\ thread_tmps'[x] = start'[q]
    <3>1. q # p /\ Shared(q) /\ start'[q] = start[q]
      BY <2>1, <1>5, <1>6
    <3>2. PICK x \in Pid : Counted(x) /\ thread_tmps[x] = start[q]
      BY <3>1, <2>1 DEF Handed
    <3> QED
      BY <3>1, <3>2, <1>2, <1>5, <1>6
  <2> QED
    BY <2>1, <1>1, <1>5, <1>6 DEF Handed
<1>13. Owned'
  <2>1. ASSUME NEW x \in Table, table_mem[x] = "live"
        PROVE  \E q \in Pid : \/ Counted(q)' /\ thread_tmps'[q].table = x
                              \/ PrivateTable(q)' = x
    <3>1. PICK q \in Pid : (Counted(q) /\ thread_tmps[q].table = x) \/ PrivateTable(q) = x
      BY <2>1 DEF Owned
    <3>2. q # p
      BY <3>1, <1>2, <1>6, TracersAssumption
    <3> QED
      BY <3>1, <3>2, <1>5, <1>6
  <2>2. ASSUME NEW x \in Cell, cell_mem[x] = "live"
        PROVE  \E q \in Pid : /\ Counted(q)' \/ pc'[q] = "exec_reuse"
                              /\ thread_tmps'[q].cell = x
    BY <2>2, <1>2, <1>5, <1>6 DEF Owned
  <2> QED
    BY <2>1, <2>2, <1>1, <1>5 DEF Owned
<1> QED
  BY <1>7, <1>8, <1>9, <1>10, <1>11, <1>12, <1>13

-----------------------------------------------------------------------------
(* A new thread and the end of one.                                        *)

\* What both branches of threads_add have in common.
LEMMA AddEffect ==
  ASSUME TypeInt, Control, NEW p \in Pid, threads_add(p)
  PROVE  \E q \in Pid \ {p} :
           /\ q = child[p].pid /\ Counted(p) /\ pc[q] = "none"
           /\ pc'[p] = "list" /\ pc'[q] = "attach"
           /\ \A x \in Pid \ {p, q} : pc'[x] = pc[x]
           /\ \A x \in Pid \ {q} : start'[x] = start[x]
           /\ UNCHANGED <<thread_tmps, fd_copy, cell_mem, share_count>>
<1>1. PICK q \in Pid : q = child[p].pid
  BY DEF threads_add, Control, ChildKnown
<1>2. /\ pc[p] = "add" /\ pc[q] = "none" /\ q # p
      /\ pc' = [pc EXCEPT ![p] = "list", ![q] = "attach"]
      /\ UNCHANGED <<thread_tmps, fd_copy, cell_mem, share_count>>
  BY <1>1 DEF threads_add, Control, Children
<1>3. \A x \in Pid \ {q} : start'[x] = start[x]
  BY <1>1 DEF threads_add, TypeInt
<1>4. Counted(p)
  BY <1>2 DEF Counted, CountedPCs
<1>5. /\ pc'[p] = "list" /\ pc'[q] = "attach"
      /\ \A x \in Pid \ {p, q} : pc'[x] = pc[x]
  BY <1>2 DEF TypeInt
<1> QED
  BY <1>1, <1>2, <1>3, <1>4, <1>5

LEMMA MemoryAddShared ==
  ASSUME TypeInt, Control, Memory, NEW p \in Pid, threads_add(p), child[p].share
  PROVE  Memory'
<1> USE DEF Memory
<1>1. PICK q \in Pid \ {p} :
           /\ q = child[p].pid /\ Counted(p) /\ pc[q] = "none"
           /\ pc'[p] = "list" /\ pc'[q] = "attach"
           /\ \A x \in Pid \ {p, q} : pc'[x] = pc[x]
           /\ \A x \in Pid \ {q} : start'[x] = start[x]
           /\ UNCHANGED <<thread_tmps, fd_copy, cell_mem, share_count>>
  BY AddEffect
<1>2. /\ UNCHANGED table_mem /\ start'[q] = thread_tmps[p]
  BY <1>1 DEF threads_add, TypeInt
<1>3. /\ thread_tmps[p].table \in Table /\ table_mem[thread_tmps[p].table] = "live"
      /\ thread_tmps[p].cell \in Cell /\ cell_mem[thread_tmps[p].cell] = "live"
  BY <1>1 DEF EntryExists, EntryLive
<1>4. HandedCount(thread_tmps[p])
  BY <1>3, TracersAssumption DEF HandedCount
<1>0. pc[p] = "add"
  BY DEF threads_add
<1>5. /\ \A x \in Pid : /\ Counted(x)' <=> Counted(x)
                        /\ pc'[x] = "exec_reuse" <=> pc[x] = "exec_reuse"
                        /\ HoldsPrivate(x)' <=> HoldsPrivate(x)
                        /\ PrivateTable(x)' = PrivateTable(x)
      /\ Shared(q)' /\ \A x \in Pid \ {q} : Shared(x)' <=> Shared(x)
  <2>1. \A x \in Pid \ {p, q} : /\ Counted(x)' <=> Counted(x)
                                /\ pc'[x] = "exec_reuse" <=> pc[x] = "exec_reuse"
                                /\ HoldsPrivate(x)' <=> HoldsPrivate(x)
                                /\ PrivateTable(x)' = PrivateTable(x)
                                /\ Shared(x)' <=> Shared(x)
    BY <1>1 DEF Counted, HoldsPrivate, PrivateTable, Attaching, HandedCount, Shared
  <2>2. /\ Counted(p)' /\ ~HoldsPrivate(p)' /\ ~HoldsPrivate(p)
        /\ PrivateTable(p)' = None /\ PrivateTable(p) = None
        /\ pc'[p] # "exec_reuse" /\ ~Shared(p) /\ ~Shared(p)'
    BY <1>0, <1>1 DEF Counted, CountedPCs, HoldsPrivate, PrivateTable, ExecPCs, Attaching,
                HandedCount, Shared
  <2>3. /\ ~Counted(q) /\ ~Counted(q)' /\ ~HoldsPrivate(q)' /\ ~HoldsPrivate(q)
        /\ PrivateTable(q)' = None /\ PrivateTable(q) = None
        /\ pc'[q] # "exec_reuse" /\ Shared(q)'
    BY <1>1, <1>2, <1>4 DEF Counted, CountedPCs, HoldsPrivate, PrivateTable, ExecPCs,
                Attaching, HandedCount, Shared
  <2> QED
    BY <1>0, <1>1, <2>1, <2>2, <2>3
<1>6. EntryExists' /\ EntryLive' /\ SameTableSameMutex'
  BY <1>1, <1>2, <1>5 DEF EntryExists, EntryLive, SameTableSameMutex
<1>7. Counts'
  <2>1. \A c \in Cell : Sharers(c)' = Sharers(c)
    BY <1>1, <1>5 DEF Sharers
  <2> QED
    BY <1>1, <2>1 DEF Counts
<1>8. PrivateTables'
  <2>1. \A x \in Pid : HoldsPrivate(x) => PrivateTable(x) # thread_tmps[p].table
    BY <1>1 DEF PrivateTables
  <2> QED
    BY <1>1, <1>2, <1>5, <2>1 DEF PrivateTables
<1>9. Reused'
  BY <1>1, <1>5 DEF Reused
<1>10. Handed'
  BY <1>1, <1>2, <1>3, <1>5 DEF Handed
<1>11. Owned'
  BY <1>1, <1>2, <1>5 DEF Owned
<1> QED
  BY <1>6, <1>7, <1>8, <1>9, <1>10, <1>11

LEMMA MemoryAddCopy ==
  ASSUME TypeInt, Control, Memory, NEW p \in Pid, threads_add(p), ~child[p].share
  PROVE  Memory'
<1> USE DEF Memory
<1>1. PICK q \in Pid \ {p} :
           /\ q = child[p].pid /\ Counted(p) /\ pc[q] = "none"
           /\ pc'[p] = "list" /\ pc'[q] = "attach"
           /\ \A x \in Pid \ {p, q} : pc'[x] = pc[x]
           /\ \A x \in Pid \ {q} : start'[x] = start[x]
           /\ UNCHANGED <<thread_tmps, fd_copy, cell_mem, share_count>>
  BY AddEffect
<1>t. PICK t : t = NewTable
  OBVIOUS
<1>2. /\ start'[q] = [table |-> t, cell |-> None]
      /\ t \in Table /\ table_mem[t] = "unused" /\ table_mem'[t] = "live"
      /\ \A x \in Table \ {t} : table_mem'[x] = table_mem[x]
  BY <1>t, <1>1, NewTableUnused DEF threads_add, TypeInt
<1>0. pc[p] = "add"
  BY DEF threads_add
<1>5. /\ \A x \in Pid : /\ Counted(x)' <=> Counted(x)
                        /\ pc'[x] = "exec_reuse" <=> pc[x] = "exec_reuse"
                        /\ Shared(x)' <=> Shared(x)
      /\ \A x \in Pid \ {q} : /\ HoldsPrivate(x)' <=> HoldsPrivate(x)
                              /\ PrivateTable(x)' = PrivateTable(x)
      /\ HoldsPrivate(q)' /\ PrivateTable(q)' = t
      /\ ~HoldsPrivate(q) /\ PrivateTable(q) = None /\ ~Shared(q) /\ ~Counted(q)
  <2>1. \A x \in Pid \ {p, q} : /\ Counted(x)' <=> Counted(x)
                                /\ pc'[x] = "exec_reuse" <=> pc[x] = "exec_reuse"
                                /\ HoldsPrivate(x)' <=> HoldsPrivate(x)
                                /\ PrivateTable(x)' = PrivateTable(x)
                                /\ Shared(x)' <=> Shared(x)
    BY <1>1 DEF Counted, HoldsPrivate, PrivateTable, Attaching, HandedCount, Shared
  <2>2. /\ Counted(p)' /\ ~HoldsPrivate(p)' /\ ~HoldsPrivate(p)
        /\ PrivateTable(p)' = None /\ PrivateTable(p) = None
        /\ pc'[p] # "exec_reuse" /\ ~Shared(p) /\ ~Shared(p)'
    BY <1>0, <1>1 DEF Counted, CountedPCs, HoldsPrivate, PrivateTable, ExecPCs, Attaching,
                HandedCount, Shared
  <2>3. /\ ~Counted(q) /\ ~Counted(q)' /\ HoldsPrivate(q)' /\ ~HoldsPrivate(q)
        /\ PrivateTable(q)' = t /\ PrivateTable(q) = None
        /\ pc'[q] # "exec_reuse" /\ ~Shared(q)' /\ ~Shared(q)
    BY <1>1, <1>2 DEF Counted, CountedPCs, HoldsPrivate, PrivateTable, ExecPCs,
                Attaching, HandedCount, Shared
  <2> QED
    BY <1>0, <1>1, <2>1, <2>2, <2>3
<1>6. EntryExists' /\ EntryLive' /\ SameTableSameMutex'
  BY <1>1, <1>2, <1>5 DEF EntryExists, EntryLive, SameTableSameMutex
<1>7. Counts'
  <2>1. \A c \in Cell : Sharers(c)' = Sharers(c)
    BY <1>1, <1>5 DEF Sharers
  <2> QED
    BY <1>1, <2>1 DEF Counts
<1>8. PrivateTables'
  <2>1. \A x \in Pid : PrivateTable(x) # t
    BY <1>2, NoPrivate, TracersAssumption DEF PrivateTables
  <2>2. \A x \in Pid : Counted(x) => thread_tmps[x].table # t
    BY <1>2 DEF EntryLive
  <2>3. \A x \in Pid : Shared(x) => start[x].table # t
    BY <1>2 DEF Handed
  <2>4. \A x \in Pid : Shared(x) => start'[x] = start[x]
    BY <1>1, <1>5
  <2> QED
    BY <1>1, <1>2, <1>5, <2>1, <2>2, <2>3, <2>4 DEF PrivateTables
<1>9. Reused'
  BY <1>1, <1>5 DEF Reused
<1>10. Handed'
  <2>1. \A x \in Pid : Shared(x) => start'[x] = start[x] /\ start[x].table # t
    BY <1>1, <1>2, <1>5 DEF Handed
  <2> QED
    BY <1>1, <1>2, <1>5, <2>1 DEF Handed
<1>11. Owned'
  <2>1. ASSUME NEW x \in Table, table_mem'[x] = "live"
        PROVE  \E y \in Pid : \/ Counted(y)' /\ thread_tmps[y].table = x
                              \/ PrivateTable(y)' = x
    <3>1. CASE x = t
      BY <3>1, <1>5
    <3>2. CASE x # t
      <4>1. PICK y \in Pid : (Counted(y) /\ thread_tmps[y].table = x) \/ PrivateTable(y) = x
        BY <3>2, <2>1, <1>2 DEF Owned
      <4>2. y # q
        BY <4>1, <1>5, TracersAssumption
      <4> QED
        BY <4>1, <4>2, <1>5
    <3> QED
      BY <3>1, <3>2
  <2> QED
    BY <2>1, <1>1, <1>5 DEF Owned
<1> QED
  BY <1>6, <1>7, <1>8, <1>9, <1>10, <1>11

LEMMA MemoryRemove ==
  ASSUME TypeInt, Memory, NEW p \in Pid, thread_tmps_remove(p)
  PROVE  Memory'
<1> USE DEF Memory
<1>r. PICK r : r = thread_tmps[p]
  OBVIOUS
<1>1. /\ pc[p] = "remove" /\ Counted(p)
      /\ share_count' = [share_count EXCEPT ![r.cell] = @ - 1]
      /\ thread_tmps' = [thread_tmps EXCEPT ![p] = NoRef]
      /\ pc' = [pc EXCEPT ![p] = IF p = Root THEN "poll" ELSE "finish"]
      /\ UNCHANGED <<start, fd_copy>>
  BY <1>r DEF thread_tmps_remove, Counted, CountedPCs, Goto
<1>2. /\ table_mem' = IF LastRef(r.cell) THEN [table_mem EXCEPT ![r.table] = "freed"] ELSE table_mem
      /\ cell_mem' = IF LastRef(r.cell) THEN [cell_mem EXCEPT ![r.cell] = "freed"] ELSE cell_mem
  BY <1>r DEF thread_tmps_remove
<1>3. /\ r.table \in Table /\ table_mem[r.table] = "live"
      /\ r.cell \in Cell /\ cell_mem[r.cell] = "live"
      /\ Cardinality(Sharers(r.cell) \ {p}) = share_count[r.cell] - 1
      /\ LastRef(r.cell) =>
           \A q \in Pid \ {p} : Counted(q) => /\ thread_tmps[q].table # r.table
                                              /\ thread_tmps[q].cell # r.cell
      /\ ~LastRef(r.cell) =>
           \E q \in Pid \ {p} : Counted(q) /\ thread_tmps[q] = r
  BY <1>1, <1>r, Leaving
<1>4. /\ \A q \in Pid \ {p} : pc'[q] = pc[q] /\ thread_tmps'[q] = thread_tmps[q]
      /\ pc'[p] \in {"poll", "finish"}
      /\ \A x \in Table : table_mem'[x] = IF x = r.table /\ LastRef(r.cell) THEN "freed"
                                         ELSE table_mem[x]
      /\ \A x \in Cell : cell_mem'[x] = IF x = r.cell /\ LastRef(r.cell) THEN "freed"
                                       ELSE cell_mem[x]
  BY <1>1, <1>2, <1>3 DEF TypeInt
<1>5. /\ ~Counted(p)' /\ pc'[p] # "exec_reuse"
      /\ \A q \in Pid \ {p} : Counted(q)' <=> Counted(q)
      /\ \A q \in Pid : Shared(q)' <=> Shared(q)
  BY <1>1, <1>4 DEF Counted, CountedPCs, Shared, Attaching, HandedCount
<1>6. /\ \A q \in Pid : /\ HoldsPrivate(q)' <=> HoldsPrivate(q)
                        /\ PrivateTable(q)' = PrivateTable(q)
      /\ ~HoldsPrivate(p)
  BY <1>1, <1>4 DEF HoldsPrivate, PrivateTable, ExecPCs, Attaching, HandedCount
<1>7. EntryExists' /\ SameTableSameMutex'
  BY <1>4, <1>5 DEF EntryExists, SameTableSameMutex
<1>8. EntryLive'
  BY <1>1, <1>3, <1>4, <1>5 DEF EntryLive, EntryExists
<1>9. Counts'
  <2>1. Sharers(r.cell)' = Sharers(r.cell) \ {p}
    BY <1>1, <1>4, <1>5 DEF Sharers
  <2>2. \A c \in Cell \ {r.cell} : Sharers(c)' = Sharers(c)
    BY <1>1, <1>4, <1>5, <1>r DEF Sharers
  <2>3. /\ share_count'[r.cell] = share_count[r.cell] - 1
        /\ \A c \in Cell \ {r.cell} : share_count'[c] = share_count[c]
    BY <1>1, <1>3 DEF TypeInt
  <2>4. LastRef(r.cell) => share_count'[r.cell] = 0
    BY <2>3 DEF LastRef
  <2> QED
    BY <1>3, <1>4, <2>1, <2>2, <2>3, <2>4, SMTT(30) DEF Counts
<1>10. PrivateTables'
  <2>1. \A q \in Pid : HoldsPrivate(q) => PrivateTable(q) # r.table
    BY <1>1, <1>r DEF PrivateTables
  <2> QED
    BY <1>1, <1>4, <1>5, <1>6, <2>1 DEF PrivateTables
<1>11. Reused'
  <2>1. \A q \in Pid : pc[q] = "exec_reuse" => thread_tmps[q].cell # r.cell
    BY <1>1, <1>r DEF Reused
  <2> QED
    BY <1>1, <1>4, <1>5, <2>1 DEF Reused
<1>12. Handed'
  <2>1. ASSUME NEW q \in Pid, Shared(q), table_mem'[start[q].table] = "live"
        PROVE  \E x \in Pid : Counted(x)' /\ thread_tmps'[x] = start[q]
    <3>1. PICK x \in Pid : Counted(x) /\ thread_tmps[x] = start[q]
      BY <2>1, <1>4 DEF Handed
    <3>2. CASE x # p
      BY <3>1, <3>2, <1>4, <1>5
    <3>3. CASE x = p
      <4>1. ~LastRef(r.cell)
        BY <3>1, <3>3, <2>1, <1>r, <1>3, <1>4
      <4> QED
        BY <4>1, <3>1, <3>3, <1>r, <1>3, <1>4, <1>5
    <3> QED
      BY <3>2, <3>3
  <2> QED
    BY <2>1, <1>1, <1>4, <1>5 DEF Handed
<1>13. Owned'
  <2>1. ASSUME NEW x \in Table, table_mem'[x] = "live"
        PROVE  \E q \in Pid : \/ Counted(q)' /\ thread_tmps'[q].table = x
                              \/ PrivateTable(q)' = x
    <3>1. table_mem[x] = "live"
      BY <2>1, <1>4
    <3>2. PICK q \in Pid : (Counted(q) /\ thread_tmps[q].table = x) \/ PrivateTable(q) = x
      BY <3>1 DEF Owned
    <3>3. CASE q = p /\ thread_tmps[q].table = x
      <4>1. ~LastRef(r.cell)
        BY <3>3, <2>1, <1>r, <1>4
      <4> QED
        BY <4>1, <3>3, <1>r, <1>3, <1>4, <1>5
    <3> QED
      BY <3>2, <3>3, <1>4, <1>5, <1>6
  <2>2. ASSUME NEW c \in Cell, cell_mem'[c] = "live"
        PROVE  \E q \in Pid : /\ Counted(q)' \/ pc'[q] = "exec_reuse"
                              /\ thread_tmps'[q].cell = c
    <3>1. PICK q \in Pid : (Counted(q) \/ pc[q] = "exec_reuse") /\ thread_tmps[q].cell = c
      BY <2>2, <1>4 DEF Owned
    <3>2. CASE q # p
      BY <3>1, <3>2, <1>4, <1>5
    <3>3. CASE q = p
      <4>1. ~LastRef(r.cell)
        BY <2>2, <3>1, <3>3, <1>r, <1>4
      <4> QED
        BY <4>1, <3>1, <3>3, <1>r, <1>3, <1>4, <1>5
    <3> QED
      BY <3>2, <3>3
  <2> QED
    BY <2>1, <2>2 DEF Owned
<1> QED
  BY <1>7, <1>8, <1>9, <1>10, <1>11, <1>12, <1>13

-----------------------------------------------------------------------------
(* Every step.                                                             *)

\* Steps of one thread that stays within its class.
LEMMA MemoryGoto ==
  ASSUME TypeInt, Memory, NEW p \in Pid, NEW l, pc' = [pc EXCEPT ![p] = l],
         UNCHANGED <<start, thread_tmps, fd_copy, mem>>,
         pc[p] \notin ExecPCs, l \notin ExecPCs, pc[p] # "attach", l # "attach",
         pc[p] \in CountedPCs <=> l \in CountedPCs
  PROVE  Memory'
<1>1. pc'[p] = l /\ \A q \in Pid \ {p} : pc'[q] = pc[q]
  BY DEF TypeInt
<1>2. \A q \in Pid : /\ Counted(q)' <=> Counted(q)
                     /\ Attaching(q)' <=> Attaching(q)
                     /\ pc'[q] \in ExecPCs <=> pc[q] \in ExecPCs
                     /\ pc'[q] = "exec_reuse" <=> pc[q] = "exec_reuse"
  BY <1>1 DEF Counted, Attaching, ExecPCs
<1> QED
  BY <1>2, MemoryFrame

\* Steps that move no thread.
LEMMA MemoryStay ==
  ASSUME Memory, UNCHANGED <<pc, start, thread_tmps, fd_copy, mem>>
  PROVE  Memory'
BY MemoryFrame DEF Counted, Attaching

LEMMA MemoryEnvironment ==
  ASSUME TypeInt, Memory, NEW p \in Pid, Environment(p)
  PROVE  Memory'
<1> USE DEF CountedPCs, ExecPCs
<1>1. ASSUME NEW q, NEW files, NEW bit, Spawned(p, q, files, bit)
      PROVE  Memory'
  BY <1>1, MemoryGoto DEF Spawned, Goto
<1>2. CASE \E q \in Pid : clone_event(p, q) \/ fork_event(p, q)
  BY <1>1, <1>2 DEF clone_event, fork_event
<1>3. CASE exit_event(p) \/ kill_event(p)
  BY <1>3, MemoryStay DEF exit_event, kill_event
<1>4. CASE file_call(p) \/ handle_unconsidered_return(p) \/ open_abort(p)
  BY <1>4, MemoryStay DEF file_call, handle_unconsidered_return, open_abort
<1>5. CASE handle_execve_return(p)
  BY <1>5, MemoryGoto DEF handle_execve_return, AtReturn, Goto
<1> QED
  BY <1>2, <1>3, <1>4, <1>5 DEF Environment

LEMMA MemoryThread ==
  ASSUME TypeInt, Control, Memory, NEW p \in Pid, Thread(p)
  PROVE  Memory'
<1> USE DEF CountedPCs, ExecPCs
<1>1. CASE exec_copy(p) \/ exec_release(p)
  BY <1>1, MemoryCopy, MemoryRelease
<1>2. CASE exec_reuse(p) \/ exec_new(p)
  BY <1>2, MemoryReuse, MemoryNew
<1>3. CASE threads_add(p)
  BY <1>3, MemoryAddShared, MemoryAddCopy
<1>4. CASE threads_prepend(p)
  BY <1>4, MemoryGoto DEF threads_prepend, Goto
<1>5. CASE thread_tmps_insert(p)
  BY <1>5, MemoryInsertOwn, MemoryInsertHanded
<1>6. CASE insert_dangling(p)
  BY <1>6, MemoryStay DEF insert_dangling
<1>7. CASE wait_exited(p) \/ wait_signaled(p) \/ wait_uninitialised(p)
  BY <1>7, MemoryGoto DEF wait_exited, wait_signaled, wait_uninitialised, Goto
<1>8. CASE file_state_merge(p) \/ syscall_stat_merge(p)
  BY <1>8, MemoryGoto DEF file_state_merge, syscall_stat_merge, Goto
<1>9. CASE thread_tmps_remove(p)
  BY <1>9, MemoryRemove
<1>10. CASE thread_func_dec(p) \/ thread_func_return(p)
  BY <1>10, MemoryGoto DEF thread_func_dec, thread_func_return, Goto
<1> QED
  BY <1>1, <1>2, <1>3, <1>4, <1>5, <1>6, <1>7, <1>8, <1>9, <1>10 DEF Thread

LEMMA MemoryMain ==
  ASSUME TypeInt, Memory, Main
  PROVE  Memory'
BY MemoryGoto, TracersAssumption
   DEF Main, main_poll, main_join, main_print, Goto, CountedPCs, ExecPCs

LEMMA MemoryUnchanged ==
  ASSUME Memory, UNCHANGED vars
  PROVE  Memory'
BY MemoryStay DEF vars

\* What Memory says in terms of the properties.
LEMMA MemoryImplies ==
  ASSUME TypeInt, Memory
  PROVE  /\ EntryLive /\ SameTableSameMutex /\ ShareCountExact /\ NoLeak
         /\ share_count \in [Cell -> Nat]
<1>1. EntryLive /\ SameTableSameMutex /\ ShareCountExact
  BY DEF Memory, Counts, ShareCountExact
<1>2. NoLeak
  <2>1. ASSUME NEW t \in Table, table_mem[t] = "live"
        PROVE  \E p \in Pid : t \in {thread_tmps[p].table, start[p].table, fd_copy[p]}
    <3>1. PICK p \in Pid : (Counted(p) /\ thread_tmps[p].table = t) \/ PrivateTable(p) = t
      BY <2>1 DEF Memory, Owned
    <3>2. PrivateTable(p) \in {fd_copy[p], start[p].table, None}
      BY DEF PrivateTable
    <3> QED
      BY <3>1, <3>2, TracersAssumption
  <2>2. \A c \in Cell : cell_mem[c] = "live" => \E p \in Pid : thread_tmps[p].cell = c
    BY DEF Memory, Owned
  <2> QED
    BY <2>1, <2>2 DEF NoLeak
<1>3. \A c \in Cell : share_count[c] \in Nat
  BY SharersFinite DEF Memory, Counts
<1>4. share_count \in [Cell -> Nat]
  BY <1>3 DEF TypeInt
<1> QED
  BY <1>1, <1>2, <1>4

=============================================================================
