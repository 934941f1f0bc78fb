-------------------------- MODULE DescriptorsProof --------------------------
(***************************************************************************)
(* iotrace follows the kernel: the invariant of DescriptorsInv, step by    *)
(* step, and the properties of Descriptors it implies.                     *)
(***************************************************************************)
EXTENDS DescriptorsTypeProof

-----------------------------------------------------------------------------
(* Tables that agree.                                                      *)

LEMMA MirrorsInsert ==
  ASSUME NEW T, NEW K, Mirrors(T, K), NEW f \in Fd, NEW e
  PROVE  Mirrors(Insert(T, f, e), Insert(K, f, e))
BY Numbers DEF Mirrors, Insert

\* The key a failed call leaves is no descriptor.
LEMMA MirrorsPhantom ==
  ASSUME NEW T, NEW K, Mirrors(T, K), NEW f, f \notin Fd, f # -1, NEW e
  PROVE  Mirrors(Insert(T, f, e), K)
BY DEF Mirrors, Insert

LEMMA MirrorsRemove ==
  ASSUME NEW T, NEW K, Mirrors(T, K), NEW f
  PROVE  /\ Mirrors(Remove(T, f), Remove(K, f))
         /\ f \notin DOMAIN K => Mirrors(Remove(T, f), K)
BY DEF Mirrors, Remove

LEMMA MirrorsSweep ==
  ASSUME NEW T, NEW K, Mirrors(T, K)
  PROVE  Mirrors(WithoutCloexec(T), WithoutCloexec(K))
BY DEF Mirrors, WithoutCloexec

\* What iotrace does not consider stays without an entry.
LEMMA MirrorsUntracked ==
  ASSUME NEW T, NEW K, Mirrors(T, K), NEW f \in Fd, f \notin DOMAIN K
  PROVE  Mirrors(T, Insert(K, f, Entry(NULL, FALSE)))
BY DEF Mirrors, Insert, Entry

\* Both tables give a descriptor, or the -1 of a failed call, the same name.
LEMMA MirrorsNamed ==
  ASSUME NEW T, NEW K, Mirrors(T, K), IsTable(K, Fd),
         NEW f, f \in Fd \/ f = -1
  PROVE  Named(T, f) = Named(K, f)
<1>1. CASE f \in Fd
  BY <1>1 DEF Mirrors, Named
<1>2. CASE f = -1
  <2>1. f \notin Fd
    BY <1>2 DEF Fd
  <2> QED  BY <1>2, <2>1 DEF IsTable, Mirrors, Named
<1> QED  BY <1>1, <1>2

-----------------------------------------------------------------------------
(* Groups.                                                                 *)

\* Sharing is symmetric and transitive.
LEMMA Groups ==
  ASSUME TypeInv, Grouped, NEW t \in Task
  PROVE  /\ t \in ksharers[t] /\ t \in sharers[t]
         /\ ksharers[t] \subseteq Task /\ sharers[t] \subseteq Task /\ Partners(t) \subseteq Task
         /\ \A u \in Task : u \in ksharers[t] <=> t \in ksharers[u]
         /\ \A u \in Task : u \in sharers[t] <=> t \in sharers[u]
         /\ \A u \in Task : u \in Partners(t) <=> t \in Partners(u)
         /\ \A u \in ksharers[t] : ksharers[u] = ksharers[t] /\ kernel[u] = kernel[t]
         /\ \A u \in sharers[t] : sharers[u] = sharers[t] /\ fd_table[u] = fd_table[t]
<1>1. /\ \A u \in Task : /\ u \in ksharers[u]
                         /\ \A v \in ksharers[u] : ksharers[v] = ksharers[u] /\ kernel[v] = kernel[u]
      /\ \A u \in Task : /\ u \in sharers[u]
                         /\ \A v \in sharers[u] : sharers[v] = sharers[u] /\ fd_table[v] = fd_table[u]
  BY DEF Grouped, Shared
<1>2. \A u \in Task : ksharers[u] \subseteq Task /\ sharers[u] \subseteq Task
  BY DEF TypeInv, TypeOK
<1>3. /\ \A u \in Task : u \in ksharers[t] <=> t \in ksharers[u]
      /\ \A u \in Task : u \in sharers[t] <=> t \in sharers[u]
  BY <1>1
<1> QED  BY <1>1, <1>2, <1>3 DEF Partners

\* What is pending for a task is not touched by steps that leave it alone.
LEMMA PendingSame ==
  ASSUME NEW v, Pending(v), fd_table'[v] = fd_table[v], kernel'[v] = kernel[v],
         call'[v] = call[v], ret'[v] = ret[v]
  PROVE  Pending(v)'
BY DEF Pending, Missing, OpenedName, PairNames, SeenCloexec

\* So is what it owes.
LEMMA OwesSame ==
  ASSUME NEW v, NEW i, NEW k, fd_table'[v] = fd_table[v],
         call'[v] = call[v], ret'[v] = ret[v], stop'[v] = stop[v]
  PROVE  Owes(v, i, k)' <=> Owes(v, i, k)
BY DEF Owes, OpenedName, PairNames

\* What is known of a task, when neither it nor those it shares a table with are
\* touched.
LEMMA FollowedSame ==
  ASSUME NEW v, Followed(v),
         \A u \in {v} \cup Partners(v) : stop'[u] = stop[u] /\ call'[u] = call[u],
         ret'[v] = ret[v], fd_table'[v] = fd_table[v], kernel'[v] = kernel[v],
         ksharers'[v] = ksharers[v], sharers'[v] = sharers[v]
  PROVE  Followed(v)'
<1>1. /\ Partners(v)' = Partners(v)
      /\ \A u \in {v} \cup Partners(v) : (Leaving(u)' <=> Leaving(u)) /\ (Reading(u)' <=> Reading(u))
  BY DEF Partners, Leaving, Reading
<1>2. ksharers[v] \subseteq {v} \cup Partners(v) /\ sharers[v] \subseteq {v} \cup Partners(v)
  BY DEF Partners
<1>3. SameGroups(v)'
  BY <1>1, <1>2 DEF Followed, SameGroups
<1>4. OneInFlight(v)'
  BY <1>1 DEF Followed, OneInFlight, InFlight, Returning
<1>5. stop'[v] \in Returning => Pending(v)'
  BY PendingSame DEF Followed, Returning
<1>6. Settled(v)'
  BY <1>1 DEF Followed, Settled, Returning
<1> QED  BY <1>3, <1>4, <1>5, <1>6 DEF Followed

-----------------------------------------------------------------------------
(* How far a call reaches that iotrace cannot follow.                      *)

Group(t) == ksharers[t] \cup sharers[t]

\* The group of t with the new tasks on their way to it: Affected, before the step.
Kin(t) == Group(t) \cup {new_child[u] : u \in {v \in Group(t) : stop[v] = "event"}}

\* No table leads out of a set of tasks, now or by a task that is being added.
Sealed(S) ==
  /\ S \subseteq Task
  /\ \A u \in S : Partners(u) \subseteq S /\ stop[u] # "unborn"
  /\ \A c \in Task : stop[c] = "event" => (c \in S <=> new_child[c] \in S)

LEMMA StrayedSealed ==
  ASSUME TypeInv, Grouped
  PROVE  Sealed(strayed)
BY DEF TypeInv, TypeOK, Grouped, Closed, Newborn, Unborn, Sealed

LEMMA KinSealed ==
  ASSUME TypeInv, Grouped, \A v \in Clean : SameGroups(v), NEW t \in Task, stop[t] = "call"
  PROVE  /\ Sealed(strayed \cup Kin(t)) /\ t \in Kin(t)
         /\ t \in strayed => Kin(t) \subseteq strayed
<1>1. /\ t \in ksharers[t] /\ t \in sharers[t] /\ Group(t) \subseteq Task
  BY Groups DEF Group
<1>2. Sealed(strayed)
  BY StrayedSealed
<1>3. ASSUME NEW c \in Task, stop[c] = "event", new_child[c] \in Group(t)
      PROVE  c \in Group(t)
  <2> DEFINE u == new_child[c]
  <2>1. /\ stop[u] = "new" /\ u \in Task
        /\ ksharers[u] = IF call[c].sc = "clone" THEN ksharers[c] ELSE {u}
    BY <1>3 DEF Grouped, Newborn, TypeInv, TypeOK
  <2>2. u # t /\ sharers[u] = {u}
    BY <2>1 DEF Grouped, Unborn
  <2>3. t \in ksharers[u]
    BY <1>3, <2>1, <2>2, Groups DEF Group
  <2>4. t \in ksharers[c]
    BY <2>1, <2>2, <2>3
  <2> QED  BY <2>4, Groups DEF Group
<1>4. ASSUME NEW x \in Group(t), NEW y \in Partners(x)
      PROVE  y \in strayed \cup Group(t)
  <2>1. x \in Task /\ y \in Task /\ x # y
    BY <1>1, <1>4, Groups DEF Partners
  <2>2. CASE x \in strayed
    BY <1>2, <1>4, <2>2 DEF Sealed
  <2>3. CASE x \notin strayed
    <3>1. SameGroups(x)
      BY <2>1, <2>3 DEF Clean
    <3>2. ~Leaving(t) /\ stop[t] # "new"
      BY DEF Leaving
    <3>3. \A z \in Task : stop[z] = "new" => sharers[z] = {z}
      BY DEF Grouped, Unborn
    <3>4. CASE x \in ksharers[t] /\ y \in sharers[x]
      <4>1. ksharers[x] = ksharers[t] /\ t \in ksharers[x]
        BY <3>4, Groups
      <4>2. CASE x = t
        BY <3>4, <4>2 DEF Group
      <4>3. CASE x # t
        <5>1. stop[x] # "new"
          BY <2>1, <3>3, <3>4
        <5>2. t \in sharers[x]
          BY <3>1, <3>2, <4>1, <5>1 DEF SameGroups
        <5>3. x \in sharers[t]
          BY <2>1, <5>2, Groups
        <5>4. sharers[x] = sharers[t]
          BY <5>3, Groups
        <5> QED  BY <3>4, <5>4 DEF Group
      <4> QED  BY <4>2, <4>3
    <3>5. CASE x \in ksharers[t] /\ y \in ksharers[x]
      BY <3>5, Groups DEF Group
    <3>6. CASE x \in sharers[t] /\ y \in sharers[x]
      BY <3>6, Groups DEF Group
    <3>7. CASE x \in sharers[t] /\ y \in ksharers[x] /\ x # t
      <4>1. sharers[x] = sharers[t] /\ t \in sharers[x]
        BY <1>1, <3>7, Groups
      <4>2. ~Leaving(x)
        BY <2>1, <3>1, <3>7 DEF SameGroups
      <4>3. t \in ksharers[x]
        BY <3>1, <3>2, <4>1, <4>2 DEF SameGroups
      <4>4. ksharers[t] = ksharers[x]
        BY <2>1, <4>3, Groups
      <4> QED  BY <3>7, <4>4 DEF Group
    <3> QED  BY <1>4, <3>4, <3>5, <3>6, <3>7 DEF Group, Partners
  <2> QED  BY <2>2, <2>3
<1>5. Kin(t) \subseteq Task /\ t \in Kin(t)
  <2>1. \A c \in Task : new_child[c] \in Task
    BY DEF TypeInv, TypeOK
  <2> QED  BY <1>1, <2>1 DEF Kin, Group
<1>6. ASSUME NEW c \in Task, stop[c] = "event"
      PROVE  c \in Kin(t) <=> new_child[c] \in Kin(t)
  <2>1. c \in Kin(t) => c \in Group(t)
    <3>1. \A d \in Task : stop[d] = "event" => stop[new_child[d]] = "new"
      BY DEF Grouped, Newborn
    <3> QED  BY <1>1, <1>6, <3>1 DEF Kin
  <2>2. c \in Group(t) => new_child[c] \in Kin(t)
    BY <1>6 DEF Kin
  <2>3. ASSUME new_child[c] \in Kin(t)
        PROVE  c \in Group(t)
    <3>1. CASE new_child[c] \in Group(t)
      BY <1>3, <1>6, <3>1
    <3>2. CASE new_child[c] \notin Group(t)
      <4>1. PICK d \in Group(t) : stop[d] = "event" /\ new_child[d] = new_child[c]
        BY <2>3, <3>2 DEF Kin
      <4>2. d = c
        BY <1>1, <1>6, <4>1 DEF Grouped, Newborn
      <4> QED  BY <4>1, <4>2
    <3> QED  BY <3>1, <3>2
  <2> QED  BY <2>1, <2>2, <2>3 DEF Kin
<1>7. ASSUME NEW x \in Kin(t), NEW y \in Partners(x)
      PROVE  y \in strayed \cup Kin(t)
  <2>1. CASE x \in Group(t)
    BY <1>4, <1>7, <2>1 DEF Kin
  <2>2. CASE x \notin Group(t)
    <3>1. PICK d \in Group(t) : stop[d] = "event" /\ x = new_child[d]
      BY <1>7, <2>2 DEF Kin
    <3>2. d \in Task /\ stop[x] = "new" /\ x \in Task
          /\ ksharers[x] = IF call[d].sc = "clone" THEN ksharers[d] ELSE {x}
      BY <1>1, <1>5, <3>1 DEF Grouped, Newborn
    <3>3. sharers[x] = {x}
      BY <3>2 DEF Grouped, Unborn
    <3>4. y \in ksharers[d]
      BY <1>7, <3>2, <3>3 DEF Partners
    <3>5. y = d \/ y \in Partners(d)
      BY <3>4 DEF Partners
    <3> QED  BY <1>4, <3>1, <3>5 DEF Kin
  <2> QED  BY <2>1, <2>2
<1>8. ASSUME NEW x \in Kin(t)
      PROVE  stop[x] # "unborn"
  <2>1. CASE x \in Group(t)
    <3>1. x \in Task /\ (t \in ksharers[x] \/ t \in sharers[x])
      BY <1>1, <2>1, Groups DEF Group
    <3> QED  BY <3>1 DEF Grouped, Unborn
  <2>2. CASE x \notin Group(t)
    <3>1. PICK d \in Group(t) : stop[d] = "event" /\ x = new_child[d]
      BY <1>8, <2>2 DEF Kin
    <3> QED  BY <1>1, <3>1 DEF Grouped, Newborn
  <2> QED  BY <2>1, <2>2
<1>9. Sealed(strayed \cup Kin(t))
  <2> DEFINE S == strayed \cup Kin(t)
  <2>1. S \subseteq Task
    BY <1>2, <1>5 DEF Sealed
  <2>2. \A u \in S : Partners(u) \subseteq S /\ stop[u] # "unborn"
    BY <1>2, <1>7, <1>8 DEF Sealed
  <2>3. \A c \in Task : stop[c] = "event" => (c \in S <=> new_child[c] \in S)
    BY <1>2, <1>6 DEF Sealed
  <2> QED  BY <2>1, <2>2, <2>3 DEF Sealed
<1>10. ASSUME t \in strayed
       PROVE  Kin(t) \subseteq strayed
  <2>1. Group(t) \subseteq strayed
    BY <1>2, <1>10 DEF Sealed, Group, Partners
  <2>2. \A c \in Group(t) : stop[c] = "event" => new_child[c] \in strayed
    BY <1>1, <1>2, <2>1 DEF Sealed
  <2> QED  BY <2>1, <2>2 DEF Kin
<1> QED  BY <1>5, <1>9, <1>10

\* What strays in a step of the kernel.
LEMMA Straying ==
  ASSUME TypeInv, Grouped, \A v \in Clean : SameGroups(v), NEW t \in Task, Follow(t),
         stop' = [stop EXCEPT ![t] = "return"], stop[t] = "call", UNCHANGED new_child
  PROVE  /\ Sealed(strayed')
         /\ t \notin strayed' => strayed' = strayed /\ ~Strays(t)
<1>1. \A u \in Group(t) : u \in Task
  BY Groups DEF Group
<1>2. \A u \in Task : stop'[u] = "event" <=> stop[u] = "event"
  BY DEF TypeInv, TypeOK
<1>3. Affected(t) = Kin(t)
  <2>1. {v \in Group(t) : stop'[v] = "event"} = {v \in Group(t) : stop[v] = "event"}
    BY <1>1, <1>2
  <2>2. Affected(t) = Group(t) \cup {new_child'[u] : u \in {v \in Group(t) : stop'[v] = "event"}}
    BY DEF Affected, Group
  <2> QED  BY <2>1, <2>2 DEF Kin
<1>4. Sealed(strayed) /\ Sealed(strayed \cup Kin(t)) /\ t \in Kin(t)
  BY StrayedSealed, KinSealed
<1>5. CASE t \in strayed \/ Strays(t)
  <2>1. strayed' = strayed \cup Kin(t)
    BY <1>3, <1>5 DEF Follow
  <2> QED  BY <1>4, <2>1
<1>6. CASE ~ (t \in strayed \/ Strays(t))
  <2>1. strayed' = strayed
    BY <1>6 DEF Follow
  <2> QED  BY <1>4, <1>6, <2>1
<1> QED  BY <1>5, <1>6

-----------------------------------------------------------------------------
(* What iotrace owes.                                                      *)

\* What a task owes under a key.
Own(t, k) == {i \in {1, 2} : Owes(t, i, k)}

LEMMA OneTwo ==
  ASSUME NEW S \in SUBSET {1, 2}
  PROVE  IsFiniteSet(S) /\ Cardinality(S) \in Nat
<1>1. IsFiniteSet({1, 2})
  <2>1. IsFiniteSet({1} \cup {2})
    BY FS_Singleton, FS_AddElement, Zenon
  <2>2. {1} \cup {2} = {1, 2}
    OBVIOUS
  <2> QED  BY <2>1, <2>2
<1> QED  BY <1>1, FS_Subset, FS_CardinalityType

\* What is owed is what one task owes and what the others do.
LEMMA OwedSplit ==
  ASSUME NEW t \in Task, NEW O \in SUBSET {1, 2}, NEW R \in SUBSET ((Task \ {t}) \X {1, 2})
  PROVE  /\ Cardinality(R \cup ({t} \X O)) = Cardinality(R) + Cardinality(O)
         /\ Cardinality(R) \in Nat /\ Cardinality(O) \in Nat
<1>1. IsFiniteSet({1, 2}) /\ IsFiniteSet(O) /\ Cardinality(O) \in Nat
  BY OneTwo
<1>2. IsFiniteSet((Task \ {t}) \X {1, 2})
  <2>1. IsFiniteSet(Task \ {t})
    BY DescriptorsAssumption, FS_Subset
  <2> QED  BY <1>1, <2>1, FS_Product
<1>3. IsFiniteSet(R) /\ Cardinality(R) \in Nat
  BY <1>2, FS_Subset, FS_CardinalityType
<1>4. IsFiniteSet({t}) /\ Cardinality({t}) = 1
  BY FS_Singleton
<1>5. IsFiniteSet({t} \X O) /\ Cardinality({t} \X O) = Cardinality(O)
  <2>1. IsFiniteSet({t} \X O) /\ Cardinality({t} \X O) = Cardinality({t}) * Cardinality(O)
    BY <1>1, <1>4, FS_Product
  <2> QED  BY <1>1, <1>4, <2>1
<1>6. R \cap ({t} \X O) = {}
  OBVIOUS
<1>7. Cardinality(R \cup ({t} \X O)) =
        Cardinality(R) + Cardinality({t} \X O) - Cardinality(R \cap ({t} \X O))
  BY <1>3, <1>5, FS_Union
<1>8. Cardinality(R \cap ({t} \X O)) = 0
  BY <1>6, FS_EmptySet, Zenon
<1>9. Cardinality(R \cup ({t} \X O)) = Cardinality(R) + Cardinality({t} \X O)
  <2> DEFINE a == Cardinality(R \cup ({t} \X O))
             b == Cardinality({t} \X O)
             c == Cardinality(R \cap ({t} \X O))
  <2>1. a = Cardinality(R) + b - c /\ c = 0 /\ b \in Nat
    BY <1>1, <1>5, <1>7, <1>8
  <2> HIDE DEF a, b, c
  <2>2. a = Cardinality(R) + b
    BY <1>3, <2>1
  <2> QED  BY <2>2 DEF a, b
<1> QED  BY <1>1, <1>3, <1>5, <1>9, Zenon

\* A step of t that counts what t no longer owes, or takes off what it now owes,
\* keeps the account.
LEMMA CountedStep ==
  ASSUME TypeInv, Counted, NEW t \in Task,
         \A u \in Task \ {t} : \A i \in {1, 2} : \A k \in Ops \X Name : Owes(u, i, k)' <=> Owes(u, i, k),
         \A k \in Ops \X Name :
           credit'[k] = credit[k] + Cardinality(Own(t, k)) - Cardinality(Own(t, k)')
  PROVE  Counted'
<1>1. SUFFICES ASSUME NEW k \in Ops \X Name
               PROVE  credit'[k] = -Cardinality(Owed(k)')
  BY DEF Counted
<1> DEFINE R == {w \in (Task \ {t}) \X {1, 2} : Owes(w[1], w[2], k)}
<1>2. Owed(k) = R \cup ({t} \X Own(t, k))
  BY DEF Owed, Own
<1>3. Owed(k)' = R \cup ({t} \X Own(t, k)')
  BY DEF Owed, Own
<1>4. R \in SUBSET ((Task \ {t}) \X {1, 2})
  OBVIOUS
<1>5. Own(t, k) \in SUBSET {1, 2} /\ Own(t, k)' \in SUBSET {1, 2}
  BY DEF Own
<1> HIDE DEF R
<1>6. /\ Cardinality(Owed(k)) = Cardinality(R) + Cardinality(Own(t, k))
      /\ Cardinality(R) \in Nat /\ Cardinality(Own(t, k)) \in Nat
  BY <1>2, <1>4, <1>5, OwedSplit
<1>7. /\ Cardinality(Owed(k)') = Cardinality(R) + Cardinality(Own(t, k)')
      /\ Cardinality(Own(t, k)') \in Nat
  BY <1>3, <1>4, <1>5, OwedSplit
<1>8. credit[k] = -Cardinality(Owed(k))
  BY DEF Counted
<1> QED  BY <1>6, <1>7, <1>8

\* One that neither owes nor counts.
LEMMA CountedSame ==
  ASSUME Counted, UNCHANGED credit,
         \A u \in Task : \A i \in {1, 2} : \A k \in Ops \X Name : Owes(u, i, k)' <=> Owes(u, i, k)
  PROVE  Counted'
<1>1. SUFFICES ASSUME NEW k \in Ops \X Name
               PROVE  credit'[k] = -Cardinality(Owed(k)')
  BY DEF Counted
<1>2. Owed(k)' = Owed(k)
  BY DEF Owed
<1> QED  BY <1>2 DEF Counted

-----------------------------------------------------------------------------
(* The steps that leave the groups as they are.                            *)

\* A step of t that may change the table it has in the kernel to K and the one
\* it has in iotrace to T.
Stays(t, K, T) ==
  /\ {stop[t], stop'[t]} \subseteq {"user", "call", "return", "removing"}
  /\ UNCHANGED <<ksharers, sharers, new_child>>
  /\ \A u \in Task : kernel'[u] = IF u \in ksharers[t] THEN K ELSE kernel[u]
  /\ \A u \in Task : fd_table'[u] = IF u \in sharers[t] THEN T ELSE fd_table[u]
  /\ \A u \in Task \ {t} : stop'[u] = stop[u] /\ call'[u] = call[u] /\ ret'[u] = ret[u]

LEMMA StaysGrouped ==
  ASSUME TypeInv, Grouped, NEW t \in Task, NEW K, NEW T, Stays(t, K, T), Sealed(strayed'),
         strayed \subseteq strayed',
         K = kernel[t] \/ t \in strayed' \/ ~Races(t)
  PROVE  Grouped'
<1>1. /\ stop[t] \notin {"unborn", "new", "event"} /\ stop'[t] \notin {"unborn", "new", "event"}
      /\ \A u \in Task \ {t} : stop'[u] = stop[u] /\ call'[u] = call[u]
      /\ UNCHANGED <<ksharers, sharers, new_child>>
      /\ \A u \in Task : kernel'[u] = IF u \in ksharers[t] THEN K ELSE kernel[u]
      /\ \A u \in Task : fd_table'[u] = IF u \in sharers[t] THEN T ELSE fd_table[u]
      /\ \A u \in Task : Partners(u)' = Partners(u)
  BY DEF Stays, Partners
<1>2. \A u \in Task : /\ stop'[u] = "unborn" <=> stop[u] = "unborn"
                      /\ stop'[u] = "new" <=> stop[u] = "new"
                      /\ stop'[u] = "event" <=> stop[u] = "event"
  BY <1>1
<1>3. Shared(ksharers, kernel)' /\ Shared(sharers, fd_table)'
  BY <1>1, Groups DEF Grouped, Shared
<1>4. Unborn'
  BY <1>1, <1>2 DEF Grouped, Unborn, Sealed
<1>5. Closed'
  BY <1>1 DEF Sealed, Closed
<1>6. Newborn'
  <2>1. SUFFICES ASSUME NEW c \in Task, stop'[c] = "event"
                 PROVE  LET u == new_child[c] IN
                        /\ stop'[u] = "new" /\ (c \in strayed' <=> u \in strayed')
                        /\ c \in Task \ strayed' => kernel'[u] = kernel'[c]
                        /\ ksharers[u] = IF call'[c].sc = "clone" THEN ksharers[c] ELSE {u}
                        /\ \A d \in Task \ {c} : stop'[d] = "event" => new_child[d] # u
    BY <1>1 DEF Newborn, Clean
  <2> DEFINE u == new_child[c]
  <2>2. c # t /\ stop[c] = "event" /\ call'[c] = call[c]
    BY <1>1, <2>1
  <2>3. /\ stop[u] = "new" /\ u \in Task
        /\ c \in Clean => kernel[u] = kernel[c]
        /\ ksharers[u] = IF call[c].sc = "clone" THEN ksharers[c] ELSE {u}
        /\ \A d \in Task \ {c} : stop[d] = "event" => new_child[d] # u
    BY <2>2 DEF Grouped, Newborn, TypeInv, TypeOK
  <2>4. stop'[u] = "new" /\ \A d \in Task \ {c} : stop'[d] = "event" => new_child[d] # u
    BY <1>2, <2>3
  <2>5. c \in strayed' <=> u \in strayed'
    BY <2>2 DEF Sealed
  <2>6. ASSUME c \notin strayed'
        PROVE  kernel'[u] = kernel'[c]
    <3>1. CASE c \in ksharers[t] /\ K # kernel[t]
      <4>1. c \in Partners(t)
        BY <2>2, <3>1 DEF Partners
      <4>2. ~Races(t)
        BY <2>6, <3>1, <4>1 DEF Sealed
      <4>3. stop[c] \in InFlight /\ ~Reading(c)
        BY <2>2 DEF InFlight, Reading, TypeInv, Registered
      <4> QED  BY <4>1, <4>2, <4>3 DEF Races
    <3>2. CASE c \notin ksharers[t]
      <4>1. u # t /\ c \in ksharers[c] /\ (u \in ksharers[t] => ksharers[u] = ksharers[t])
        BY <1>1, <2>3, Groups
      <4>2. u \notin ksharers[t]
        <5>1. u \in ksharers[t] => t \in ksharers[u]
          BY <2>3, Groups
        <5>2. t \in ksharers[c] => c \in ksharers[t]
          BY Groups
        <5> QED  BY <2>3, <3>2, <4>1, <5>1, <5>2
      <4>3. kernel[u] = kernel[c]
        BY <2>3, <2>6 DEF Clean
      <4> QED  BY <1>1, <2>3, <3>2, <4>2, <4>3
    <3>3. CASE K = kernel[t]
      <4>1. \A v \in Task : kernel'[v] = kernel[v]
        BY <1>1, <3>3, Groups
      <4> QED  BY <2>3, <2>6, <4>1 DEF Clean
    <3> QED  BY <3>1, <3>2, <3>3
  <2> QED  BY <2>2, <2>3, <2>4, <2>5, <2>6
<1> QED  BY <1>3, <1>4, <1>5, <1>6 DEF Grouped

\* Nobody else is touched but those who share a table with t.
LEMMA StaysBeyond ==
  ASSUME TypeInv, Grouped, NEW t \in Task, NEW K, NEW T, Stays(t, K, T),
         NEW v \in Task, v # t, v \notin Partners(t), Followed(v)
  PROVE  Followed(v)'
<1>1. v \notin ksharers[t] /\ v \notin sharers[t]
  BY DEF Partners
<1>2. t \notin Partners(v) /\ Partners(v) \subseteq Task
  BY Groups
<1>3. \A u \in {v} \cup Partners(v) : stop'[u] = stop[u] /\ call'[u] = call[u]
  BY <1>2 DEF Stays
<1> QED  BY <1>1, <1>3, FollowedSame DEF Stays

-----------------------------------------------------------------------------
(* The steps that change who shares a table: execve.                       *)

\* The kernel takes the task out of its group and closes what is marked.
Execs(t) ==
  /\ stop[t] = "call" /\ call[t].sc = "execve" /\ stop' = [stop EXCEPT ![t] = "return"]
  /\ kernel' = [kernel EXCEPT ![t] = WithoutCloexec(@)]
  /\ ksharers' = [u \in Task |-> IF u = t THEN {t} ELSE ksharers[u] \ {t}]
  /\ Returns(t, 0, <<>>)
  /\ UNCHANGED <<new_child, fd_table, sharers, call, credit>>

LEMMA ExecsChange ==
  ASSUME TypeInv, NEW t \in Task, Execs(t)
  PROVE  /\ stop'[t] = "return" /\ \A u \in Task \ {t} : stop'[u] = stop[u] /\ ret'[u] = ret[u]
         /\ kernel'[t] = WithoutCloexec(kernel[t]) /\ ksharers'[t] = {t}
         /\ \A u \in Task \ {t} : kernel'[u] = kernel[u] /\ ksharers'[u] = ksharers[u] \ {t}
BY ReturnsShow DEF Execs, TypeInv, TypeOK

\* A group that t leaves.
LEMMA GroupShrinks ==
  ASSUME NEW group, NEW table, Shared(group, table), \A v \in Task : group[v] \subseteq Task,
         NEW group1, NEW table1, NEW t \in Task, group1[t] = {t},
         \A u \in Task \ {t} : table1[u] = table[u] /\ group1[u] = group[u] \ {t}
  PROVE  Shared(group1, table1)
<1> SUFFICES ASSUME NEW v \in Task
             PROVE  /\ v \in group1[v]
                    /\ \A u \in group1[v] : group1[u] = group1[v] /\ table1[u] = table1[v]
  BY DEF Shared
<1>1. CASE v = t
  BY <1>1
<1>2. CASE v # t
  <2>1. /\ v \in group[v] /\ group[v] \subseteq Task
        /\ \A u \in group[v] : group[u] = group[v] /\ table[u] = table[v]
    BY DEF Shared
  <2>2. group1[v] = group[v] \ {t} /\ table1[v] = table[v]
    BY <1>2
  <2>3. ASSUME NEW u \in group1[v]
        PROVE  group1[u] = group1[v] /\ table1[u] = table1[v]
    <3>1. u \in group[v] /\ u \in Task /\ u # t
      BY <2>1, <2>2, <2>3
    <3>2. group1[u] = group[u] \ {t} /\ table1[u] = table[u]
      BY <3>1
    <3> QED  BY <2>1, <2>2, <3>1, <3>2
  <2> QED  BY <1>2, <2>1, <2>2, <2>3
<1> QED  BY <1>1, <1>2

LEMMA ExecsGrouped ==
  ASSUME TypeInv, Grouped, NEW t \in Task, Execs(t), Sealed(strayed'), strayed \subseteq strayed'
  PROVE  Grouped'
<1>1. /\ stop[t] = "call" /\ call[t].sc = "execve" /\ stop'[t] = "return"
      /\ \A u \in Task \ {t} : stop'[u] = stop[u]
      /\ UNCHANGED <<new_child, fd_table, sharers, call>>
      /\ kernel'[t] = WithoutCloexec(kernel[t]) /\ ksharers'[t] = {t}
      /\ \A u \in Task \ {t} : kernel'[u] = kernel[u] /\ ksharers'[u] = ksharers[u] \ {t}
  BY ExecsChange DEF Execs
<1>2. \A u \in Task : Partners(u)' \subseteq Partners(u)
  BY <1>1, Groups DEF Partners
<1>3. Shared(ksharers', kernel')
  <2>1. Shared(ksharers, kernel) /\ \A v \in Task : ksharers[v] \subseteq Task
    BY Groups DEF Grouped
  <2>2. /\ ksharers'[t] = {t}
        /\ \A u \in Task \ {t} : kernel'[u] = kernel[u] /\ ksharers'[u] = ksharers[u] \ {t}
    BY <1>1
  <2> QED  BY <2>1, <2>2, GroupShrinks
<1>4. Shared(sharers, fd_table)'
  BY <1>1 DEF Grouped, Shared
<1>5. \A u \in Task : /\ stop'[u] = "unborn" <=> stop[u] = "unborn"
                      /\ stop'[u] = "new" <=> stop[u] = "new"
                      /\ stop'[u] = "event" <=> stop[u] = "event"
  BY <1>1
<1>6. Unborn'
  <2>1. \A v \in Task : stop[v] = "unborn" => v # t /\ ksharers'[v] = {v} /\ v \notin strayed'
    BY <1>1 DEF Grouped, Unborn, Sealed
  <2> QED  BY <1>1, <1>5, <2>1 DEF Grouped, Unborn
<1>7. Closed'
  BY <1>2 DEF Sealed, Closed
<1>8. Newborn'
  <2>1. SUFFICES ASSUME NEW c \in Task, stop'[c] = "event"
                 PROVE  LET u == new_child[c] IN
                        /\ stop'[u] = "new" /\ (c \in strayed' <=> u \in strayed')
                        /\ c \in Task \ strayed' => kernel'[u] = kernel'[c]
                        /\ ksharers'[u] = IF call[c].sc = "clone" THEN ksharers'[c] ELSE {u}
                        /\ \A d \in Task \ {c} : stop'[d] = "event" => new_child[d] # u
    BY <1>1 DEF Newborn, Clean
  <2> DEFINE u == new_child[c]
  <2>2. c # t /\ stop[c] = "event"
    BY <1>1, <2>1
  <2>3. /\ stop[u] = "new" /\ u \in Task
        /\ c \in Clean => kernel[u] = kernel[c]
        /\ ksharers[u] = IF call[c].sc = "clone" THEN ksharers[c] ELSE {u}
        /\ \A d \in Task \ {c} : stop[d] = "event" => new_child[d] # u
    BY <2>2 DEF Grouped, Newborn, TypeInv, TypeOK
  <2>4. u # t
    BY <1>1, <2>3
  <2>5. stop'[u] = "new" /\ \A d \in Task \ {c} : stop'[d] = "event" => new_child[d] # u
    BY <1>5, <2>3
  <2>6. c \in strayed' <=> u \in strayed'
    BY <2>2 DEF Sealed
  <2> HIDE DEF u
  <2>7. ksharers'[u] = IF call[c].sc = "clone" THEN ksharers'[c] ELSE {u}
    <3>1. ksharers'[u] = ksharers[u] \ {t} /\ ksharers'[c] = ksharers[c] \ {t}
      BY <1>1, <2>2, <2>3, <2>4
    <3>2. {u} \ {t} = {u}
      BY <2>4
    <3>3. CASE call[c].sc = "clone"
      BY <2>3, <3>1, <3>3
    <3>4. CASE call[c].sc # "clone"
      BY <2>3, <3>1, <3>2, <3>4
    <3> QED  BY <3>3, <3>4
  <2>8. c \notin strayed' => kernel'[u] = kernel'[c]
    BY <1>1, <2>2, <2>3, <2>4 DEF Clean
  <2> QED  BY <2>1, <2>5, <2>6, <2>7, <2>8 DEF u
<1> QED  BY <1>3, <1>4, <1>6, <1>7, <1>8 DEF Grouped

LEMMA ExecsBeyond ==
  ASSUME TypeInv, Grouped, NEW t \in Task, Execs(t),
         NEW v \in Task, v # t, v \notin Partners(t), Followed(v)
  PROVE  Followed(v)'
<1>1. t \notin Partners(v) /\ Partners(v) \subseteq Task
  BY Groups
<1>2. /\ \A u \in Task \ {t} : stop'[u] = stop[u] /\ ret'[u] = ret[u]
      /\ UNCHANGED <<fd_table, sharers, call>> /\ kernel'[v] = kernel[v]
      /\ ksharers'[v] = ksharers[v] \ {t}
  BY ExecsChange DEF Execs
<1>3. ksharers'[v] = ksharers[v]
  BY <1>1, <1>2 DEF Partners
<1> QED  BY <1>1, <1>2, <1>3, FollowedSame

\* iotrace leaves the table for a copy and removes what the kernel closed.
LEMMA ExecReturns ==
  ASSUME TypeInv, NEW t \in Task, handle_execve_return(t)
  PROVE  /\ stop[t] = "return" /\ call[t].sc = "execve" /\ stop'[t] = "user"
         /\ \A u \in Task \ {t} : stop'[u] = stop[u] /\ call'[u] = call[u] /\ ret'[u] = ret[u]
         /\ UNCHANGED <<kernel, ksharers, new_child, credit>>
         /\ fd_table'[t] = WithoutCloexec(fd_table[t]) /\ sharers'[t] = {t}
         /\ \A u \in Task \ {t} : fd_table'[u] = fd_table[u] /\ sharers'[u] = sharers[u] \ {t}
BY DEF handle_execve_return, AtReturn, Done, kvars, TypeInv, TypeOK

LEMMA ExecReturnGrouped ==
  ASSUME TypeInv, Grouped, NEW t \in Task, handle_execve_return(t), UNCHANGED strayed
  PROVE  Grouped'
<1>1. /\ stop[t] = "return" /\ stop'[t] = "user"
      /\ \A u \in Task \ {t} : stop'[u] = stop[u] /\ call'[u] = call[u]
      /\ UNCHANGED <<kernel, ksharers, new_child>>
      /\ fd_table'[t] = WithoutCloexec(fd_table[t]) /\ sharers'[t] = {t}
      /\ \A u \in Task \ {t} : fd_table'[u] = fd_table[u] /\ sharers'[u] = sharers[u] \ {t}
  BY ExecReturns
<1>2. \A u \in Task : Partners(u)' \subseteq Partners(u)
  BY <1>1, Groups DEF Partners
<1>3. Shared(sharers', fd_table')
  <2>1. Shared(sharers, fd_table) /\ \A v \in Task : sharers[v] \subseteq Task
    BY Groups DEF Grouped
  <2> QED  BY <1>1, <2>1, GroupShrinks
<1>4. Shared(ksharers, kernel)'
  BY <1>1 DEF Grouped, Shared
<1>5. \A u \in Task : /\ stop'[u] = "unborn" <=> stop[u] = "unborn"
                      /\ stop'[u] = "new" <=> stop[u] = "new"
                      /\ stop'[u] = "event" <=> stop[u] = "event"
  BY <1>1
<1>6. Unborn'
  <2>1. \A v \in Task : stop[v] \in {"unborn", "new"} => v # t /\ sharers'[v] = {v}
    BY <1>1 DEF Grouped, Unborn
  <2> QED  BY <1>1, <1>5, <2>1 DEF Grouped, Unborn
<1>7. Closed'
  BY <1>2 DEF Grouped, Closed, TypeInv, TypeOK
<1>8. Newborn'
  <2>1. SUFFICES ASSUME NEW c \in Task, stop'[c] = "event"
                 PROVE  LET u == new_child[c] IN
                        /\ stop'[u] = "new" /\ (c \in strayed <=> u \in strayed)
                        /\ c \in Clean => kernel[u] = kernel[c]
                        /\ ksharers[u] = IF call'[c].sc = "clone" THEN ksharers[c] ELSE {u}
                        /\ \A d \in Task \ {c} : stop'[d] = "event" => new_child[d] # u
    BY <1>1 DEF Newborn, Clean
  <2>2. c # t /\ stop[c] = "event" /\ call'[c] = call[c] /\ new_child[c] \in Task
    BY <1>1, <2>1 DEF TypeInv, TypeOK
  <2> QED  BY <1>5, <2>2 DEF Grouped, Newborn
<1> QED  BY <1>3, <1>4, <1>6, <1>7, <1>8 DEF Grouped

LEMMA ExecReturnBeyond ==
  ASSUME TypeInv, Grouped, NEW t \in Task, handle_execve_return(t),
         NEW v \in Task, v # t, v \notin Partners(t), Followed(v)
  PROVE  Followed(v)'
<1>1. t \notin Partners(v) /\ Partners(v) \subseteq Task
  BY Groups
<1>2. sharers'[v] = sharers[v]
  <2>1. sharers'[v] = sharers[v] \ {t}
    BY ExecReturns
  <2> QED  BY <1>1, <2>1 DEF Partners
<1> QED  BY <1>1, <1>2, ExecReturns, FollowedSame

-----------------------------------------------------------------------------
(* The steps that change who shares a table: a new task.                  *)

\* A task that was alone gets the table of t, as a copy or in the group of t.
Grows(group, table, group1, table1, t, u, joined) ==
  /\ joined = group[t] \cup {u} \/ joined = {u}
  /\ Shared(group, table) /\ \A v \in Task : group[v] \subseteq Task
  /\ group[u] = {u} /\ t # u
  /\ \A v \in Task : group1[v] = IF v \in joined THEN joined ELSE group[v]
  /\ \A v \in Task \ {u} : table1[v] = table[v]
  /\ table1[u] = table[t]

\* The groups and the table after it.
Grown(group, group1, table1, t, u, joined) ==
  /\ Shared(group1, table1)
  /\ \A v \in Task \ {u} : v \in joined => v \in group[t] /\ group[v] = group[t]
  /\ \A v \in Task : v # u => group[v] \subseteq group1[v]
  /\ \A v \in Task : v # u /\ v \notin group[t] => group1[v] = group[v]

LEMMA GroupGrows ==
  ASSUME NEW group, NEW table, NEW group1, NEW table1, NEW t \in Task, NEW u \in Task,
         NEW joined, Grows(group, table, group1, table1, t, u, joined)
  PROVE  Grown(group, group1, table1, t, u, joined)
<1>0. /\ joined = group[t] \cup {u} \/ joined = {u}
      /\ Shared(group, table) /\ \A v \in Task : group[v] \subseteq Task
      /\ group[u] = {u} /\ t # u
      /\ \A v \in Task : group1[v] = IF v \in joined THEN joined ELSE group[v]
      /\ \A v \in Task \ {u} : table1[v] = table[v]
      /\ table1[u] = table[t]
  BY DEF Grows
<1>1. \A v \in Task : v \in group[v] /\ \A x \in group[v] : group[x] = group[v] /\ table[x] = table[v]
  BY <1>0 DEF Shared
<1>2. u \notin group[t]
  BY <1>0, <1>1
<1>3. \A v \in Task \ {u} : v \in joined => v \in group[t] /\ group[v] = group[t]
  BY <1>0, <1>1
<1>4. \A v \in Task : v # u => group[v] \subseteq group1[v]
  BY <1>0, <1>3
<1>5. \A v \in Task : v # u /\ v \notin group[t] => group1[v] = group[v]
  BY <1>0, <1>3
<1>6. joined \subseteq Task /\ u \in joined
  BY <1>0
<1>7. ASSUME NEW v \in Task
      PROVE  /\ v \in group1[v]
             /\ \A x \in group1[v] : group1[x] = group1[v] /\ table1[x] = table1[v]
  <2>1. CASE v \in joined
    <3>1. \A x \in joined : group1[x] = joined
      BY <1>0, <1>6
    <3>2. \A x \in joined : table1[x] = table[t]
      BY <1>0, <1>1, <1>3, <1>6
    <3> QED  BY <2>1, <3>1, <3>2
  <2>2. CASE v \notin joined
    <3>1. group1[v] = group[v] /\ v # u
      BY <1>0, <1>6, <2>2
    <3>2. \A x \in group[v] : x \in Task => x \notin joined
      BY <1>0, <1>1, <1>2, <1>3, <2>2, <3>1
    <3>3. \A x \in group[v] : x \in Task /\ x \notin joined /\ x # u
      BY <1>0, <1>6, <3>2
    <3>4. ASSUME NEW x \in group[v]
          PROVE  group1[x] = group[x] /\ table1[x] = table[x]
      BY <1>0, <3>3
    <3>5. table1[v] = table[v]
      BY <1>0, <3>1
    <3> QED  BY <1>1, <3>1, <3>4, <3>5
  <2> QED  BY <2>1, <2>2
<1> QED  BY <1>3, <1>4, <1>5, <1>7 DEF Shared, Grown

\* What is where after the kernel made a task n that shares the table of its
\* creator or has a copy.
LEMMA Clones ==
  ASSUME TypeInv, Grouped, NEW t \in Task, NEW n \in Task, kernel_clone(t, n)
  PROVE  /\ stop[t] = "call" /\ stop[n] = "unborn" /\ t # n
         /\ stop'[t] = "event" /\ stop'[n] = "new"
         /\ \A u \in Task \ {t, n} : stop'[u] = stop[u]
         /\ UNCHANGED <<fd_table, sharers, call, ret, credit, status>>
         /\ \A u \in Task : kernel'[u] = IF u = n THEN kernel[t] ELSE kernel[u]
         /\ \A u \in Task : new_child'[u] = IF u = t THEN n ELSE new_child[u]
         /\ ksharers[n] = {n} /\ sharers[n] = {n} /\ n \notin strayed
         /\ n \notin Group(t) /\ Partners(n) = {}
<1>1. /\ stop[t] = "call" /\ stop[n] = "unborn" /\ t # n
      /\ stop'[t] = "event" /\ stop'[n] = "new"
      /\ \A u \in Task \ {t, n} : stop'[u] = stop[u]
      /\ UNCHANGED <<fd_table, sharers, call, ret, credit, status>>
      /\ \A u \in Task : kernel'[u] = IF u = n THEN kernel[t] ELSE kernel[u]
      /\ \A u \in Task : new_child'[u] = IF u = t THEN n ELSE new_child[u]
  BY DEF kernel_clone, tvars, TypeInv, TypeOK
<1>2. ksharers[n] = {n} /\ sharers[n] = {n} /\ n \notin strayed
  BY <1>1 DEF Grouped, Unborn
<1>3. n \notin ksharers[t] /\ n \notin sharers[t]
  BY <1>1, <1>2, Groups
<1> QED  BY <1>1, <1>2, <1>3 DEF Group, Partners

\* The group of the kernel after it.
Joined(t, n) == IF call[t].sc = "clone" THEN ksharers[t] \cup {n} ELSE {n}

LEMMA ClonesJoin ==
  ASSUME TypeInv, Grouped, NEW t \in Task, NEW n \in Task, kernel_clone(t, n)
  PROVE  /\ Shared(ksharers', kernel')
         /\ \A v \in Task : ksharers'[v] = IF v \in Joined(t, n) THEN Joined(t, n) ELSE ksharers[v]
         /\ \A v \in Task \ {n} : v \in Joined(t, n) => v \in ksharers[t] /\ ksharers[v] = ksharers[t]
         /\ \A v \in Task : v # n => ksharers[v] \subseteq ksharers'[v]
         /\ \A v \in Task : v # n /\ v \notin ksharers[t] => ksharers'[v] = ksharers[v]
         /\ n \in Joined(t, n) /\ Joined(t, n) \subseteq ksharers[t] \cup {n}
         /\ call[t].sc = "clone" => Joined(t, n) = ksharers[t] \cup {n}
         /\ call[t].sc # "clone" => Joined(t, n) = {n}
<1> DEFINE joined == Joined(t, n)
<1>1. /\ joined = ksharers[t] \cup {n} \/ joined = {n}
      /\ call[t].sc = "clone" => joined = ksharers[t] \cup {n}
      /\ call[t].sc # "clone" => joined = {n}
  BY DEF Joined
<1>2. \A v \in Task : ksharers'[v] = IF v \in joined THEN joined ELSE ksharers[v]
  BY DEF kernel_clone, Joined
<1> HIDE DEF joined
<1>3. Grows(ksharers, kernel, ksharers', kernel', t, n, joined)
  <2>1. Shared(ksharers, kernel) /\ \A v \in Task : ksharers[v] \subseteq Task
    BY Groups DEF Grouped
  <2>2. /\ \A v \in Task \ {n} : kernel'[v] = kernel[v]
        /\ kernel'[n] = kernel[t] /\ t # n /\ ksharers[n] = {n}
    BY Clones
  <2> QED  BY <1>1, <1>2, <2>1, <2>2 DEF Grows
<1>4. Grown(ksharers, ksharers', kernel', t, n, joined)
  BY <1>3, GroupGrows, Zenon
<1> QED  BY <1>1, <1>2, <1>4 DEF Grown, joined

\* What strays when a task is made.
LEMMA ClonesStray ==
  ASSUME TypeInv, Grouped, \A v \in Clean : SameGroups(v), NEW t \in Task, NEW n \in Task,
         kernel_clone(t, n), Follow(t)
  PROVE  \/ strayed' = strayed /\ t \notin strayed /\ ~Strays(t)
         \/ \E S : Sealed(S) /\ t \in S /\ strayed \subseteq S /\ strayed' = S \cup {n}
<1>1. Group(t) \subseteq Task /\ t \in Group(t)
  BY Groups DEF Group
<1>2. /\ stop[t] = "call" /\ stop'[t] = "event" /\ n \notin Group(t)
      /\ \A u \in Task \ {t, n} : stop'[u] = stop[u]
      /\ \A u \in Task : new_child'[u] = IF u = t THEN n ELSE new_child[u]
  BY Clones
<1>3. \A u \in Group(t) : stop'[u] = "event" <=> u = t \/ stop[u] = "event"
  BY <1>1, <1>2
<1>4. Affected(t) = Kin(t) \cup {n}
  <2> DEFINE A == {v \in Group(t) : stop'[v] = "event"}
             B == {v \in Group(t) : stop[v] = "event"}
  <2>1. A = B \cup {t} /\ t \notin B /\ B \subseteq Task
    BY <1>1, <1>2, <1>3
  <2>2. Affected(t) = Group(t) \cup {new_child'[u] : u \in A}
    BY DEF Affected, Group
  <2>3. Kin(t) = Group(t) \cup {new_child[u] : u \in B}
    BY DEF Kin
  <2> HIDE DEF A, B
  <2>4. {new_child'[u] : u \in A} = {new_child[u] : u \in B} \cup {n}
    BY <1>2, <2>1
  <2> QED  BY <2>2, <2>3, <2>4
<1>5. Sealed(strayed \cup Kin(t)) /\ t \in Kin(t)
  BY <1>2, KinSealed
<1>6. CASE t \in strayed \/ Strays(t)
  <2>1. strayed' = (strayed \cup Kin(t)) \cup {n}
    BY <1>4, <1>6 DEF Follow
  <2> QED  BY <1>5, <2>1
<1>7. CASE ~ (t \in strayed \/ Strays(t))
  BY <1>7 DEF Follow
<1> QED  BY <1>6, <1>7

LEMMA ClonesGrouped ==
  ASSUME TypeInv, Grouped, NEW t \in Task, NEW n \in Task, kernel_clone(t, n),
         NEW S, Sealed(S), strayed \subseteq S,
         (t \notin S /\ strayed' = S) \/ (t \in S /\ strayed' = S \cup {n})
  PROVE  Grouped'
<1> DEFINE joined == Joined(t, n)
<1>1. /\ stop[t] = "call" /\ stop[n] = "unborn" /\ t # n
      /\ stop'[t] = "event" /\ stop'[n] = "new"
      /\ \A u \in Task \ {t, n} : stop'[u] = stop[u]
      /\ UNCHANGED <<fd_table, sharers, call>>
      /\ \A u \in Task : kernel'[u] = IF u = n THEN kernel[t] ELSE kernel[u]
      /\ \A u \in Task : new_child'[u] = IF u = t THEN n ELSE new_child[u]
      /\ ksharers[n] = {n} /\ sharers[n] = {n} /\ n \notin strayed
  BY Clones
<1>2. /\ Shared(ksharers', kernel')
      /\ \A v \in Task : ksharers'[v] = IF v \in joined THEN joined ELSE ksharers[v]
      /\ \A v \in Task \ {n} : v \in joined => v \in ksharers[t] /\ ksharers[v] = ksharers[t]
      /\ \A v \in Task : v # n /\ v \notin ksharers[t] => ksharers'[v] = ksharers[v]
      /\ n \in joined /\ joined \subseteq ksharers[t] \cup {n}
      /\ call[t].sc = "clone" => joined = ksharers[t] \cup {n}
      /\ call[t].sc # "clone" => joined = {n}
  BY ClonesJoin
<1> HIDE DEF joined
<1>3. t \in ksharers[t] /\ ksharers[t] \subseteq Task /\ n \notin ksharers[t]
  BY <1>1, Groups
<1>4. Shared(sharers, fd_table)'
  BY <1>1 DEF Grouped, Shared
<1>5. n \notin S /\ S \subseteq Task /\ \A v \in Task : v # n => (v \in strayed' <=> v \in S)
  BY <1>1 DEF Sealed
<1>6. Unborn'
  <2>1. SUFFICES ASSUME NEW v \in Task
                 PROVE  /\ stop'[v] = "unborn" => ksharers'[v] = {v} /\ sharers[v] = {v} /\ v \notin strayed'
                        /\ stop'[v] = "new" => /\ sharers[v] = {v}
                                               /\ \E c \in Task : stop'[c] = "event" /\ new_child'[c] = v
    BY <1>1 DEF Unborn
  <2>2. CASE v = n
    BY <1>1, <2>2
  <2>3. CASE v # n /\ stop'[v] = "new"
    <3>1. v # t /\ stop[v] = "new"
      BY <1>1, <2>3
    <3>2. sharers[v] = {v} /\ \E c \in Task : stop[c] = "event" /\ new_child[c] = v
      BY <3>1 DEF Grouped, Unborn
    <3>3. \A c \in Task : stop[c] = "event" => stop'[c] = "event" /\ new_child'[c] = new_child[c]
      BY <1>1
    <3> QED  BY <2>3, <3>2, <3>3
  <2>4. CASE v # n /\ stop'[v] = "unborn"
    <3>1. v # t /\ stop[v] = "unborn" /\ ksharers[v] = {v} /\ sharers[v] = {v}
      BY <1>1, <2>4 DEF Grouped, Unborn
    <3>2. v \notin ksharers[t]
      BY <3>1, Groups
    <3>3. v \notin S
      BY <3>1 DEF Sealed
    <3> QED  BY <1>2, <1>5, <2>4, <3>1, <3>2, <3>3
  <2> QED  BY <2>2, <2>3, <2>4
<1>7. Closed'
  <2>1. SUFFICES ASSUME NEW x \in strayed', NEW y \in Partners(x)'
                 PROVE  y \in strayed'
    BY DEF Closed
  <2>2. Partners(x)' = (ksharers'[x] \cup sharers[x]) \ {x}
    BY <1>1 DEF Partners
  <2>3. t \in S => ksharers[t] \subseteq S
    BY DEF Sealed, Partners
  <2>4. CASE x = n
    <3>1. y \in joined /\ y # n
      BY <1>1, <1>2, <2>2, <2>4
    <3>2. t \in S
      BY <1>5, <2>4
    <3> QED  BY <1>2, <2>3, <3>1, <3>2
  <2>5. CASE x # n /\ x \in joined
    <3>1. x \in S /\ x \in Task /\ x \in ksharers[t]
      BY <1>2, <1>3, <1>5, <2>5
    <3>2. t \in S
      <4>1. t \in ksharers[x]
        BY <3>1, Groups
      <4> QED  BY <3>1, <4>1 DEF Sealed, Partners
    <3>3. ksharers'[x] = joined /\ sharers[x] \subseteq S
      BY <1>2, <2>5, <3>1 DEF Sealed, Partners
    <3> QED  BY <1>2, <2>2, <2>3, <3>2, <3>3
  <2>6. CASE x # n /\ x \notin joined
    <3>1. x \in S /\ x \in Task
      BY <1>5, <2>6
    <3>2. Partners(x)' = Partners(x)
      BY <1>2, <2>2, <2>6, <3>1 DEF Partners
    <3> QED  BY <3>1, <3>2 DEF Sealed
  <2> QED  BY <2>4, <2>5, <2>6
<1>8. Newborn'
  <2>1. SUFFICES ASSUME NEW c \in Task, stop'[c] = "event"
                 PROVE  LET u == new_child'[c] IN
                        /\ stop'[u] = "new" /\ (c \in strayed' <=> u \in strayed')
                        /\ c \in Task \ strayed' => kernel'[u] = kernel'[c]
                        /\ ksharers'[u] = IF call[c].sc = "clone" THEN ksharers'[c] ELSE {u}
                        /\ \A d \in Task \ {c} : stop'[d] = "event" => new_child'[d] # u
    BY <1>1 DEF Newborn, Clean
  <2>2. c # n
    BY <1>1, <2>1
  <2>3. CASE c = t
    <3>1. new_child'[c] = n /\ kernel'[n] = kernel'[t]
      BY <1>1, <2>3
    <3>2. ksharers'[n] = IF call[t].sc = "clone" THEN ksharers'[t] ELSE {n}
      BY <1>2, <1>3
    <3>3. ASSUME NEW d \in Task \ {c}, stop'[d] = "event"
          PROVE  new_child'[d] # n
      <4>1. d # n /\ stop[d] = "event" /\ new_child'[d] = new_child[d]
        BY <1>1, <2>3, <3>3
      <4>2. stop[new_child[d]] = "new"
        BY <4>1 DEF Grouped, Newborn
      <4> QED  BY <1>1, <4>1, <4>2
    <3>4. t \in strayed' <=> n \in strayed'
      BY <1>5
    <3> QED  BY <1>1, <2>3, <3>1, <3>2, <3>3, <3>4
  <2>4. CASE c # t
    <3> DEFINE u == new_child[c]
    <3>1. stop[c] = "event" /\ new_child'[c] = u /\ u \in Task
      BY <1>1, <2>1, <2>2, <2>4 DEF TypeInv, TypeOK
    <3>2. /\ stop[u] = "new" /\ (c \in Clean => kernel[u] = kernel[c])
          /\ ksharers[u] = IF call[c].sc = "clone" THEN ksharers[c] ELSE {u}
          /\ \A d \in Task \ {c} : stop[d] = "event" => new_child[d] # u
      BY <3>1 DEF Grouped, Newborn
    <3>3. c \in S <=> u \in S
      BY <3>1 DEF Sealed
    <3> HIDE DEF u
    <3>4. u # t /\ u # n
      BY <1>1, <3>2
    <3>5. c \in strayed' <=> u \in strayed'
      BY <1>5, <2>2, <3>1, <3>3, <3>4
    <3>6. ksharers'[u] = IF call[c].sc = "clone" THEN ksharers'[c] ELSE {u}
      <4>1. CASE call[c].sc = "clone"
        <5>1. u \in ksharers[t] <=> c \in ksharers[t]
          BY <3>1, <3>2, <4>1, Groups
        <5>2. u \in joined <=> c \in joined
          BY <1>2, <2>2, <3>1, <3>4, <5>1
        <5> QED  BY <1>2, <3>1, <3>2, <4>1, <5>2
      <4>2. CASE call[c].sc # "clone"
        <5>1. ksharers[u] = {u} /\ u \notin ksharers[t]
          BY <3>1, <3>2, <3>4, <4>2, Groups
        <5> QED  BY <1>2, <3>1, <3>4, <4>2, <5>1
      <4> QED  BY <4>1, <4>2
    <3>7. c \notin strayed' => kernel'[u] = kernel'[c]
      BY <1>1, <1>5, <2>2, <3>1, <3>2, <3>4 DEF Clean
    <3>8. \A d \in Task \ {c} : stop'[d] = "event" => new_child'[d] # u
      BY <1>1, <3>2, <3>4
    <3>9. stop'[u] = "new"
      BY <1>1, <3>1, <3>2, <3>4
    <3> QED  BY <3>1, <3>5, <3>6, <3>7, <3>8, <3>9
  <2> QED  BY <2>3, <2>4
<1> QED  BY <1>2, <1>4, <1>6, <1>7, <1>8 DEF Grouped

LEMMA ClonesBeyond ==
  ASSUME TypeInv, Grouped, NEW t \in Task, NEW n \in Task, kernel_clone(t, n),
         NEW v \in Task, v # t, v # n, v \notin Partners(t), Followed(v)
  PROVE  Followed(v)'
<1>1. t \notin Partners(v) /\ n \notin Partners(v) /\ Partners(v) \subseteq Task
  <2>1. Partners(n) = {}
    BY Clones
  <2> QED  BY <2>1, Groups
<1>2. ksharers'[v] = ksharers[v]
  BY ClonesJoin DEF Partners
<1>3. /\ \A u \in Task \ {t, n} : stop'[u] = stop[u]
      /\ UNCHANGED <<fd_table, sharers, call, ret>> /\ kernel'[v] = kernel[v]
  BY Clones
<1> QED  BY <1>1, <1>2, <1>3, FollowedSame

\* What is where after iotrace gave the new task the table of its creator or a
\* copy.
Given(t) == IF call[t].sc = "clone" THEN sharers[t] \cup {new_child[t]} ELSE {new_child[t]}

LEMMA Adds ==
  ASSUME TypeInv, Grouped, NEW t \in Task, threads_add(t)
  PROVE  /\ stop[t] = "event" /\ new_child[t] \in Task /\ t # new_child[t] /\ stop[new_child[t]] = "new"
         /\ call[t].sc \in {"clone", "fork"}
         /\ t \in Clean => kernel[new_child[t]] = kernel[t]
         /\ t \in strayed <=> new_child[t] \in strayed
         /\ ksharers[new_child[t]] = IF call[t].sc = "clone" THEN ksharers[t] ELSE {new_child[t]}
         /\ \A d \in Task \ {t} : stop[d] = "event" => new_child[d] # new_child[t]
         /\ stop'[t] = "return" /\ stop'[new_child[t]] = "user"
         /\ \A u \in Task \ {t, new_child[t]} : stop'[u] = stop[u]
         /\ UNCHANGED <<kernel, ksharers, new_child, call, ret, credit, status>>
         /\ \A u \in Task : fd_table'[u] = IF u = new_child[t] THEN fd_table[t] ELSE fd_table[u]
         /\ \A u \in Task : sharers'[u] = IF u \in Given(t) THEN Given(t) ELSE sharers[u]
         /\ sharers[new_child[t]] = {new_child[t]} /\ new_child[t] \notin sharers[t]
<1> DEFINE n == new_child[t]
<1>1. /\ stop[t] = "event" /\ n \in Task /\ stop[n] = "new" /\ call[t].sc \in {"clone", "fork"}
      /\ t \in Clean => kernel[n] = kernel[t]
      /\ t \in strayed <=> n \in strayed
      /\ ksharers[n] = IF call[t].sc = "clone" THEN ksharers[t] ELSE {n}
      /\ \A d \in Task \ {t} : stop[d] = "event" => new_child[d] # n
  BY DEF threads_add, Grouped, Newborn, TypeInv, TypeOK, Registered
<1>2. /\ stop' = [stop EXCEPT ![t] = "return", ![n] = "user"]
      /\ fd_table' = [fd_table EXCEPT ![n] = fd_table[t]]
      /\ sharers' = [v \in Task |-> IF v \in Given(t) THEN Given(t) ELSE sharers[v]]
      /\ UNCHANGED <<kernel, ksharers, new_child, call, ret, credit, status>>
  BY DEF threads_add, kvars, Given
<1>3. /\ t # n /\ stop'[t] = "return" /\ stop'[n] = "user"
      /\ \A u \in Task \ {t, n} : stop'[u] = stop[u]
  BY <1>1, <1>2 DEF TypeInv, TypeOK
<1>4. /\ \A u \in Task : fd_table'[u] = IF u = n THEN fd_table[t] ELSE fd_table[u]
      /\ \A u \in Task : sharers'[u] = IF u \in Given(t) THEN Given(t) ELSE sharers[u]
  BY <1>2 DEF TypeInv, TypeOK
<1>5. sharers[n] = {n}
  BY <1>1 DEF Grouped, Unborn
<1>6. n \notin sharers[t]
  BY <1>1, <1>3, <1>5, Groups
<1> QED  BY <1>1, <1>2, <1>3, <1>4, <1>5, <1>6

LEMMA AddsJoin ==
  ASSUME TypeInv, Grouped, NEW t \in Task, threads_add(t)
  PROVE  /\ Shared(sharers', fd_table')
         /\ \A v \in Task \ {new_child[t]} : v \in Given(t) => v \in sharers[t] /\ sharers[v] = sharers[t]
         /\ \A v \in Task : v # new_child[t] => sharers[v] \subseteq sharers'[v]
         /\ \A v \in Task : v # new_child[t] /\ v \notin sharers[t] => sharers'[v] = sharers[v]
         /\ new_child[t] \in Given(t) /\ sharers'[new_child[t]] = Given(t)
         /\ Given(t) \subseteq sharers[t] \cup {new_child[t]}
         /\ call[t].sc = "clone" => Given(t) = sharers[t] \cup {new_child[t]}
         /\ call[t].sc # "clone" => Given(t) = {new_child[t]}
<1> DEFINE n == new_child[t]
           joined == Given(t)
<1>1. /\ joined = sharers[t] \cup {n} \/ joined = {n}
      /\ call[t].sc = "clone" => joined = sharers[t] \cup {n}
      /\ call[t].sc # "clone" => joined = {n}
  BY DEF Given
<1>2. n \in Task /\ \A v \in Task : sharers'[v] = IF v \in joined THEN joined ELSE sharers[v]
  BY Adds
<1> HIDE DEF joined
<1>3. Grows(sharers, fd_table, sharers', fd_table', t, n, joined)
  <2>1. Shared(sharers, fd_table) /\ \A v \in Task : sharers[v] \subseteq Task
    BY Groups DEF Grouped
  <2>2. /\ \A u \in Task : fd_table'[u] = IF u = n THEN fd_table[t] ELSE fd_table[u]
        /\ t # n /\ sharers[n] = {n}
    BY Adds
  <2>3. /\ \A v \in Task \ {n} : fd_table'[v] = fd_table[v]
        /\ fd_table'[n] = fd_table[t]
    BY <1>2, <2>2
  <2> QED  BY <1>1, <1>2, <2>1, <2>2, <2>3 DEF Grows
<1>4. Grown(sharers, sharers', fd_table', t, n, joined)
  BY <1>2, <1>3, GroupGrows, Zenon
<1> QED  BY <1>1, <1>2, <1>4 DEF Grown, joined

LEMMA AddsGrouped ==
  ASSUME TypeInv, Grouped, NEW t \in Task, threads_add(t), UNCHANGED strayed
  PROVE  Grouped'
<1> DEFINE n == new_child[t]
           joined == Given(t)
<1>1. /\ stop[t] = "event" /\ n \in Task /\ t # n /\ stop[n] = "new"
      /\ t \in strayed <=> n \in strayed
      /\ \A d \in Task \ {t} : stop[d] = "event" => new_child[d] # n
      /\ stop'[t] = "return" /\ stop'[n] = "user"
      /\ \A u \in Task \ {t, n} : stop'[u] = stop[u]
      /\ UNCHANGED <<kernel, ksharers, new_child, call>>
      /\ \A u \in Task : sharers'[u] = IF u \in joined THEN joined ELSE sharers[u]
      /\ sharers[n] = {n} /\ n \notin sharers[t]
  BY Adds
<1>2. /\ Shared(sharers', fd_table')
      /\ \A v \in Task \ {n} : v \in joined => v \in sharers[t] /\ sharers[v] = sharers[t]
      /\ \A v \in Task : v # n /\ v \notin sharers[t] => sharers'[v] = sharers[v]
      /\ joined \subseteq sharers[t] \cup {n}
  BY AddsJoin
<1> HIDE DEF joined
<1>3. Shared(ksharers, kernel)'
  BY <1>1 DEF Grouped, Shared
<1>4. Unborn'
  <2>1. SUFFICES ASSUME NEW v \in Task
                 PROVE  /\ stop'[v] = "unborn" => ksharers[v] = {v} /\ sharers'[v] = {v} /\ v \notin strayed
                        /\ stop'[v] = "new" => /\ sharers'[v] = {v}
                                               /\ \E c \in Task : stop'[c] = "event" /\ new_child[c] = v
    BY <1>1 DEF Unborn
  <2>2. ASSUME stop'[v] \in {"unborn", "new"}
        PROVE  v # n /\ v # t /\ stop'[v] = stop[v] /\ sharers[v] = {v} /\ sharers'[v] = {v}
    <3>1. v # n /\ v # t /\ stop'[v] = stop[v]
      BY <1>1, <2>2
    <3>2. sharers[v] = {v}
      BY <2>2, <3>1 DEF Grouped, Unborn
    <3>3. v \notin sharers[t]
      BY <3>1, <3>2, Groups
    <3> QED  BY <1>2, <3>1, <3>2, <3>3
  <2>3. CASE stop'[v] = "new"
    <3>1. PICK c \in Task : stop[c] = "event" /\ new_child[c] = v
      BY <2>2, <2>3 DEF Grouped, Unborn
    <3>2. c # t /\ c # n
      BY <1>1, <2>2, <2>3, <3>1
    <3> QED  BY <1>1, <2>2, <2>3, <3>1, <3>2
  <2>4. CASE stop'[v] = "unborn"
    BY <2>2, <2>4 DEF Grouped, Unborn
  <2> QED  BY <2>3, <2>4
<1>5. Closed'
  <2>1. SUFFICES ASSUME NEW x \in strayed, NEW y \in Partners(x)'
                 PROVE  y \in strayed
    BY DEF Closed
  <2>2. x \in Task /\ Partners(x)' = (ksharers[x] \cup sharers'[x]) \ {x}
    BY <1>1 DEF Partners, TypeInv, TypeOK
  <2>3. Sealed(strayed)
    BY StrayedSealed
  <2>4. CASE y \in ksharers[x]
    BY <2>2, <2>3, <2>4 DEF Sealed, Partners
  <2>5. CASE y \in sharers'[x] /\ x \notin joined
    BY <1>1, <2>2, <2>3, <2>5 DEF Sealed, Partners
  <2>6. CASE y \in joined /\ x \in joined /\ x # y
    <3>1. x # n => x \in sharers[t] /\ t \in sharers[x]
      BY <1>2, <2>2, <2>6, Groups
    <3>2. t \in strayed
      BY <1>1, <2>3, <3>1 DEF Sealed, Partners
    <3>3. sharers[t] \subseteq strayed /\ n \in strayed
      BY <1>1, <2>3, <3>2 DEF Sealed, Partners
    <3> QED  BY <1>2, <2>6, <3>3
  <2> QED  BY <1>1, <2>2, <2>4, <2>5, <2>6
<1>6. Newborn'
  <2>1. SUFFICES ASSUME NEW c \in Task, stop'[c] = "event"
                 PROVE  LET u == new_child[c] IN
                        /\ stop'[u] = "new" /\ (c \in strayed <=> u \in strayed)
                        /\ c \in Clean => kernel[u] = kernel[c]
                        /\ ksharers[u] = IF call[c].sc = "clone" THEN ksharers[c] ELSE {u}
                        /\ \A d \in Task \ {c} : stop'[d] = "event" => new_child[d] # u
    BY <1>1 DEF Newborn, Clean
  <2>2. c # t /\ c # n /\ stop[c] = "event"
    BY <1>1, <2>1
  <2> DEFINE u == new_child[c]
  <2>3. /\ stop[u] = "new" /\ (c \in strayed <=> u \in strayed)
        /\ c \in Clean => kernel[u] = kernel[c]
        /\ u \in Task
        /\ ksharers[u] = IF call[c].sc = "clone" THEN ksharers[c] ELSE {u}
        /\ \A d \in Task \ {c} : stop[d] = "event" => new_child[d] # u
    BY <2>2 DEF Grouped, Newborn, TypeInv, TypeOK
  <2>4. u # n /\ u # t
    BY <1>1, <2>2, <2>3
  <2>5. \A d \in Task : stop'[d] = "event" => stop[d] = "event"
    BY <1>1
  <2> QED  BY <1>1, <2>3, <2>4, <2>5
<1> QED  BY <1>2, <1>3, <1>4, <1>5, <1>6 DEF Grouped

LEMMA AddsBeyond ==
  ASSUME TypeInv, Grouped, NEW t \in Task, threads_add(t),
         NEW v \in Task, v # t, v # new_child[t], v \notin Partners(t), Followed(v)
  PROVE  Followed(v)'
<1> DEFINE n == new_child[t]
<1>1. /\ n \in Task /\ stop[t] = "event" /\ t # n
      /\ ksharers[n] = IF call[t].sc = "clone" THEN ksharers[t] ELSE {n}
      /\ \A u \in Task \ {t, n} : stop'[u] = stop[u]
      /\ UNCHANGED <<kernel, ksharers, call, ret>>
      /\ \A u \in Task : fd_table'[u] = IF u = n THEN fd_table[t] ELSE fd_table[u]
      /\ sharers[n] = {n}
  BY Adds
<1>2. sharers'[v] = sharers[v]
  <2>1. v \notin sharers[t]
    BY DEF Partners
  <2> QED  BY <2>1, AddsJoin
<1> HIDE DEF n
<1>3. t \notin Partners(v) /\ n \notin Partners(v) /\ Partners(v) \subseteq Task
  <2>1. v \notin ksharers[n] /\ v \notin sharers[n]
    BY <1>1 DEF Partners, n
  <2>2. v \notin Partners(n)
    BY <2>1 DEF Partners
  <2> QED  BY <1>1, <2>2, Groups
<1> QED  BY <1>1, <1>2, <1>3, FollowedSame DEF n

-----------------------------------------------------------------------------
(* What is known of a task after a step that iotrace follows.              *)

\* The kernel executes a call of t that races with no other.
KernelKeeps(t, K) ==
  /\ Stays(t, K, fd_table[t]) /\ UNCHANGED call
  /\ stop[t] = "call" /\ stop'[t] = "return"
  /\ ~Races(t)
  /\ Reading(t) => K = kernel[t]
  /\ call[t].sc = "execve" => ksharers[t] = {t}

LEMMA KernelKeepsFollows ==
  ASSUME TypeInv, Grouped, NEW t \in Task, NEW K, KernelKeeps(t, K), Pending(t)',
         NEW v \in Task, Followed(v)
  PROVE  Followed(v)'
<1>1. /\ stop[t] = "call" /\ stop'[t] = "return"
      /\ \A u \in Task \ {t} : stop'[u] = stop[u] /\ ret'[u] = ret[u]
      /\ UNCHANGED <<sharers, call, ksharers, new_child>>
      /\ \A u \in Task : kernel'[u] = IF u \in ksharers[t] THEN K ELSE kernel[u]
      /\ ~Races(t) /\ (Reading(t) => K = kernel[t])
      /\ call[t].sc = "execve" => ksharers[t] = {t}
  BY DEF KernelKeeps, Stays
<1>2. \A u \in Task : fd_table'[u] = fd_table[u]
  BY Groups DEF KernelKeeps, Stays
<1>3. /\ \A u \in Task : Partners(u)' = Partners(u)
      /\ \A u \in Task : Reading(u)' <=> Reading(u)
      /\ Partners(v) \subseteq Task /\ ksharers[v] \subseteq Task /\ sharers[v] \subseteq Task
  BY <1>1, Groups DEF Partners, Reading
<1>4. \A u \in Task \ {t} : Leaving(u)' <=> Leaving(u)
  BY <1>1 DEF Leaving
<1>5. ~Leaving(t) /\ (Leaving(t)' => ksharers[t] = {t})
  BY <1>1 DEF Leaving
<1>6. CASE v # t /\ v \notin Partners(t)
  BY <1>6, StaysBeyond DEF KernelKeeps
<1>7. CASE v = t \/ v \in Partners(t)
  <2>1. SameGroups(v)'
    <3>1. /\ \A u \in ksharers[v] : u \in sharers[v] \/ "new" \in {stop[v], stop[u]}
          /\ \A u \in sharers[v] : u \in ksharers[v] \/ Leaving(v) \/ Leaving(u)
          /\ Leaving(v) => ksharers[v] = {v}
      BY DEF Followed, SameGroups
    <3>2. \A u \in Task : (stop[u] = "new" => stop'[u] = "new") /\ (Leaving(u) => Leaving(u)')
      BY <1>1, <1>4, <1>5
    <3>3. Leaving(v)' => ksharers[v] = {v}
      BY <1>4, <1>5, <3>1
    <3> QED  BY <1>1, <1>3, <3>1, <3>2, <3>3 DEF SameGroups
  <2>2. OneInFlight(v)'
    <3>1. SUFFICES ASSUME stop'[v] \in InFlight, NEW u \in Partners(v), stop'[u] \in InFlight
                   PROVE  Reading(v) /\ Reading(u)
      BY <1>3 DEF OneInFlight, InFlight, Returning
    <3>2. u \in Task /\ v \in Partners(u) /\ u # v
      BY <1>3, Groups DEF Partners
    <3>3. CASE v = t
      BY <1>1, <3>1, <3>2, <3>3 DEF Races
    <3>4. CASE u = t
      BY <1>1, <3>1, <3>2, <3>4 DEF Races
    <3>5. CASE v # t /\ u # t
      BY <1>1, <3>1, <3>2, <3>5 DEF Followed, OneInFlight
    <3> QED  BY <3>3, <3>4, <3>5
  <2>3. ASSUME stop'[v] \in Returning
        PROVE  Pending(v)'
    <3>1. CASE v = t
      BY <3>1
    <3>2. CASE v # t
      <4>1. stop[v] \in Returning /\ stop[v] \in InFlight
        BY <1>1, <2>3, <3>2 DEF InFlight
      <4>2. Reading(t)
        BY <1>1, <1>7, <3>2, <4>1 DEF Races
      <4>3. kernel'[v] = kernel[v]
        BY <1>1, <4>2, Groups
      <4> QED  BY <1>1, <1>2, <3>2, <4>1, <4>3, PendingSame DEF Followed
    <3> QED  BY <3>1, <3>2
  <2>4. Settled(v)'
    <3>1. SUFFICES ASSUME stop'[v] \in {"user", "call", "event"},
                          \A u \in Partners(v) : stop'[u] \in Returning => Leaving(u)' \/ Reading(u)
                   PROVE  Mirrors(fd_table'[v], kernel'[v])
      BY <1>3 DEF Settled
    <3>2. v # t /\ t \in Partners(v)
      BY <1>1, <1>7, <3>1, Groups
    <3>3. Leaving(t)' \/ Reading(t)
      BY <1>1, <3>1, <3>2 DEF Returning
    <3>4. kernel'[v] = kernel[v]
      BY <1>1, <1>5, <3>2, <3>3, Groups
    <3>5. \A u \in Partners(v) : stop[u] \in Returning => Leaving(u) \/ Reading(u)
      BY <1>1, <1>3, <1>4, <3>1 DEF Returning
    <3> QED  BY <1>1, <1>2, <3>1, <3>2, <3>4, <3>5 DEF Followed, Settled
  <2> QED  BY <2>1, <2>2, <2>3, <2>4 DEF Followed
<1> QED  BY <1>6, <1>7

\* A handler changes the table of iotrace in place.
HandlerKeeps(t, s, T) ==
  /\ Stays(t, kernel[t], T)
  /\ stop[t] \in Returning /\ stop'[t] = s
  /\ call[t].sc # "execve"
  /\ Reading(t) => T = fd_table[t]
  /\ \/ s = "user" /\ Mirrors(T, kernel[t])
     \/ s \in Returning /\ UNCHANGED call /\ Pending(t)'

LEMMA HandlerKeepsFollows ==
  ASSUME TypeInv, Grouped, NEW t \in Task, NEW s, NEW T, HandlerKeeps(t, s, T), Followed(t),
         NEW v \in Task, Followed(v)
  PROVE  Followed(v)'
<1>1. /\ stop[t] \in Returning /\ stop'[t] = s
      /\ \A u \in Task \ {t} : stop'[u] = stop[u] /\ call'[u] = call[u] /\ ret'[u] = ret[u]
      /\ UNCHANGED <<sharers, ksharers, new_child>>
      /\ \A u \in Task : fd_table'[u] = IF u \in sharers[t] THEN T ELSE fd_table[u]
      /\ Reading(t) => T = fd_table[t]
  BY DEF HandlerKeeps, Stays
<1>2. \A u \in Task : kernel'[u] = kernel[u]
  BY Groups DEF HandlerKeeps, Stays
<1>3. /\ \A u \in Task : Partners(u)' = Partners(u)
      /\ \A u \in Task \ {t} : Reading(u)' <=> Reading(u)
      /\ Partners(v) \subseteq Task /\ ksharers[v] \subseteq Task /\ sharers[v] \subseteq Task
  BY <1>1, Groups DEF Partners, Reading
<1>4. /\ \A u \in Task \ {t} : Leaving(u)' <=> Leaving(u)
      /\ ~Leaving(t) /\ ~Leaving(t)'
  BY <1>1 DEF Leaving, HandlerKeeps, Returning
<1>5. \A u \in Partners(t) : stop[u] \in InFlight => Reading(t) /\ Reading(u)
  BY <1>1 DEF Followed, OneInFlight, InFlight
<1>6. \/ s = "user" /\ Mirrors(T, kernel[t])
      \/ s \in Returning /\ UNCHANGED call /\ Pending(t)'
  BY DEF HandlerKeeps
<1>7. "user" \notin Returning /\ "user" \notin InFlight /\ Returning \subseteq InFlight
  BY DEF Returning, InFlight
<1>8. CASE v # t /\ v \notin Partners(t)
  BY <1>8, StaysBeyond DEF HandlerKeeps
<1>9. CASE v = t \/ v \in Partners(t)
  <2>1. SameGroups(v)'
    <3>1. /\ \A u \in ksharers[v] : u \in sharers[v] \/ "new" \in {stop[v], stop[u]}
          /\ \A u \in sharers[v] : u \in ksharers[v] \/ Leaving(v) \/ Leaving(u)
          /\ Leaving(v) => ksharers[v] = {v}
      BY DEF Followed, SameGroups
    <3>2. \A u \in Task : (stop[u] = "new" => stop'[u] = "new") /\ (Leaving(u) <=> Leaving(u)')
      BY <1>1, <1>4 DEF Returning
    <3> QED  BY <1>1, <1>3, <3>1, <3>2 DEF SameGroups
  <2>2. OneInFlight(v)'
    <3>1. SUFFICES ASSUME stop'[v] \in InFlight, NEW u \in Partners(v), stop'[u] \in InFlight
                   PROVE  Reading(v)' /\ Reading(u)'
      BY <1>3 DEF OneInFlight, InFlight, Returning
    <3>2. u \in Task /\ v \in Partners(u) /\ u # v
      BY <1>3, Groups DEF Partners
    <3>3. CASE v = t \/ u = t
      <4>1. UNCHANGED call
        BY <1>1, <1>6, <1>7, <3>1, <3>3
      <4>2. Reading(v) /\ Reading(u)
        BY <1>1, <1>5, <3>1, <3>2, <3>3
      <4> QED  BY <4>1, <4>2 DEF Reading
    <3>4. CASE v # t /\ u # t
      BY <1>1, <1>3, <3>1, <3>2, <3>4 DEF Followed, OneInFlight
    <3> QED  BY <3>3, <3>4
  <2>3. ASSUME stop'[v] \in Returning
        PROVE  Pending(v)'
    <3>1. CASE v = t
      BY <1>1, <1>6, <1>7, <2>3, <3>1
    <3>2. CASE v # t
      <4>1. stop[v] \in Returning
        BY <1>1, <2>3, <3>2
      <4>2. Reading(t)
        BY <1>5, <1>7, <1>9, <3>2, <4>1
      <4>3. fd_table'[v] = fd_table[v]
        BY <1>1, <4>2, Groups
      <4> QED  BY <1>1, <1>2, <3>2, <4>1, <4>3, PendingSame DEF Followed
    <3> QED  BY <3>1, <3>2
  <2>4. Settled(v)'
    <3>1. SUFFICES ASSUME stop'[v] \in {"user", "call", "event"},
                          \A u \in Partners(v) : stop'[u] \in Returning => Leaving(u)' \/ Reading(u)'
                   PROVE  Mirrors(fd_table'[v], kernel[v])
      BY <1>2, <1>3 DEF Settled
    <3>2. CASE s \in Returning
      <4>1. v # t /\ t \in Partners(v)
        BY <1>1, <1>9, <3>1, <3>2, Groups DEF Returning
      <4>2. Reading(t)
        <5>1. Reading(t)'
          BY <1>1, <1>4, <3>1, <3>2, <4>1
        <5> QED  BY <1>6, <1>7, <3>2, <5>1 DEF Reading
      <4>3. fd_table'[v] = fd_table[v]
        BY <1>1, <4>2, Groups
      <4>4. \A u \in Partners(v) : stop[u] \in Returning => Leaving(u) \/ Reading(u)
        BY <1>1, <1>3, <1>4, <3>1, <4>2
      <4> QED  BY <1>1, <3>1, <4>1, <4>3, <4>4 DEF Followed, Settled
    <3>3. CASE s = "user" /\ Mirrors(T, kernel[t])
      <4>1. CASE v \in sharers[t]
        <5>1. ~Leaving(v)
          <6>1. CASE v = t
            BY <1>4, <6>1
          <6>2. CASE v # t
            BY <1>1, <3>1, <6>2 DEF Leaving
          <6> QED  BY <6>1, <6>2
        <5>2. v \in ksharers[t]
          BY <1>4, <4>1, <5>1 DEF Followed, SameGroups
        <5>3. kernel[v] = kernel[t]
          BY <5>2, Groups
        <5> QED  BY <1>1, <3>3, <4>1, <5>3
      <4>2. CASE v \notin sharers[t]
        <5>1. v # t /\ v \in ksharers[t]
          BY <1>9, <4>2, Groups DEF Partners
        <5>2. stop[t] # "new" /\ stop[v] # "new"
          BY <1>1, <3>1, <5>1 DEF Returning
        <5> QED  BY <4>2, <5>1, <5>2 DEF Followed, SameGroups
      <4> QED  BY <4>1, <4>2
    <3> QED  BY <1>6, <3>2, <3>3
  <2> QED  BY <2>1, <2>2, <2>3, <2>4 DEF Followed
<1> QED  BY <1>8, <1>9

\* The task makes a call.
LEMMA CallStays ==
  ASSUME TypeInv, Grouped, NEW t \in Task, handle_syscall_call(t)
  PROVE  Stays(t, kernel[t], fd_table[t])
BY Groups DEF handle_syscall_call, Stays, kvars, tvars, TypeInv, TypeOK

LEMMA CallKeepsFollows ==
  ASSUME TypeInv, Grouped, NEW t \in Task, handle_syscall_call(t), NEW v \in Task, Followed(v)
  PROVE  Followed(v)'
<1>1. /\ stop[t] = "user" /\ stop'[t] = "call"
      /\ \A u \in Task \ {t} : stop'[u] = stop[u] /\ call'[u] = call[u]
      /\ UNCHANGED <<kernel, ksharers, fd_table, sharers, ret>>
  BY DEF handle_syscall_call, kvars, tvars, TypeInv, TypeOK
<1>2. /\ Partners(v)' = Partners(v) /\ ~Leaving(t) /\ ~Leaving(t)'
      /\ \A u \in Task \ {t} : (Leaving(u)' <=> Leaving(u)) /\ (Reading(u)' <=> Reading(u))
      /\ Partners(v) \subseteq Task /\ ksharers[v] \subseteq Task /\ sharers[v] \subseteq Task
  BY <1>1, Groups DEF Partners, Leaving, Reading
<1>3. /\ stop[t] \notin InFlight /\ stop'[t] \notin InFlight /\ Returning \subseteq InFlight
      /\ \A u \in Task : stop'[u] = "new" <=> stop[u] = "new"
  BY <1>1 DEF InFlight, Returning
<1>4. SameGroups(v)'
  <2>1. \A u \in Task : Leaving(u)' <=> Leaving(u)
    BY <1>2
  <2> QED  BY <1>1, <1>2, <1>3, <2>1 DEF Followed, SameGroups
<1>5. OneInFlight(v)'
  <2>1. SUFFICES ASSUME stop'[v] \in InFlight, NEW u \in Partners(v), stop'[u] \in InFlight
                 PROVE  Reading(v)' /\ Reading(u)'
    BY <1>2 DEF OneInFlight, InFlight, Returning
  <2>2. v # t /\ u # t /\ u \in Task
    BY <1>2, <1>3, <2>1
  <2> QED  BY <1>1, <1>2, <2>1, <2>2 DEF Followed, OneInFlight
<1>6. stop'[v] \in Returning => Pending(v)'
  BY <1>1, <1>3, PendingSame DEF Followed
<1>7. Settled(v)'
  <2>1. SUFFICES ASSUME stop'[v] \in {"user", "call", "event"},
                        \A u \in Partners(v) : stop'[u] \in Returning => Leaving(u)' \/ Reading(u)'
                 PROVE  Mirrors(fd_table[v], kernel[v])
    BY <1>1, <1>2 DEF Settled
  <2>2. stop[v] \in {"user", "call", "event"}
    BY <1>1, <2>1
  <2>3. \A u \in Partners(v) : stop[u] \in Returning => Leaving(u) \/ Reading(u)
    BY <1>1, <1>2, <1>3, <2>1
  <2> QED  BY <2>2, <2>3 DEF Followed, Settled
<1> QED  BY <1>4, <1>5, <1>6, <1>7 DEF Followed

\* What is pending for execve.
LEMMA PendingExecve ==
  ASSUME NEW t, call[t].sc = "execve"
  PROVE  Pending(t) <=> Mirrors(WithoutCloexec(fd_table[t]), kernel[t])
BY DEF Pending, Openers, WithFlag, WithoutFlag, Pairs, Dups

\* No partner's call is in flight when a call runs that does more than use the
\* table, and races with none.
LEMMA NoneInFlight ==
  ASSUME NEW t, ~Races(t), ~Reading(t)
  PROVE  \A u \in Partners(t) : stop[u] \notin InFlight
BY DEF Races

LEMMA ExecsFollows ==
  ASSUME TypeInv, Grouped, NEW t \in Task, Execs(t), ~Races(t), Followed(t),
         NEW v \in Task, Followed(v)
  PROVE  Followed(v)'
<1>1. /\ stop[t] = "call" /\ call[t].sc = "execve" /\ stop'[t] = "return"
      /\ \A u \in Task \ {t} : stop'[u] = stop[u] /\ ret'[u] = ret[u]
      /\ UNCHANGED <<fd_table, sharers, call>>
      /\ kernel'[t] = WithoutCloexec(kernel[t]) /\ ksharers'[t] = {t}
      /\ \A u \in Task \ {t} : kernel'[u] = kernel[u] /\ ksharers'[u] = ksharers[u] \ {t}
  BY ExecsChange DEF Execs
<1>2. \A u \in Partners(t) : stop[u] \notin InFlight
  BY <1>1, NoneInFlight DEF Reading
<1>3. Leaving(t)' /\ ~Leaving(t) /\ \A u \in Task \ {t} : Leaving(u)' <=> Leaving(u)
  BY <1>1 DEF Leaving
<1>4. \A u \in Task : Partners(u)' \subseteq Partners(u) /\ Partners(u) \subseteq Task
  BY <1>1, Groups DEF Partners
<1>5. \A u : Reading(u)' <=> Reading(u)
  BY <1>1 DEF Reading
<1>6. SameGroups(v)'
  <2>1. /\ \A u \in ksharers[v] : u \in sharers[v] \/ "new" \in {stop[v], stop[u]}
        /\ \A u \in sharers[v] : u \in ksharers[v] \/ Leaving(v) \/ Leaving(u)
        /\ Leaving(v) => ksharers[v] = {v}
    BY DEF Followed, SameGroups
  <2>2. \A u \in Task : stop[u] = "new" => stop'[u] = "new"
    BY <1>1
  <2>3. ksharers[v] \subseteq Task /\ sharers[v] \subseteq Task /\ v \in ksharers[v] /\ v \in sharers[v]
    BY Groups
  <2>4. CASE v = t
    BY <1>1, <1>3, <2>3, <2>4 DEF SameGroups
  <2>5. CASE v # t
    BY <1>1, <1>3, <2>1, <2>2, <2>3, <2>5 DEF SameGroups
  <2> QED  BY <2>4, <2>5
<1>7. OneInFlight(v)'
  <2>1. SUFFICES ASSUME stop'[v] \in InFlight, NEW u \in Partners(v), stop'[u] \in InFlight
                 PROVE  Reading(v) /\ Reading(u)
    BY <1>4, <1>5 DEF OneInFlight, InFlight, Returning
  <2>2. u \in Task /\ v \in Partners(u) /\ u # v
    BY Groups DEF Partners
  <2>3. v # t /\ u # t
    BY <1>1, <1>2, <2>1, <2>2
  <2> QED  BY <1>1, <2>1, <2>2, <2>3 DEF Followed, OneInFlight
<1>8. ASSUME stop'[v] \in Returning
      PROVE  Pending(v)'
  <2>1. CASE v = t
    <3>1. Mirrors(fd_table[t], kernel[t])
      BY <1>1, <1>2 DEF Followed, Settled, InFlight
    <3>2. Mirrors(WithoutCloexec(fd_table[t])', kernel'[t])
      BY <1>1, <3>1, MirrorsSweep
    <3>3. Pending(t)' <=> Mirrors(WithoutCloexec(fd_table[t])', kernel'[t])
      <4>1. (call[t].sc = "execve")'
        BY <1>1
      <4> QED  BY <4>1 DEF Pending, Openers, WithFlag, WithoutFlag, Pairs, Dups
    <3> QED  BY <2>1, <3>2, <3>3
  <2>2. CASE v # t
    BY <1>1, <1>8, <2>2, PendingSame DEF Followed
  <2> QED  BY <2>1, <2>2
<1>9. Settled(v)'
  <2>1. SUFFICES ASSUME stop'[v] \in {"user", "call", "event"},
                        \A u \in Partners(v)' : stop'[u] \in Returning => Leaving(u)' \/ Reading(u)
                 PROVE  Mirrors(fd_table[v], kernel'[v])
    BY <1>1, <1>5 DEF Settled
  <2>2. v # t
    BY <1>1, <2>1
  <2>3. \A u \in Partners(v) : u = t \/ u \in Partners(v)'
    BY <1>1, <2>2 DEF Partners
  <2>4. \A u \in Partners(v) : stop[u] \in Returning => Leaving(u) \/ Reading(u)
    BY <1>1, <1>3, <1>4, <2>1, <2>3 DEF Returning
  <2> QED  BY <1>1, <2>1, <2>2, <2>4 DEF Followed, Settled
<1> QED  BY <1>6, <1>7, <1>8, <1>9 DEF Followed

LEMMA ExecReturnFollows ==
  ASSUME TypeInv, Grouped, NEW t \in Task, handle_execve_return(t), Followed(t),
         NEW v \in Task, Followed(v)
  PROVE  Followed(v)'
<1>1. /\ stop[t] = "return" /\ call[t].sc = "execve" /\ stop'[t] = "user"
      /\ \A u \in Task \ {t} : stop'[u] = stop[u] /\ call'[u] = call[u] /\ ret'[u] = ret[u]
      /\ UNCHANGED <<kernel, ksharers>>
      /\ fd_table'[t] = WithoutCloexec(fd_table[t]) /\ sharers'[t] = {t}
      /\ \A u \in Task \ {t} : fd_table'[u] = fd_table[u] /\ sharers'[u] = sharers[u] \ {t}
  BY ExecReturns
<1>2. Leaving(t) /\ ~Leaving(t)' /\ \A u \in Task \ {t} : Leaving(u)' <=> Leaving(u)
  BY <1>1 DEF Leaving
<1>3. ksharers[t] = {t}
  BY <1>2 DEF Followed, SameGroups
<1>4. \A u \in Task : Partners(u)' \subseteq Partners(u) /\ Partners(u) \subseteq Task
  BY <1>1, Groups DEF Partners
<1>5. \A u \in Task \ {t} : Reading(u)' <=> Reading(u)
  BY <1>1 DEF Reading
<1>6. SameGroups(v)'
  <2>1. /\ \A u \in ksharers[v] : u \in sharers[v] \/ "new" \in {stop[v], stop[u]}
        /\ \A u \in sharers[v] : u \in ksharers[v] \/ Leaving(v) \/ Leaving(u)
        /\ Leaving(v) => ksharers[v] = {v}
    BY DEF Followed, SameGroups
  <2>2. \A u \in Task : stop[u] = "new" => stop'[u] = "new"
    BY <1>1
  <2>3. /\ ksharers[v] \subseteq Task /\ sharers[v] \subseteq Task
        /\ v \in ksharers[v] /\ v \in sharers[v]
        /\ t \in ksharers[v] => v = t
    BY <1>3, Groups
  <2>4. CASE v = t
    BY <1>1, <1>2, <1>3, <2>3, <2>4 DEF SameGroups
  <2>5. CASE v # t
    BY <1>1, <1>2, <2>1, <2>2, <2>3, <2>5 DEF SameGroups
  <2> QED  BY <2>4, <2>5
<1>7. OneInFlight(v)'
  <2>1. SUFFICES ASSUME stop'[v] \in InFlight, NEW u \in Partners(v), stop'[u] \in InFlight
                 PROVE  Reading(v)' /\ Reading(u)'
    BY <1>4 DEF OneInFlight, InFlight, Returning
  <2>2. u \in Task /\ u # t /\ v # t
    BY <1>1, <1>4, <2>1 DEF InFlight, Returning
  <2> QED  BY <1>1, <1>5, <2>1, <2>2 DEF Followed, OneInFlight
<1>8. Mirrors(fd_table'[t], kernel[t])
  <2>1. Pending(t)
    BY <1>1 DEF Followed, Returning
  <2> QED  BY <1>1, <2>1, PendingExecve
<1>9. ASSUME stop'[v] \in Returning
      PROVE  Pending(v)'
  <2>1. v # t /\ stop[v] \in Returning
    BY <1>1, <1>9 DEF Returning
  <2> QED  BY <1>1, <2>1, PendingSame DEF Followed
<1>10. Settled(v)'
  <2>1. SUFFICES ASSUME stop'[v] \in {"user", "call", "event"},
                        \A u \in Partners(v)' : stop'[u] \in Returning => Leaving(u)' \/ Reading(u)'
                 PROVE  Mirrors(fd_table'[v], kernel[v])
    BY <1>1 DEF Settled
  <2>2. CASE v = t
    BY <1>8, <2>2
  <2>3. CASE v # t
    <3>1. \A u \in Partners(v) : u = t \/ u \in Partners(v)'
      BY <1>1, <2>3 DEF Partners
    <3>2. \A u \in Partners(v) : stop[u] \in Returning => Leaving(u) \/ Reading(u)
      BY <1>1, <1>2, <1>4, <1>5, <2>1, <3>1
    <3> QED  BY <1>1, <2>1, <2>3, <3>2 DEF Followed, Settled
  <2> QED  BY <2>2, <2>3
<1> QED  BY <1>6, <1>7, <1>9, <1>10 DEF Followed

LEMMA ClonesFollows ==
  ASSUME TypeInv, Grouped, NEW t \in Task, NEW n \in Task, kernel_clone(t, n), ~Races(t),
         NEW v \in Task, Followed(v)
  PROVE  Followed(v)'
<1> DEFINE joined == Joined(t, n)
<1>1. /\ stop[t] = "call" /\ stop[n] = "unborn" /\ t # n
      /\ stop'[t] = "event" /\ stop'[n] = "new"
      /\ \A u \in Task \ {t, n} : stop'[u] = stop[u]
      /\ UNCHANGED <<fd_table, sharers, call, ret>>
      /\ \A u \in Task : kernel'[u] = IF u = n THEN kernel[t] ELSE kernel[u]
      /\ ksharers[n] = {n} /\ sharers[n] = {n}
  BY Clones
<1>2. /\ \A w \in Task : ksharers'[w] = IF w \in joined THEN joined ELSE ksharers[w]
      /\ \A w \in Task \ {n} : w \in joined => w \in ksharers[t] /\ ksharers[w] = ksharers[t]
      /\ \A w \in Task : w # n => ksharers[w] \subseteq ksharers'[w]
      /\ \A w \in Task : w # n /\ w \notin ksharers[t] => ksharers'[w] = ksharers[w]
      /\ n \in joined /\ joined \subseteq ksharers[t] \cup {n}
  BY ClonesJoin
<1> HIDE DEF joined
<1>3. /\ \A u \in Task : ksharers[u] \subseteq Task /\ sharers[u] \subseteq Task /\ Partners(u) \subseteq Task
      /\ t \in ksharers[t] /\ n \notin ksharers[t]
  BY <1>1, Groups
<1>4. /\ \A u : Reading(u)' <=> Reading(u)
      /\ \A u \in Task : Leaving(u)' <=> Leaving(u)
  <2>1. \A u \in Task : stop'[u] = "return" <=> stop[u] = "return"
    BY <1>1
  <2> QED  BY <1>1, <2>1 DEF Leaving, Reading
<1>5. \A u \in Partners(t) : stop[u] \notin InFlight
  <2>1. ~Reading(t)
    BY DEF kernel_clone, Reading
  <2> QED  BY <2>1, NoneInFlight
<1>6. \A u \in Task : stop[u] \in InFlight => u \notin ksharers[t] /\ u # n /\ u # t
                                           /\ ksharers'[u] = ksharers[u]
                                           /\ Partners(u)' = Partners(u)
  BY <1>1, <1>2, <1>5 DEF Partners, InFlight, Returning
<1>7. SameGroups(v)'
  <2>1. /\ \A u \in ksharers[v] : u \in sharers[v] \/ "new" \in {stop[v], stop[u]}
        /\ \A u \in sharers[v] : u \in ksharers[v] \/ Leaving(v) \/ Leaving(u)
        /\ Leaving(v) => ksharers[v] = {v}
    BY DEF Followed, SameGroups
  <2>2. \A u \in Task : stop[u] = "new" => stop'[u] = "new"
    BY <1>1
  <2>3. ASSUME NEW u \in ksharers'[v]
        PROVE  u \in sharers[v] \/ "new" \in {stop'[v], stop'[u]}
    <3>1. CASE u = n \/ v = n
      BY <1>1, <3>1
    <3>2. CASE u # n /\ v # n
      <4>1. u \in ksharers[v]
        BY <1>2, <2>3, <3>2
      <4> QED  BY <1>3, <2>1, <2>2, <4>1
    <3> QED  BY <3>1, <3>2
  <2>4. ASSUME NEW u \in sharers[v]
        PROVE  u \in ksharers'[v] \/ Leaving(v)' \/ Leaving(u)'
    <3>1. CASE v = n
      BY <1>1, <1>2, <2>4, <3>1
    <3>2. CASE v # n
      BY <1>2, <1>3, <1>4, <2>1, <2>4, <3>2
    <3> QED  BY <3>1, <3>2
  <2>5. ASSUME Leaving(v)'
        PROVE  ksharers'[v] = {v}
    <3>1. Leaving(v) /\ stop[v] \in InFlight
      BY <1>4, <2>5 DEF Leaving, InFlight, Returning
    <3> QED  BY <1>6, <2>1, <3>1
  <2> QED  BY <1>1, <2>3, <2>4, <2>5 DEF SameGroups
<1>8. OneInFlight(v)'
  <2>1. SUFFICES ASSUME stop'[v] \in InFlight, NEW u \in Partners(v)', stop'[u] \in InFlight
                 PROVE  Reading(v) /\ Reading(u)
    BY <1>4 DEF OneInFlight, InFlight, Returning
  <2>2. stop'[n] \notin InFlight
    BY <1>1 DEF InFlight, Returning
  <2>3. CASE v = t
    <3>1. u \in Partners(t) \/ u = n
      BY <1>1, <1>2, <1>3, <2>1, <2>3 DEF Partners
    <3>2. \A x \in Partners(t) : x # t /\ x \in Task
      BY <1>3 DEF Partners
    <3> QED  BY <1>1, <1>5, <2>1, <2>2, <3>1, <3>2
  <2>4. CASE v # t
    <3>1. v # n /\ stop[v] \in InFlight
      BY <1>1, <2>1, <2>2, <2>4
    <3>2. u \in Partners(v) /\ u \in Task
      BY <1>3, <1>6, <2>1, <3>1
    <3>3. u # t
      BY <1>5, <3>1, <3>2, Groups
    <3> QED  BY <1>1, <2>1, <2>2, <3>1, <3>2, <3>3 DEF Followed, OneInFlight
  <2> QED  BY <2>3, <2>4
<1>9. ASSUME stop'[v] \in Returning
      PROVE  Pending(v)'
  <2>1. v # n /\ stop[v] \in Returning
    BY <1>1, <1>9 DEF Returning
  <2> QED  BY <1>1, <2>1, PendingSame DEF Followed
<1>10. Settled(v)'
  <2>1. SUFFICES ASSUME stop'[v] \in {"user", "call", "event"},
                        \A u \in Partners(v)' : stop'[u] \in Returning => Leaving(u)' \/ Reading(u)
                 PROVE  Mirrors(fd_table[v], kernel'[v])
    BY <1>1, <1>4 DEF Settled
  <2>2. v # n /\ stop[v] \in {"user", "call", "event"} /\ kernel'[v] = kernel[v]
    BY <1>1, <2>1
  <2>3. \A u \in Partners(v) : u \in Partners(v)' /\ u \in Task
    BY <1>1, <1>2, <1>3, <2>2 DEF Partners
  <2>4. \A u \in Task : stop[u] \in Returning => stop'[u] \in Returning
    BY <1>1 DEF Returning
  <2>5. \A u \in Partners(v) : stop[u] \in Returning => Leaving(u) \/ Reading(u)
    BY <1>4, <2>1, <2>3, <2>4
  <2> QED  BY <2>2, <2>5 DEF Followed, Settled
<1> QED  BY <1>7, <1>8, <1>9, <1>10 DEF Followed

LEMMA AddsFollows ==
  ASSUME TypeInv, Grouped, NEW t \in Task, threads_add(t), t \in Clean, Followed(t),
         NEW v \in Task, Followed(v)
  PROVE  Followed(v)'
<1> DEFINE n == new_child[t]
           joined == Given(t)
<1>1. /\ stop[t] = "event" /\ n \in Task /\ t # n /\ stop[n] = "new"
      /\ call[t].sc \in {"clone", "fork"} /\ kernel[n] = kernel[t]
      /\ ksharers[n] = IF call[t].sc = "clone" THEN ksharers[t] ELSE {n}
      /\ stop'[t] = "return" /\ stop'[n] = "user"
      /\ \A u \in Task \ {t, n} : stop'[u] = stop[u]
      /\ UNCHANGED <<kernel, ksharers, call, ret>>
      /\ \A u \in Task : fd_table'[u] = IF u = n THEN fd_table[t] ELSE fd_table[u]
      /\ \A u \in Task : sharers'[u] = IF u \in joined THEN joined ELSE sharers[u]
      /\ sharers[n] = {n} /\ n \notin sharers[t]
  BY Adds
<1>2. /\ \A w \in Task : w # n => sharers[w] \subseteq sharers'[w]
      /\ \A w \in Task : w # n /\ w \notin sharers[t] => sharers'[w] = sharers[w]
      /\ n \in joined /\ sharers'[n] = joined
      /\ joined = sharers[t] \cup {n} \/ joined = {n}
      /\ call[t].sc = "clone" => joined = sharers[t] \cup {n}
      /\ call[t].sc # "clone" => joined = {n}
  BY AddsJoin
<1> HIDE DEF joined, n
<1>3. /\ \A u \in Task : ksharers[u] \subseteq Task /\ sharers[u] \subseteq Task /\ Partners(u) \subseteq Task
      /\ t \in sharers[t] /\ n \in ksharers[n]
  BY <1>1, Groups
<1>4. \A u \in Task : (Leaving(u)' <=> Leaving(u)) /\ (Reading(u)' <=> Reading(u))
  BY <1>1 DEF Leaving, Reading
<1>5. /\ ~Reading(t) /\ stop[t] \in InFlight
      /\ \A u \in Partners(t) : stop[u] \notin InFlight
      /\ \A u \in Task : stop[u] \in InFlight /\ u # t => u \notin sharers[t]
  BY <1>1 DEF Followed, OneInFlight, Partners, InFlight, Reading
<1>6. \A u \in Task : u # n /\ u # t /\ stop[u] \in InFlight
                    => sharers'[u] = sharers[u] /\ Partners(u)' = Partners(u)
  BY <1>1, <1>2, <1>5 DEF Partners
<1>7. SameGroups(v)'
  <2>1. \A w \in {v, t} : /\ \A u \in ksharers[w] : u \in sharers[w] \/ "new" \in {stop[w], stop[u]}
                          /\ \A u \in sharers[w] : u \in ksharers[w] \/ Leaving(w) \/ Leaving(u)
                          /\ Leaving(w) => ksharers[w] = {w}
    BY DEF Followed, SameGroups
  <2>2. \A u \in Task : u # n /\ stop[u] = "new" => stop'[u] = "new"
    BY <1>1
  <2>3. ~Leaving(t) /\ ~Leaving(n)
    BY <1>1 DEF Leaving
  <2>4. ASSUME NEW u \in ksharers[n], u # n
        PROVE  u \in Task /\ call[t].sc = "clone" /\ (u \in sharers[t] \/ stop'[u] = "new")
    <3>1. u \in Task /\ call[t].sc = "clone" /\ u \in ksharers[t]
      BY <1>1, <1>3, <2>4
    <3>2. u \in sharers[t] \/ "new" \in {stop[t], stop[u]}
      BY <2>1, <3>1
    <3> QED  BY <1>1, <2>2, <2>4, <3>1, <3>2
  <2>5. ASSUME NEW u \in ksharers[v]
        PROVE  u \in sharers'[v] \/ "new" \in {stop'[v], stop'[u]}
    <3>1. CASE v = n /\ u = n
      BY <1>2, <3>1
    <3>2. CASE v = n /\ u # n
      BY <1>2, <2>4, <2>5, <3>2
    <3>3. CASE v # n /\ u = n
      <4>1. v \in ksharers[n]
        BY <1>1, <2>5, <3>3, Groups
      <4>2. call[t].sc = "clone" /\ (v \in sharers[t] \/ stop'[v] = "new")
        BY <2>4, <3>3, <4>1
      <4> QED  BY <1>1, <1>2, <3>3, <4>2
    <3>4. CASE v # n /\ u # n
      <4>1. u \in Task
        BY <1>3, <2>5
      <4> QED  BY <1>2, <2>1, <2>2, <2>5, <3>4, <4>1
    <3> QED  BY <3>1, <3>2, <3>3, <3>4
  <2>6. ASSUME NEW u \in sharers[t]
        PROVE  u \in ksharers[t] \/ Leaving(u)
    BY <2>1, <2>3
  <2>7. ASSUME NEW u \in sharers'[v]
        PROVE  u \in ksharers[v] \/ Leaving(v) \/ Leaving(u)
    <3>1. CASE v \notin joined
      BY <1>1, <2>1, <2>7, <3>1
    <3>2. CASE v \in joined /\ joined = {n}
      <4>1. v = n /\ u = n
        BY <1>1, <2>7, <3>2
      <4> QED  BY <1>3, <4>1
    <3>3. CASE v \in joined /\ joined # {n}
      <4>1. call[t].sc = "clone" /\ joined = sharers[t] \cup {n} /\ ksharers[n] = ksharers[t]
        BY <1>1, <1>2, <3>3
      <4>2. sharers'[v] = joined /\ u \in Task
        BY <1>1, <1>3, <2>7, <3>3, <4>1
      <4>3. n \in ksharers[t]
        BY <1>3, <4>1
      <4>4. (v \in ksharers[t] \/ Leaving(v)) /\ (u \in ksharers[t] \/ Leaving(u))
        BY <2>6, <2>7, <3>3, <4>1, <4>2, <4>3
      <4>5. v \in ksharers[t] => ksharers[v] = ksharers[t]
        BY Groups
      <4> QED  BY <4>4, <4>5
    <3> QED  BY <1>2, <3>1, <3>2, <3>3
  <2>8. sharers'[v] \subseteq Task
    BY <1>1, <1>2, <1>3
  <2> QED  BY <1>1, <1>4, <2>1, <2>5, <2>7, <2>8 DEF SameGroups
<1>8. OneInFlight(v)'
  <2>1. SUFFICES ASSUME stop'[v] \in InFlight, NEW u \in Partners(v)', stop'[u] \in InFlight
                 PROVE  Reading(v)' /\ Reading(u)'
    BY DEF OneInFlight, InFlight, Returning
  <2>2. stop'[n] \notin InFlight
    BY <1>1 DEF InFlight, Returning
  <2>3. CASE v = t
    <3>1. u \in Partners(t) \/ u = n
      BY <1>1, <1>2, <1>3, <2>1, <2>3 DEF Partners
    <3>2. \A x \in Partners(t) : x # t /\ x \in Task
      BY <1>3 DEF Partners
    <3> QED  BY <1>1, <1>5, <2>1, <2>2, <3>1, <3>2
  <2>4. CASE v # t
    <3>1. v # n /\ stop[v] \in InFlight
      BY <1>1, <2>1, <2>2, <2>4
    <3>2. u \in Partners(v) /\ u \in Task
      BY <1>3, <1>6, <2>1, <2>4, <3>1
    <3>3. u # t
      BY <1>5, <2>4, <3>1, <3>2, Groups
    <3>4. stop[u] \in InFlight /\ u # n
      BY <1>1, <2>1, <2>2, <3>2, <3>3
    <3>5. Reading(v) /\ Reading(u)
      BY <3>1, <3>2, <3>4 DEF Followed, OneInFlight
    <3> QED  BY <1>4, <3>2, <3>5
  <2> QED  BY <2>3, <2>4
<1>9. Mirrors(fd_table[t], kernel[t])
  BY <1>1, <1>5 DEF Followed, Settled, InFlight
<1>10. ASSUME stop'[v] \in Returning
       PROVE  Pending(v)'
  <2>1. CASE v = t
    <3>1. Mirrors(fd_table'[t], kernel'[t]) /\ call' = call
      BY <1>1, <1>9
    <3> QED
      BY <1>1, <2>1, <3>1 DEF Pending, Openers, WithFlag, WithoutFlag, Pairs, Dups
  <2>2. CASE v # t
    <3>1. v # n /\ stop[v] \in Returning
      BY <1>1, <1>10, <2>2 DEF Returning
    <3> QED  BY <1>1, <3>1, PendingSame DEF Followed
  <2> QED  BY <2>1, <2>2
<1>11. Settled(v)'
  <2>1. SUFFICES ASSUME stop'[v] \in {"user", "call", "event"},
                        \A u \in Partners(v)' : stop'[u] \in Returning => Leaving(u)' \/ Reading(u)'
                 PROVE  Mirrors(fd_table'[v], kernel[v])
    BY <1>1 DEF Settled
  <2>2. CASE v = n
    BY <1>1, <1>9, <2>2
  <2>3. CASE v # n
    <3>1. v # t /\ stop[v] \in {"user", "call", "event"}
      BY <1>1, <2>1, <2>3
    <3>2. \A u \in Partners(v) : u \in Partners(v)' /\ u \in Task
      BY <1>1, <1>2, <1>3, <2>3 DEF Partners
    <3>3. \A u \in Task : stop[u] \in Returning => stop'[u] \in Returning
      BY <1>1 DEF Returning
    <3>4. \A u \in Partners(v) : stop[u] \in Returning => Leaving(u) \/ Reading(u)
      BY <1>4, <2>1, <3>2, <3>3
    <3> QED  BY <1>1, <2>3, <3>1, <3>4 DEF Followed, Settled
  <2> QED  BY <2>2, <2>3
<1> QED  BY <1>7, <1>8, <1>10, <1>11 DEF Followed

-----------------------------------------------------------------------------
(* What each call leaves pending.                                          *)

LEMMA OneName ==
  ASSUME TypeInv, NEW op, NEW name, NEW k \in Ops \X Name
  PROVE  /\ Owe(op, name) => credit'[k] = IF k = <<op, name>> THEN credit[k] - 1 ELSE credit[k]
         /\ incr(op, name) => credit'[k] = IF k = <<op, name>> THEN credit[k] + 1 ELSE credit[k]
BY DEF TypeInv, TypeOK, Owe, incr

LEMMA CardinalityOne ==
  ASSUME NEW S, NEW b \in BOOLEAN, \A i \in {1, 2} : i \in S <=> i = 1 /\ b, S \subseteq {1, 2}
  PROVE  Cardinality(S) = IF b THEN 1 ELSE 0
<1>1. CASE b
  <2>1. S = {1}
    BY <1>1
  <2> QED  BY <1>1, <2>1, FS_Singleton
<1>2. CASE ~b
  <2>1. S = {}
    BY <1>2
  <2> QED  BY <1>2, <2>1, FS_EmptySet
<1> QED  BY <1>1, <1>2

LEMMA OweOne ==
  ASSUME TypeInv, NEW t, NEW op, NEW name, Owe(op, name),
         \A k \in Ops \X Name : \A i \in {1, 2} : Owes(t, i, k)' <=> i = 1 /\ k = <<op, name>>
  PROVE  \A k \in Ops \X Name : credit'[k] = credit[k] - Cardinality(Own(t, k)')
<1> SUFFICES ASSUME NEW k \in Ops \X Name
             PROVE  credit'[k] = credit[k] - Cardinality(Own(t, k)')
  OBVIOUS
<1>1. /\ \A i \in {1, 2} : i \in Own(t, k)' <=> i = 1 /\ k = <<op, name>>
      /\ Own(t, k)' \subseteq {1, 2}
  BY DEF Own
<1>2. Cardinality(Own(t, k)') = IF k = <<op, name>> THEN 1 ELSE 0
  BY <1>1, CardinalityOne
<1>3. credit[k] \in Int
  BY DEF TypeInv, TypeOK
<1> QED  BY <1>2, <1>3, OneName

LEMMA CountOne ==
  ASSUME TypeInv, NEW t, NEW op, NEW name, incr(op, name),
         \A k \in Ops \X Name : \A i \in {1, 2} : Owes(t, i, k) <=> i = 1 /\ k = <<op, name>>
  PROVE  \A k \in Ops \X Name : credit'[k] = credit[k] + Cardinality(Own(t, k))
<1> SUFFICES ASSUME NEW k \in Ops \X Name
             PROVE  credit'[k] = credit[k] + Cardinality(Own(t, k))
  OBVIOUS
<1>1. /\ \A i \in {1, 2} : i \in Own(t, k) <=> i = 1 /\ k = <<op, name>>
      /\ Own(t, k) \subseteq {1, 2}
  BY DEF Own
<1>2. Cardinality(Own(t, k)) = IF k = <<op, name>> THEN 1 ELSE 0
  BY <1>1, CardinalityOne
<1>3. credit[k] \in Int
  BY DEF TypeInv, TypeOK
<1> QED  BY <1>2, <1>3, OneName

LEMMA NoneOwed ==
  ASSUME NEW S, S = {}
  PROVE  Cardinality(S) = 0
BY FS_EmptySet

\* iotrace follows the step of t.
Watched(t) == t \in Clean /\ ~Strays(t) /\ UNCHANGED strayed

\* What holds when the kernel executes the call of t.
LEMMA Executing ==
  ASSUME TypeInv, Grouped, Follows, NEW t \in Task, Watched(t), NEW scs, Executes(t, scs)
  PROVE  /\ call[t] \in Registers /\ call[t].sc \in scs
         /\ Mirrors(fd_table[t], kernel[t])
         /\ IsTable(fd_table[t], Fd \cup Phantom) /\ IsTable(kernel[t], Fd)
         /\ UNCHANGED <<fd_table, call>>
         /\ stop'[t] = "return"
         /\ SeenCloexec(t)' = call[t].cloexec
<1>1. /\ call[t] \in Registers /\ call[t].sc \in scs /\ stop[t] = "call" /\ stop'[t] = "return"
      /\ UNCHANGED <<fd_table, call>>
  BY AtCall DEF tvars, TypeInv, TypeOK
<1>2. Mirrors(fd_table[t], kernel[t])
  <2>1. \A u \in Partners(t) : stop[u] \in Returning => Reading(u)
    BY DEF Watched, Strays, Races, InFlight
  <2> QED  BY <1>1, <2>1 DEF Watched, Follows, Followed, Settled
<1>3. SeenCloexec(t)' = call[t].cloexec
  <2>1. call[t].cloexec \in BOOLEAN /\ ~ (call[t].sc \in Silent /\ call[t].cloexec)
    BY <1>1, RegistersFlag DEF Watched, Strays
  <2>2. SeenCloexec(t)' = (call[t].cloexec /\ call[t].sc \notin Silent)
    BY <1>1 DEF SeenCloexec
  <2> QED  BY <2>1, <2>2
<1> QED  BY <1>1, <1>2, <1>3 DEF TypeInv, TypeOK

LEMMA KernelStays ==
  ASSUME TypeInv, Grouped, NEW t \in Task, NEW scs, Executes(t, scs),
         NEW K, SetKernel(t, K) \/ (UNCHANGED kvars /\ K = kernel[t]),
         NEW rax, NEW fds, Returns(t, rax, fds)
  PROVE  Stays(t, K, fd_table[t])
<1>1. /\ stop[t] = "call" /\ stop' = [stop EXCEPT ![t] = "return"]
      /\ UNCHANGED <<fd_table, sharers, call, status>>
  BY DEF Executes, tvars
<1>2. UNCHANGED <<ksharers, new_child>>
  BY DEF SetKernel, kvars
<1>3. \A u \in Task : kernel'[u] = IF u \in ksharers[t] THEN K ELSE kernel[u]
  <2>1. \A u \in ksharers[t] : kernel[u] = kernel[t]
    BY Groups
  <2>2. CASE SetKernel(t, K)
    BY <2>2 DEF SetKernel
  <2>3. CASE UNCHANGED kvars /\ K = kernel[t]
    BY <2>1, <2>3 DEF kvars
  <2> QED  BY <2>2, <2>3
<1>4. \A u \in Task \ {t} : ret'[u] = ret[u]
  BY ReturnsShow
<1>5. \A u \in sharers[t] : fd_table[u] = fd_table[t]
  BY Groups
<1>6. /\ {stop[t], stop'[t]} \subseteq {"user", "call", "return", "removing"}
      /\ \A u \in Task \ {t} : stop'[u] = stop[u]
  BY <1>1 DEF TypeInv, TypeOK
<1> QED  BY <1>1, <1>2, <1>3, <1>4, <1>5, <1>6 DEF Stays

\* What is known of all tasks after a step that iotrace follows.
LEMMA AllFollow ==
  ASSUME UNCHANGED strayed, \A v \in Clean : Followed(v)', strayed = {} => Counted'
  PROVE  Follows'
BY DEF Follows, Clean

LEMMA KernelFollows ==
  ASSUME TypeInv, Grouped, Follows, NEW t \in Task, Watched(t), NEW scs, Executes(t, scs),
         call[t].sc = "execve" => ksharers[t] = {t},
         NEW K, SetKernel(t, K) \/ (UNCHANGED kvars /\ K = kernel[t]),
         call[t].sc \in {"read", "write"} => K = kernel[t],
         NEW rax, NEW fds, Returns(t, rax, fds), Pending(t)',
         \A k \in Ops \X Name : credit'[k] = credit[k] - Cardinality(Own(t, k)')
  PROVE  Follows'
<1>1. /\ stop[t] = "call" /\ stop' = [stop EXCEPT ![t] = "return"]
      /\ UNCHANGED <<fd_table, sharers, call, status>>
  BY DEF Executes, tvars
<1>2. KernelKeeps(t, K)
  <2>1. Stays(t, K, fd_table[t])
    BY KernelStays
  <2>2. ~Races(t)
    BY DEF Watched, Strays
  <2>3. stop'[t] = "return"
    BY <1>1 DEF TypeInv, TypeOK
  <2> QED  BY <1>1, <2>1, <2>2, <2>3 DEF KernelKeeps, Reading
<1>3. \A v \in Clean : Followed(v)'
  <2>1. \A v \in Clean : v \in Task /\ Followed(v)
    BY DEF Follows, Clean
  <2> QED  BY <1>2, <2>1, KernelKeepsFollows
<1>4. ASSUME Counted
      PROVE  Counted'
  <2>1. \A u \in Task \ {t} : \A i \in {1, 2} : \A k \in Ops \X Name :
          Owes(u, i, k)' <=> Owes(u, i, k)
    <3>1. \A u \in Task \ {t} : stop'[u] = stop[u] /\ ret'[u] = ret[u]
      BY <1>2 DEF KernelKeeps, Stays
    <3> QED  BY <1>1, <3>1, OwesSame
  <2>2. \A k \in Ops \X Name : Cardinality(Own(t, k)) = 0
    <3>1. \A k : Own(t, k) = {}
      BY <1>1 DEF Own, Owes
    <3> QED  BY <3>1, NoneOwed
  <2>3. \A k \in Ops \X Name : credit[k] \in Int
    BY DEF TypeInv, TypeOK
  <2>4. \A k \in Ops \X Name :
          credit'[k] = credit[k] + Cardinality(Own(t, k)) - Cardinality(Own(t, k)')
    <3>1. \A k : Own(t, k)' \in SUBSET {1, 2}
      BY DEF Own
    <3>2. \A k : Cardinality(Own(t, k)') \in Nat
      BY <3>1, OneTwo
    <3> QED  BY <2>2, <2>3, <3>2
  <2> QED  BY <1>4, <2>1, <2>4, CountedStep
<1>5. UNCHANGED strayed
  BY DEF Watched
<1> QED  BY <1>3, <1>4, <1>5, AllFollow DEF Follows

\* A call that is not counted.
LEMMA OweNone ==
  ASSUME TypeInv, NEW t, call'[t] = call[t], UNCHANGED credit,
         call[t].sc \notin Openers \cup {"close", "read", "write"},
         call[t].sc \in Pairs => ret'[t].rax # 0
  PROVE  \A k \in Ops \X Name : credit'[k] = credit[k] - Cardinality(Own(t, k)')
<1>1. \A k : Own(t, k)' = {}
  BY DEF Own, Owes
<1>2. \A k : Cardinality(Own(t, k)') = 0
  BY <1>1, NoneOwed
<1>3. \A k \in Ops \X Name : credit[k] \in Int
  BY DEF TypeInv, TypeOK
<1> QED  BY <1>2, <1>3

LEMMA kernel_open_Follows ==
  ASSUME TypeInv, Grouped, Follows, NEW t \in Task, Watched(t), kernel_open(t)
  PROVE  Follows'
<1> DEFINE c == call[t]
<1>1. Executes(t, Openers) /\ Owe("open", OpenedName(t))
  BY DEF kernel_open
<1>2. /\ c \in Registers /\ c.sc \in Openers /\ Mirrors(fd_table[t], kernel[t])
      /\ IsTable(fd_table[t], Fd \cup Phantom)
      /\ UNCHANGED <<fd_table, call>> /\ stop'[t] = "return"
  BY <1>1, Executing
<1>3. c.sc \notin Dups \cup Pairs \cup {"close", "read", "write", "setfd", "execve", "untracked",
                                        "clone", "fork"}
  BY <1>2 DEF Openers, WithFlag, WithoutFlag, Dups, Pairs
<1>4. OpenedName(t)' = OpenedName(t)
  BY <1>2 DEF OpenedName
<1>5. \A k \in Ops \X Name : credit'[k] = credit[k] - Cardinality(Own(t, k)')
  <2>1. \A k \in Ops \X Name : \A i \in {1, 2} : Owes(t, i, k)' <=> i = 1 /\ k = <<"open", OpenedName(t)>>
    BY <1>2, <1>3, <1>4 DEF Owes
  <2> QED  BY <1>1, <2>1, OweOne
<1>6. ASSUME NEW rax, NEW K, Returns(t, rax, <<>>),
             SetKernel(t, K) \/ (UNCHANGED kvars /\ K = kernel[t]),
             Mirrors(IF rax >= 0 THEN Insert(fd_table[t], rax, Entry(OpenedName(t), c.cloexec))
                                 ELSE fd_table[t], K)
      PROVE  Follows'
  <2>1. ret'[t].rax = rax
    BY <1>6, ReturnsShow
  <2>2. kernel'[t] = K
    BY <1>6, Groups DEF SetKernel, kvars
  <2>3. Pending(t)'
    BY <1>2, <1>3, <1>4, <1>6, <2>1, <2>2 DEF Pending
  <2> QED  BY <1>1, <1>3, <1>5, <1>6, <2>3, KernelFollows
<1>7. CASE /\ FreeFds(t) # {}
           /\ SetKernel(t, Insert(kernel[t], Lowest(FreeFds(t)), Entry(OpenedName(t), c.cloexec)))
           /\ Returns(t, Lowest(FreeFds(t)), <<>>)
  <2>1. Lowest(FreeFds(t)) \in Fd /\ Lowest(FreeFds(t)) >= 0
    <3>1. Lowest(FreeFds(t)) \in Fd
      BY <1>7, FreeFdsType
    <3>2. \A f \in Fd : f >= 0
      BY DEF Fd
    <3> QED  BY <3>1, <3>2
  <2>2. Mirrors(Insert(fd_table[t], Lowest(FreeFds(t)), Entry(OpenedName(t), c.cloexec)),
                Insert(kernel[t], Lowest(FreeFds(t)), Entry(OpenedName(t), c.cloexec)))
    BY <1>2, <2>1, MirrorsInsert
  <2> QED  BY <1>6, <1>7, <2>1, <2>2
<1>8. CASE Fails(t, ENOENT)
  <2>1. ~ (-ENOENT >= 0)
    BY DEF ENOENT
  <2> QED  BY <1>2, <1>6, <1>8, <2>1 DEF Fails
<1> QED  BY <1>7, <1>8 DEF kernel_open

LEMMA kernel_pair_Follows ==
  ASSUME TypeInv, Grouped, Follows, NEW t \in Task, Watched(t), kernel_pair(t)
  PROVE  Follows'
<1> DEFINE c == call[t]
           n == PairNames(t)
<1>1. Executes(t, Pairs)
  BY DEF kernel_pair
<1>2. /\ c \in Registers /\ c.sc \in Pairs /\ Mirrors(fd_table[t], kernel[t])
      /\ UNCHANGED <<fd_table, call>> /\ stop'[t] = "return"
      /\ SeenCloexec(t)' = c.cloexec
  BY <1>1, Executing
<1>3. c.sc \notin Dups \cup Openers \cup {"close", "read", "write", "setfd", "execve", "untracked",
                                          "clone", "fork"}
  BY <1>2 DEF Openers, WithFlag, WithoutFlag, Dups, Pairs
<1>4. PairNames(t)' = n
  BY <1>2 DEF PairNames
<1>5. ASSUME NEW f \in Fd, NEW g \in Fd,
             SetKernel(t, Insert(Insert(kernel[t], f, Entry(n[1], c.cloexec)),
                                 g, Entry(n[2], c.cloexec))),
             Returns(t, 0, <<f, g>>),
             credit' = [k \in Ops \X Name |-> credit[k] - Opens(k, n)]
      PROVE  Follows'
  <2> DEFINE K == Insert(Insert(kernel[t], f, Entry(n[1], c.cloexec)), g, Entry(n[2], c.cloexec))
             T == Insert(Insert(fd_table[t], f, Entry(n[1], c.cloexec)), g, Entry(n[2], c.cloexec))
  <2>1. ret'[t].rax = 0 /\ ret'[t].fds = <<f, g>> /\ Len(<<f, g>>) = 2
        /\ <<f, g>>[1] = f /\ <<f, g>>[2] = g
    BY <1>5, ReturnsShow
  <2>2. kernel'[t] = K
    BY <1>5, Groups DEF SetKernel
  <2>3. Mirrors(T, K)
    BY <1>2, MirrorsInsert
  <2>4. Pending(t)'
    <3> HIDE DEF K
    <3> QED  BY <1>2, <1>3, <1>4, <2>1, <2>2, <2>3 DEF Pending
  <2>5. \A k \in Ops \X Name : credit'[k] = credit[k] - Cardinality(Own(t, k)')
    <3>1. SUFFICES ASSUME NEW k \in Ops \X Name
                   PROVE  Opens(k, n) = Cardinality(Own(t, k)')
      BY <1>5
    <3>2. \A i \in {1, 2} : Owes(t, i, k)' <=> k = <<"open", n[i]>>
      BY <1>2, <1>3, <1>4, <2>1 DEF Owes
    <3>3. CASE k[1] = "open"
      <4>1. \A i \in {1, 2} : k = <<"open", n[i]>> <=> n[i] = k[2]
        BY <3>3
      <4>2. Own(t, k)' = {i \in {1, 2} : n[i] = k[2]}
        BY <3>2, <4>1 DEF Own
      <4> QED  BY <3>3, <4>2 DEF Opens
    <3>4. CASE k[1] # "open"
      <4>1. Own(t, k)' = {}
        BY <3>2, <3>4 DEF Own
      <4> QED  BY <3>4, <4>1, NoneOwed DEF Opens
    <3> QED  BY <3>3, <3>4
  <2> QED
    <3> HIDE DEF K
    <3>1. SetKernel(t, K)
      BY <1>5 DEF K
    <3> QED  BY <1>1, <1>3, <1>5, <2>4, <2>5, <3>1, KernelFollows
<1>6. CASE Fails(t, EBADF) /\ OweNothing
  <2>1. Returns(t, -EBADF, <<>>) /\ UNCHANGED kvars /\ UNCHANGED credit
    BY <1>6 DEF Fails, OweNothing
  <2>2. ret'[t].rax = -EBADF /\ -EBADF # 0
    BY <2>1, ReturnsShow, Numbers
  <2>3. Pending(t)'
    BY <1>2, <1>3, <2>1, <2>2 DEF Pending, kvars
  <2>4. \A k \in Ops \X Name : credit'[k] = credit[k] - Cardinality(Own(t, k)')
    BY <1>2, <1>3, <2>1, <2>2, OweNone
  <2> QED  BY <1>1, <1>3, <2>1, <2>3, <2>4, KernelFollows
<1>7. ASSUME NEW f \in FreeFds(t),
             LET g == Lowest(FreeFds(t) \ {f})
                 names == IF c.sc = "socketpair" THEN <<SOCKET, SOCKET>> ELSE <<PIPE_R, PIPE_W>>
             IN /\ f = Lowest(FreeFds(t)) /\ FreeFds(t) # {f}
                /\ SetKernel(t, Insert(Insert(kernel[t], f, Entry(names[1], c.cloexec)),
                                       g, Entry(names[2], c.cloexec)))
                /\ Returns(t, 0, <<f, g>>) \/ Returns(t, 0, <<f, -1>>)
                /\ credit' = [k \in Ops \X Name |-> credit[k] - Opens(k, names)]
      PROVE  Follows'
  <2> DEFINE g == Lowest(FreeFds(t) \ {f})
  <2>1. FreeFds(t) \subseteq Fd /\ FreeFds(t) \subseteq Nat
    BY Numbers DEF FreeFds
  <2>2. g \in Fd
    <3>1. g \in FreeFds(t) \ {f}
      BY <1>7, <2>1, LowestFree
    <3> QED  BY <2>1, <3>1
  <2> HIDE DEF g
  <2>3. ~Returns(t, 0, <<f, -1>>)
    <3>1. Returns(t, 0, <<f, -1>>) => ret'[t].fds = <<f, -1>>
      BY ReturnsShow
    <3>2. \E i \in DOMAIN <<f, -1>> : <<f, -1>>[i] = -1
      <4>1. 2 \in DOMAIN <<f, -1>> /\ <<f, -1>>[2] = -1
        OBVIOUS
      <4> QED  BY <4>1
    <3> QED  BY <3>1, <3>2 DEF Watched, Strays
  <2> QED  BY <1>5, <1>7, <2>1, <2>2, <2>3 DEF PairNames, g
<1>8. \/ \E f \in FreeFds(t) :
           LET g == Lowest(FreeFds(t) \ {f})
               names == IF c.sc = "socketpair" THEN <<SOCKET, SOCKET>> ELSE <<PIPE_R, PIPE_W>>
           IN /\ f = Lowest(FreeFds(t)) /\ FreeFds(t) # {f}
              /\ SetKernel(t, Insert(Insert(kernel[t], f, Entry(names[1], c.cloexec)),
                                     g, Entry(names[2], c.cloexec)))
              /\ Returns(t, 0, <<f, g>>) \/ Returns(t, 0, <<f, -1>>)
              /\ credit' = [k \in Ops \X Name |-> credit[k] - Opens(k, names)]
      \/ Fails(t, EBADF) /\ OweNothing
  BY DEF kernel_pair
<1> QED  BY <1>6, <1>7, <1>8

LEMMA kernel_close_Follows ==
  ASSUME TypeInv, Grouped, Follows, NEW t \in Task, Watched(t), kernel_close(t)
  PROVE  Follows'
<1> DEFINE c == call[t]
           name == Named(kernel[t], c.fd)
<1>1. Executes(t, {"close"}) /\ Owe("close", name)
  BY DEF kernel_close
<1>2. /\ c \in Registers /\ c.sc = "close" /\ Mirrors(fd_table[t], kernel[t])
      /\ IsTable(fd_table[t], Fd \cup Phantom) /\ IsTable(kernel[t], Fd)
      /\ UNCHANGED <<fd_table, call>> /\ stop'[t] = "return"
  BY <1>1, Executing
<1>3. c.sc \notin Openers \cup Dups \cup Pairs
  BY <1>2 DEF Openers, WithFlag, WithoutFlag, Dups, Pairs
<1>4. Named(fd_table[t], c.fd) = name
  <2>1. c.fd \in Fd \/ c.fd = -1
    BY <1>2, RegistersFd, Numbers
  <2> QED  BY <1>2, <2>1, MirrorsNamed
<1>5. \A k \in Ops \X Name : credit'[k] = credit[k] - Cardinality(Own(t, k)')
  <2>1. \A k \in Ops \X Name : \A i \in {1, 2} : Owes(t, i, k)' <=> i = 1 /\ k = <<"close", name>>
    BY <1>2, <1>3, <1>4 DEF Owes
  <2> QED  BY <1>1, <2>1, OweOne
<1>6. ASSUME NEW rax, NEW K, Returns(t, rax, <<>>),
             SetKernel(t, K) \/ (UNCHANGED kvars /\ K = kernel[t]),
             Mirrors(Remove(fd_table[t], c.fd), K)
      PROVE  Follows'
  <2>1. kernel'[t] = K
    BY <1>6, Groups DEF SetKernel, kvars
  <2>2. Pending(t)'
    BY <1>2, <1>3, <1>6, <2>1 DEF Pending
  <2> QED  BY <1>1, <1>2, <1>5, <1>6, <2>2, KernelFollows
<1>7. CASE SetKernel(t, Remove(kernel[t], c.fd)) /\ Returns(t, 0, <<>>)
  BY <1>2, <1>6, <1>7, MirrorsRemove
<1>8. CASE c.fd \notin DOMAIN kernel[t] /\ Fails(t, EBADF)
  BY <1>2, <1>6, <1>8, MirrorsRemove DEF Fails
<1> QED  BY <1>7, <1>8 DEF kernel_close

LEMMA kernel_read_write_Follows ==
  ASSUME TypeInv, Grouped, Follows, NEW t \in Task, Watched(t), kernel_read_write(t)
  PROVE  Follows'
<1> DEFINE c == call[t]
           name == Named(kernel[t], c.fd)
<1>1. Executes(t, {"read", "write"}) /\ Owe(c.sc, name)
  BY DEF kernel_read_write
<1>2. /\ c \in Registers /\ c.sc \in {"read", "write"} /\ Mirrors(fd_table[t], kernel[t])
      /\ IsTable(fd_table[t], Fd \cup Phantom) /\ IsTable(kernel[t], Fd)
      /\ UNCHANGED <<fd_table, call>> /\ stop'[t] = "return"
  BY <1>1, Executing
<1>3. c.sc \notin Openers \cup Dups \cup Pairs
  BY <1>2 DEF Openers, WithFlag, WithoutFlag, Dups, Pairs
<1>4. Named(fd_table[t], c.fd) = name
  <2>1. c.fd \in Fd \/ c.fd = -1
    BY <1>2, RegistersFd, Numbers
  <2> QED  BY <1>2, <2>1, MirrorsNamed
<1>5. \A k \in Ops \X Name : credit'[k] = credit[k] - Cardinality(Own(t, k)')
  <2>1. \A k \in Ops \X Name : \A i \in {1, 2} : Owes(t, i, k)' <=> i = 1 /\ k = <<c.sc, name>>
    BY <1>2, <1>3, <1>4 DEF Owes
  <2> QED  BY <1>1, <2>1, OweOne
<1>6. UNCHANGED kvars /\ \E rax : Returns(t, rax, <<>>)
  BY DEF kernel_read_write, Fails
<1>7. Pending(t)'
  BY <1>2, <1>3, <1>6 DEF Pending, kvars
<1> QED  BY <1>1, <1>2, <1>5, <1>6, <1>7, KernelFollows

\* One that iotrace does not consider.
LEMMA kernel_untracked_Follows ==
  ASSUME TypeInv, Grouped, Follows, NEW t \in Task, Watched(t), kernel_untracked(t)
  PROVE  Follows'
<1> DEFINE c == call[t]
           f == Lowest(FreeFds(t))
           K == Insert(kernel[t], f, Entry(NULL, FALSE))
<1>1. /\ Executes(t, {"untracked"}) /\ UNCHANGED credit /\ FreeFds(t) # {}
      /\ SetKernel(t, K) /\ Returns(t, f, <<>>)
  BY DEF kernel_untracked, OweNothing
<1>2. /\ c \in Registers /\ c.sc = "untracked" /\ Mirrors(fd_table[t], kernel[t])
      /\ UNCHANGED <<fd_table, call>> /\ stop'[t] = "return"
  BY <1>1, Executing
<1>3. c.sc \notin Openers \cup Dups \cup Pairs
  BY <1>2 DEF Openers, WithFlag, WithoutFlag, Dups, Pairs
<1>4. \A k \in Ops \X Name : credit'[k] = credit[k] - Cardinality(Own(t, k)')
  BY <1>1, <1>2, <1>3, OweNone
<1>5. Mirrors(fd_table[t], K)
  BY <1>1, <1>2, FreeFdsType, MirrorsUntracked
<1>6. kernel'[t] = K
  BY <1>1, Groups DEF SetKernel
<1> HIDE DEF K, f
<1>7. Pending(t)'
  BY <1>2, <1>3, <1>5, <1>6 DEF Pending
<1> QED  BY <1>1, <1>2, <1>4, <1>7, KernelFollows

LEMMA kernel_setfd_Follows ==
  ASSUME TypeInv, Grouped, Follows, NEW t \in Task, Watched(t), kernel_setfd(t)
  PROVE  Follows'
<1> DEFINE c == call[t]
           T == fd_table[t]
<1>1. Executes(t, {"setfd"}) /\ UNCHANGED credit
  BY DEF kernel_setfd, OweNothing
<1>2. /\ c \in Registers /\ c.sc = "setfd" /\ Mirrors(T, kernel[t])
      /\ IsTable(T, Fd \cup Phantom) /\ IsTable(kernel[t], Fd)
      /\ UNCHANGED <<fd_table, call>> /\ stop'[t] = "return"
  BY <1>1, Executing
<1>3. c.sc \notin Openers \cup Dups \cup Pairs
  BY <1>2 DEF Openers, WithFlag, WithoutFlag, Dups, Pairs
<1>4. \A k \in Ops \X Name : credit'[k] = credit[k] - Cardinality(Own(t, k)')
  BY <1>1, <1>2, <1>3, OweNone
<1>5. ASSUME NEW rax, NEW K, Returns(t, rax, <<>>),
             SetKernel(t, K) \/ (UNCHANGED kvars /\ K = kernel[t]),
             c.fd \in DOMAIN T => Mirrors(Insert(T, c.fd, Entry(T[c.fd].name, c.cloexec)), K)
      PROVE  Follows'
  <2>1. kernel'[t] = K
    BY <1>5, Groups DEF SetKernel, kvars
  <2>2. Pending(t)'
    BY <1>2, <1>3, <1>5, <2>1 DEF Pending, Missing
  <2> QED  BY <1>1, <1>2, <1>4, <1>5, <2>2, KernelFollows
<1>6. CASE /\ c.fd \in DOMAIN kernel[t]
           /\ SetKernel(t, Insert(kernel[t], c.fd, Entry(kernel[t][c.fd].name, c.cloexec)))
           /\ Returns(t, 0, <<>>)
  <2>1. c.fd \in Fd
    BY <1>2, <1>6 DEF IsTable
  <2>2. c.fd \in DOMAIN T => T[c.fd].name = kernel[t][c.fd].name
    BY <1>2, <2>1 DEF Mirrors
  <2>3. Mirrors(Insert(T, c.fd, Entry(kernel[t][c.fd].name, c.cloexec)),
                Insert(kernel[t], c.fd, Entry(kernel[t][c.fd].name, c.cloexec)))
    BY <1>2, <2>1, MirrorsInsert
  <2> QED  BY <1>5, <1>6, <2>2, <2>3
<1>7. CASE c.fd \notin DOMAIN kernel[t] /\ Fails(t, EBADF)
  <2>1. c.fd \in Fd \/ c.fd = -1
    BY <1>2, RegistersFd, Numbers
  <2>2. c.fd \notin DOMAIN T
    BY <1>2, <1>7, <2>1 DEF Mirrors
  <2> QED  BY <1>5, <1>7, <2>2 DEF Fails
<1> QED  BY <1>6, <1>7 DEF kernel_setfd

LEMMA kernel_dup_Follows ==
  ASSUME TypeInv, Grouped, Follows, NEW t \in Task, Watched(t), kernel_dup(t)
  PROVE  Follows'
<1> DEFINE c == call[t]
           T == fd_table[t]
           named == c.sc \in {"dup", "dup2", "dup3"}
           Copy(name) == IF c.sc = "gptpeer" THEN Slave(name) ELSE name
           Left(rax) == IF named /\ (c.fd < 0 \/ c.fd = rax) THEN T
                        ELSE Insert(T, rax, Entry(Copy(T[c.fd].name), c.cloexec))
<1>1. Executes(t, Dups) /\ UNCHANGED credit
  BY DEF kernel_dup, OweNothing
<1>2. /\ c \in Registers /\ c.sc \in Dups /\ Mirrors(T, kernel[t])
      /\ IsTable(T, Fd \cup Phantom) /\ IsTable(kernel[t], Fd)
      /\ UNCHANGED <<fd_table, call>> /\ stop'[t] = "return"
      /\ SeenCloexec(t)' = c.cloexec
  BY <1>1, Executing
<1>3. c.sc \notin Openers \cup Pairs \cup {"close", "read", "write", "setfd", "execve", "untracked",
                                           "clone", "fork"}
  BY <1>2 DEF Openers, WithFlag, WithoutFlag, Dups, Pairs
<1>4. \A k \in Ops \X Name : credit'[k] = credit[k] - Cardinality(Own(t, k)')
  BY <1>1, <1>2, <1>3, OweNone
<1>5. (c.fd \in Fd \/ c.fd = -1) /\ \A f \in Fd : ~ (f < 0)
  <2>1. c.fd \in Fd \/ c.fd = -1
    BY <1>2, RegistersFd, Numbers
  <2> QED  BY <2>1 DEF Fd
<1>6. ASSUME NEW rax, NEW K, Returns(t, rax, <<>>),
             SetKernel(t, K) \/ (UNCHANGED kvars /\ K = kernel[t]),
             c.fd \in DOMAIN T \/ (named /\ ~ (c.fd >= 0 /\ c.fd # rax)) => Mirrors(Left(rax), K)
      PROVE  Follows'
  <2>1. kernel'[t] = K
    BY <1>6, Groups DEF SetKernel, kvars
  <2>2. ret'[t].rax = rax
    BY <1>6, ReturnsShow
  <2>3. ~Missing(t)' => Mirrors(Left(rax), K)
    BY <1>2, <1>6, <2>2 DEF Missing
  <2>4. Pending(t)'
    BY <1>2, <1>3, <2>1, <2>2, <2>3 DEF Pending
  <2> QED  BY <1>1, <1>3, <1>4, <1>6, <2>4, KernelFollows
<1>7. CASE DupFails(t)
  <2>1. Mirrors(Left(-EBADF), kernel[t])
    <3>1. -EBADF \notin Fd /\ -EBADF # -1
      BY Numbers
    <3> QED  BY <1>2, <3>1, MirrorsPhantom
  <2> HIDE DEF Left
  <2> QED  BY <1>6, <1>7, <2>1 DEF DupFails, Fails
<1>8. CASE DupItself(t)
  <2>1. Left(c.fd) = T
    BY <1>8 DEF DupItself
  <2> HIDE DEF Left
  <2> QED  BY <1>2, <1>6, <1>8, <2>1 DEF DupItself
<1>9. ASSUME c.fd \in DOMAIN kernel[t], NEW f, DupMakes(t, f)
      PROVE  Follows'
  <2> DEFINE k == kernel[t][c.fd].name
             e == Entry(Copy(k), c.cloexec)
  <2>1. /\ f \in Fd /\ Returns(t, f, <<>>) /\ SetKernel(t, Insert(kernel[t], f, e))
        /\ f # c.fd
    BY <1>9 DEF DupMakes
  <2>2. c.fd \in Fd
    BY <1>2, <1>9 DEF IsTable
  <2>3. CASE c.fd \in DOMAIN T
    <3>1. T[c.fd].name = k
      BY <1>2, <2>2, <2>3 DEF Mirrors
    <3>2. Left(f) = Insert(T, f, e)
      BY <1>5, <2>1, <2>2, <3>1
    <3>3. Mirrors(Insert(T, f, e), Insert(kernel[t], f, e))
      BY <1>2, <2>1, MirrorsInsert
    <3> HIDE DEF Left, e
    <3> QED  BY <1>6, <2>1, <3>2, <3>3
  <2>4. CASE c.fd \notin DOMAIN T
    <3>1. c.fd >= 0
      BY <2>2 DEF Fd
    <3> HIDE DEF Left, e
    <3> QED  BY <1>6, <2>1, <2>4, <3>1
  <2> QED  BY <2>3, <2>4
<1> QED  BY <1>7, <1>8, <1>9, DupCases

\* A failed execve that nobody shares its table with and that has nothing marked.
LEMMA FailedExecve ==
  ASSUME TypeInv, Grouped, Follows, NEW t \in Task, Watched(t), Executes(t, {"execve"}),
         Fails(t, ENOENT), OweNothing
  PROVE  Follows'
<1>1. /\ call[t].sc = "execve" /\ Mirrors(fd_table[t], kernel[t])
      /\ IsTable(kernel[t], Fd)
      /\ UNCHANGED <<fd_table, call>>
  BY Executing
<1>2. Returns(t, -ENOENT, <<>>) /\ UNCHANGED kvars /\ UNCHANGED credit
  BY DEF Fails, OweNothing
<1>3. ksharers[t] = {t} /\ \A f \in DOMAIN kernel[t] : ~kernel[t][f].cloexec
  <2>1. ret'[t].rax < 0
    <3>1. -ENOENT < 0
      BY DEF ENOENT
    <3>2. ret'[t].rax = -ENOENT
      BY <1>2, ReturnsShow
    <3> QED  BY <3>1, <3>2
  <2> QED  BY <1>1, <2>1 DEF Watched, Strays, FailsToExec
<1>4. Mirrors(WithoutCloexec(fd_table[t]), kernel[t])
  BY <1>1, <1>3 DEF Mirrors, WithoutCloexec
<1>5. Pending(t)'
  BY <1>1, <1>2, <1>4 DEF Pending, Openers, WithFlag, WithoutFlag, Pairs, Dups, kvars
<1>6. \A k \in Ops \X Name : credit'[k] = credit[k] - Cardinality(Own(t, k)')
  <2>1. call[t].sc \notin Openers \cup Pairs \cup {"close", "read", "write"}
    BY <1>1 DEF Openers, WithFlag, WithoutFlag, Pairs
  <2> QED  BY <1>1, <1>2, <2>1, OweNone
<1> QED  BY <1>1, <1>2, <1>3, <1>5, <1>6, KernelFollows

-----------------------------------------------------------------------------
(* What each handler settles.                                              *)

\* The others owe what they owed.
LEMMA OthersOwe ==
  ASSUME TypeInv, Grouped, Follows, UNCHANGED strayed, NEW t \in Task, t \in Clean, stop[t] \in Returning,
         NEW s, stop' = [stop EXCEPT ![t] = s],
         \A u \in Task : u \notin sharers[t] => fd_table'[u] = fd_table[u],
         call[t].sc \in {"read", "write"} => \A u \in Task : fd_table'[u] = fd_table[u],
         \A u \in Task \ {t} : call'[u] = call[u] /\ ret'[u] = ret[u]
  PROVE  \A u \in Task \ {t} : \A i \in {1, 2} : \A k \in Ops \X Name : Owes(u, i, k)' <=> Owes(u, i, k)
<1> SUFFICES ASSUME NEW u \in Task \ {t}, NEW i, NEW k
             PROVE  Owes(u, i, k)' <=> Owes(u, i, k)
  OBVIOUS
<1>1. stop'[u] = stop[u]
  BY DEF TypeInv, TypeOK
<1>2. CASE stop[u] = "return"
  <2>1. fd_table'[u] = fd_table[u]
    <3>1. CASE u \in sharers[t]
      <4>1. Reading(t)
        BY <1>2, <3>1 DEF Follows, Followed, OneInFlight, Partners, InFlight, Returning
      <4> QED  BY <4>1 DEF Reading
    <3>2. CASE u \notin sharers[t]
      BY <3>2
    <3> QED  BY <3>1, <3>2
  <2> QED  BY <1>1, <2>1, OwesSame
<1>3. CASE stop[u] # "return"
  BY <1>1, <1>3 DEF Owes
<1> QED  BY <1>2, <1>3

\* The table after a handler, for all tasks.
LEMMA Tables ==
  ASSUME TypeInv, Grouped, NEW t \in Task, NEW T,
         SetTable(t, T) \/ (UNCHANGED fd_table /\ T = fd_table[t])
  PROVE  /\ \A u \in Task : fd_table'[u] = IF u \in sharers[t] THEN T ELSE fd_table[u]
         /\ T = fd_table[t] => \A u \in Task : fd_table'[u] = fd_table[u]
<1>1. \A u \in sharers[t] : fd_table[u] = fd_table[t]
  BY Groups
<1> QED  BY <1>1 DEF SetTable

\* The handlers leave who shares a table alone, but for that of execve.
LEMMA HandlerStays ==
  ASSUME TypeInv, Grouped, NEW t \in Task, stop[t] \in Returning,
         NEW s \in {"user", "return", "removing"}, stop' = [stop EXCEPT ![t] = s],
         UNCHANGED <<kvars, sharers>>,
         \A u \in Task \ {t} : call'[u] = call[u] /\ ret'[u] = ret[u],
         NEW T, SetTable(t, T) \/ (UNCHANGED fd_table /\ T = fd_table[t])
  PROVE  Stays(t, kernel[t], T)
<1>1. \A u \in Task : fd_table'[u] = IF u \in sharers[t] THEN T ELSE fd_table[u]
  BY Tables
<1>2. \A u \in ksharers[t] : kernel[u] = kernel[t]
  BY Groups
<1>3. {stop[t], stop'[t]} \subseteq {"user", "call", "return", "removing"}
      /\ \A u \in Task \ {t} : stop'[u] = stop[u]
  BY DEF Returning, TypeInv, TypeOK
<1> QED  BY <1>1, <1>2, <1>3 DEF Stays, kvars

LEMMA HandlerFollows ==
  ASSUME TypeInv, Grouped, Follows, UNCHANGED strayed, NEW t \in Task, t \in Clean,
         stop[t] \in Returning, call[t].sc # "execve",
         Done(t), UNCHANGED <<sharers, status>>,
         NEW T, SetTable(t, T) \/ (UNCHANGED fd_table /\ T = fd_table[t]),
         call[t].sc \in {"read", "write"} => T = fd_table[t],
         Mirrors(T, kernel[t]),
         \A k \in Ops \X Name : credit'[k] = credit[k] + Cardinality(Own(t, k))
  PROVE  Follows'
<1>1. /\ stop' = [stop EXCEPT ![t] = "user"] /\ UNCHANGED kvars
      /\ \A u \in Task \ {t} : call'[u] = call[u] /\ ret'[u] = ret[u]
      /\ stop'[t] = "user"
  BY DEF Done, TypeInv, TypeOK
<1>2. HandlerKeeps(t, "user", T)
  <2>1. Stays(t, kernel[t], T)
    BY <1>1, HandlerStays
  <2> QED  BY <1>1, <2>1 DEF HandlerKeeps, Reading
<1>3. \A v \in Clean : Followed(v)'
  <2>1. \A v \in Clean : v \in Task /\ Followed(v)
    BY DEF Follows, Clean
  <2> QED  BY <1>2, <2>1, HandlerKeepsFollows
<1>4. ASSUME Counted
      PROVE  Counted'
  <2>1. \A u \in Task \ {t} : \A i \in {1, 2} : \A k \in Ops \X Name :
          Owes(u, i, k)' <=> Owes(u, i, k)
    <3>1. /\ \A u \in Task : u \notin sharers[t] => fd_table'[u] = fd_table[u]
          /\ call[t].sc \in {"read", "write"} => \A u \in Task : fd_table'[u] = fd_table[u]
      BY Tables
    <3> QED  BY <1>1, <3>1, OthersOwe
  <2>2. \A k : Own(t, k)' = {}
    BY <1>1 DEF Own, Owes
  <2>3. \A k : Cardinality(Own(t, k)') = 0
    BY <2>2, NoneOwed
  <2>4. \A k : Own(t, k) \in SUBSET {1, 2}
    BY DEF Own
  <2>5. \A k : Cardinality(Own(t, k)) \in Nat
    BY <2>4, OneTwo
  <2>6. \A k \in Ops \X Name : credit[k] \in Int
    BY DEF TypeInv, TypeOK
  <2>7. \A k \in Ops \X Name :
          credit'[k] = credit[k] + Cardinality(Own(t, k)) - Cardinality(Own(t, k)')
    BY <2>3, <2>5, <2>6
  <2> QED  BY <1>4, <2>1, <2>7, CountedStep
<1> QED  BY <1>3, <1>4, AllFollow DEF Follows

\* A return that is not counted.
LEMMA CountNone ==
  ASSUME TypeInv, NEW t, UNCHANGED credit,
         stop[t] # "return" \/ call[t].sc \notin Openers \cup {"close", "read", "write"},
         stop[t] = "return" /\ call[t].sc \in Pairs => ret[t].rax # 0
  PROVE  \A k \in Ops \X Name : credit'[k] = credit[k] + Cardinality(Own(t, k))
<1>1. \A k : Own(t, k) = {}
  BY DEF Own, Owes
<1>2. \A k : Cardinality(Own(t, k)) = 0
  BY <1>1, NoneOwed
<1>3. \A k \in Ops \X Name : credit[k] \in Int
  BY DEF TypeInv, TypeOK
<1> QED  BY <1>2, <1>3

LEMMA Opening_Follows ==
  ASSUME TypeInv, Grouped, Follows, UNCHANGED strayed, NEW t \in Task, t \in Clean, Opening(t)
  PROVE  Follows'
<1> DEFINE c == call[t]
           T == IF ret[t].rax >= 0
                  THEN Insert(fd_table[t], ret[t].rax, Entry(OpenedName(t), c.cloexec))
                  ELSE fd_table[t]
<1>1. /\ stop[t] = "return" /\ c.sc \in Openers
      /\ OpenReturn(t, OpenedName(t), c.cloexec)
  BY OpeningReturns
<1>2. c.sc \notin Pairs \cup {"close", "read", "write", "execve"}
  BY <1>1 DEF Openers, WithFlag, WithoutFlag, Pairs
<1>3. SetTable(t, T) \/ (UNCHANGED fd_table /\ T = fd_table[t])
  BY <1>1 DEF OpenReturn, fd_table_insert
<1>4. Mirrors(T, kernel[t])
  BY <1>1 DEF Follows, Followed, Pending, Returning
<1>5. Done(t) /\ UNCHANGED <<sharers, status>> /\ incr("open", OpenedName(t))
  BY <1>1 DEF OpenReturn
<1>6. \A k \in Ops \X Name : credit'[k] = credit[k] + Cardinality(Own(t, k))
  <2>1. \A k \in Ops \X Name : \A i \in {1, 2} : Owes(t, i, k) <=> i = 1 /\ k = <<"open", OpenedName(t)>>
    BY <1>1, <1>2 DEF Owes
  <2> QED  BY <1>5, <2>1, CountOne
<1> HIDE DEF T
<1>7. stop[t] \in Returning
  BY <1>1 DEF Returning
<1> QED  BY <1>2, <1>3, <1>4, <1>5, <1>6, <1>7, HandlerFollows

LEMMA Using_Follows ==
  ASSUME TypeInv, Grouped, Follows, UNCHANGED strayed, NEW t \in Task, t \in Clean, Using(t)
  PROVE  Follows'
<1> DEFINE c == call[t]
<1>1. /\ stop[t] = "return" /\ c.sc \in {"read", "write"}
      /\ incr(c.sc, Named(fd_table[t], c.fd))
      /\ Done(t) /\ UNCHANGED <<fd_table, sharers, status>>
  BY UsingReturns DEF tvars
<1>2. c.sc \notin Openers \cup Pairs \cup {"execve"}
  BY <1>1 DEF Openers, WithFlag, WithoutFlag, Pairs
<1>3. Mirrors(fd_table[t], kernel[t])
  BY <1>1 DEF Follows, Followed, Pending, Returning
<1>4. \A k \in Ops \X Name : credit'[k] = credit[k] + Cardinality(Own(t, k))
  <2>1. \A k \in Ops \X Name : \A i \in {1, 2} :
          Owes(t, i, k) <=> i = 1 /\ k = <<c.sc, Named(fd_table[t], c.fd)>>
    BY <1>1, <1>2 DEF Owes
  <2> QED  BY <1>1, <2>1, CountOne
<1>5. stop[t] \in Returning
  BY <1>1 DEF Returning
<1> QED  BY <1>1, <1>2, <1>3, <1>4, <1>5, HandlerFollows

LEMMA unconsidered_return_Follows ==
  ASSUME TypeInv, Grouped, Follows, UNCHANGED strayed, NEW t \in Task, t \in Clean,
         handle_unconsidered_return(t)
  PROVE  Follows'
<1> DEFINE c == call[t]
<1>1. /\ stop[t] = "return" /\ c.sc \in {"untracked", "clone", "fork"}
      /\ Done(t) /\ UNCHANGED <<fd_table, sharers, credit, status>>
  BY DEF handle_unconsidered_return, AtReturn, NoTableChange, tvars
<1>2. c.sc \notin Openers \cup Pairs \cup {"execve", "close", "read", "write"}
  BY <1>1 DEF Openers, WithFlag, WithoutFlag, Pairs
<1>3. Mirrors(fd_table[t], kernel[t])
  BY <1>1 DEF Follows, Followed, Pending, Returning
<1>4. \A k \in Ops \X Name : credit'[k] = credit[k] + Cardinality(Own(t, k))
  BY <1>1, <1>2, CountNone
<1>5. stop[t] \in Returning
  BY <1>1 DEF Returning
<1> QED  BY <1>1, <1>2, <1>3, <1>4, <1>5, HandlerFollows

LEMMA Copying_Follows ==
  ASSUME TypeInv, Grouped, Follows, UNCHANGED strayed, NEW t \in Task, t \in Clean,
         Copying(t), status' = "running"
  PROVE  Follows'
<1> DEFINE c == call[t]
           b == SeenCloexec(t)
<1>1. /\ stop[t] = "return" /\ c.sc \in Dups \cup {"setfd"}
      /\ Done(t) /\ UNCHANGED <<sharers, credit>>
      /\ \/ CopyKept(t) /\ UNCHANGED <<fd_table, status>>
         \/ /\ ~CopyKept(t) /\ c.fd \in DOMAIN fd_table[t] /\ UNCHANGED status
            /\ fd_table_insert(t, CopyFd(t), CopyName(t), b)
  BY CopyingReturns
<1>2. c.sc \notin Openers \cup Pairs \cup {"execve", "close", "read", "write"}
  BY <1>1 DEF Openers, WithFlag, WithoutFlag, Pairs, Dups
<1>3. \A k \in Ops \X Name : credit'[k] = credit[k] + Cardinality(Own(t, k))
  BY <1>1, <1>2, CountNone
<1>4. stop[t] \in Returning /\ Pending(t)
  BY <1>1 DEF Returning, Follows, Followed
<1>5. ~ (c.fd >= 0) <=> c.fd < 0
  <2>1. c \in Registers
    BY <1>1 DEF TypeInv, Registered, Returning
  <2>2. c.fd \in FdArg
    BY <1>1, <2>1, RegistersFd
  <2>3. c.fd \in Int
    <3>1. c.fd \in Fd \/ c.fd = -1
      BY <2>2, Numbers
    <3>2. \A f \in Fd : f \in Int
      BY DEF Fd
    <3> QED  BY <3>1, <3>2
  <2> QED  BY <2>3
<1>6. CASE CopyKept(t) /\ UNCHANGED <<fd_table, status>>
  <2>1. /\ c.sc \in {"dup", "dup2", "dup3"} /\ (c.fd < 0 \/ c.fd = ret[t].rax)
        /\ ~Missing(t)
    BY <1>5, <1>6 DEF CopyKept, Missing
  <2>2. c.sc \in Dups
    BY <2>1 DEF Dups
  <2>3. Mirrors(fd_table[t], kernel[t])
    BY <1>4, <2>1, <2>2 DEF Pending
  <2> QED  BY <1>1, <1>2, <1>3, <1>4, <1>6, <2>3, HandlerFollows
<1>7. CASE /\ ~CopyKept(t) /\ c.fd \in DOMAIN fd_table[t] /\ UNCHANGED status
           /\ fd_table_insert(t, CopyFd(t), CopyName(t), b)
  <2> DEFINE T == Insert(fd_table[t], CopyFd(t), Entry(CopyName(t), b))
  <2>1. SetTable(t, T)
    BY <1>7 DEF fd_table_insert
  <2>2. ~Missing(t)
    BY <1>7 DEF Missing
  <2>3. ~ (c.sc \in {"dup", "dup2", "dup3"} /\ (c.fd < 0 \/ c.fd = ret[t].rax))
    BY <1>5, <1>7 DEF CopyKept
  <2>4. CASE c.sc = "setfd"
    <3>1. c.sc \notin Dups \cup Silent
      BY <2>4 DEF Dups, Silent
    <3>2. c \in Registers /\ c.cloexec \in BOOLEAN
      BY <1>4, RegistersFlag DEF TypeInv, Registered
    <3>3. b = c.cloexec
      BY <3>1, <3>2 DEF SeenCloexec
    <3>4. Mirrors(T, kernel[t])
      BY <1>4, <2>2, <2>4, <3>3 DEF Pending, CopyFd, CopyName
    <3> HIDE DEF T
    <3> QED  BY <1>1, <1>2, <1>3, <1>4, <1>7, <2>1, <3>4, HandlerFollows
  <2>5. CASE c.sc \in Dups
    <3>1. c.sc # "setfd"
      BY <2>5 DEF Dups
    <3>2. Mirrors(T, kernel[t])
      BY <1>4, <2>2, <2>3, <2>5, <3>1 DEF Pending, CopyFd, CopyName
    <3> HIDE DEF T
    <3> QED  BY <1>1, <1>2, <1>3, <1>4, <1>7, <2>1, <3>2, HandlerFollows
  <2> QED  BY <1>1, <2>4, <2>5
<1> QED  BY <1>1, <1>6, <1>7

\* The handlers with two sections.
LEMMA BetweenFollows ==
  ASSUME TypeInv, Grouped, Follows, UNCHANGED strayed, NEW t \in Task, t \in Clean,
         stop[t] \in Returning, call[t].sc \notin {"execve", "read", "write"},
         NEW s \in Returning, stop' = [stop EXCEPT ![t] = s],
         UNCHANGED <<kvars, sharers, call, status>>,
         \A u \in Task \ {t} : ret'[u] = ret[u],
         NEW T, SetTable(t, T) \/ (UNCHANGED fd_table /\ T = fd_table[t]),
         Pending(t)',
         \A k \in Ops \X Name :
           credit'[k] = credit[k] + Cardinality(Own(t, k)) - Cardinality(Own(t, k)')
  PROVE  Follows'
<1>1. HandlerKeeps(t, s, T)
  <2>1. s \in {"user", "return", "removing"} /\ stop'[t] = s
    BY DEF Returning, TypeInv, TypeOK
  <2>2. Stays(t, kernel[t], T)
    BY <2>1, HandlerStays
  <2> QED  BY <2>1, <2>2 DEF HandlerKeeps, Reading
<1>2. \A v \in Clean : Followed(v)'
  <2>1. \A v \in Clean : v \in Task /\ Followed(v)
    BY DEF Follows, Clean
  <2> QED  BY <1>1, <2>1, HandlerKeepsFollows
<1>3. ASSUME Counted
      PROVE  Counted'
  <2>1. \A u \in Task : u \notin sharers[t] => fd_table'[u] = fd_table[u]
    BY Tables
  <2>2. \A u \in Task \ {t} : \A i \in {1, 2} : \A k \in Ops \X Name : Owes(u, i, k)' <=> Owes(u, i, k)
    BY <2>1, OthersOwe
  <2> QED  BY <1>3, <2>2, CountedStep
<1> QED  BY <1>2, <1>3, AllFollow DEF Follows

LEMMA close_return_Follows ==
  ASSUME TypeInv, Grouped, Follows, UNCHANGED strayed, NEW t \in Task, t \in Clean, handle_close_return(t)
  PROVE  Follows'
<1> DEFINE c == call[t]
           name == Named(fd_table[t], c.fd)
<1>1. CASE /\ AtReturn(t, {"close"})
           /\ incr("close", name)
           /\ stop' = [stop EXCEPT ![t] = "removing"]
           /\ UNCHANGED <<kvars, tvars, call, ret, status>>
  <2>1. /\ stop[t] = "return" /\ c.sc = "close" /\ stop'[t] = "removing"
        /\ UNCHANGED <<kernel, fd_table, sharers, call, ret>>
    BY <1>1 DEF AtReturn, kvars, tvars, TypeInv, TypeOK
  <2>2. c.sc \notin Openers \cup Pairs
    BY <2>1 DEF Openers, WithFlag, WithoutFlag, Pairs
  <2>3. stop[t] \in Returning /\ "removing" \in Returning
    BY <2>1 DEF Returning
  <2>4. Pending(t)'
    <3>1. Pending(t)
      BY <2>3 DEF Follows, Followed
    <3> QED  BY <2>1, <3>1, PendingSame
  <2>5. \A k \in Ops \X Name :
          credit'[k] = credit[k] + Cardinality(Own(t, k)) - Cardinality(Own(t, k)')
    <3>1. \A k \in Ops \X Name : \A i \in {1, 2} : Owes(t, i, k) <=> i = 1 /\ k = <<"close", name>>
      BY <2>1, <2>2 DEF Owes
    <3>2. \A k \in Ops \X Name : credit'[k] = credit[k] + Cardinality(Own(t, k))
      BY <1>1, <3>1, CountOne
    <3>3. \A k : Own(t, k)' = {}
      BY <2>1 DEF Own, Owes
    <3>4. \A k : Cardinality(Own(t, k)') = 0
      BY <3>3, NoneOwed
    <3>5. \A k \in Ops \X Name : credit[k] \in Int
      BY DEF TypeInv, TypeOK
    <3>6. \A k : Own(t, k) \in SUBSET {1, 2}
      BY DEF Own
    <3>7. \A k : Cardinality(Own(t, k)) \in Nat
      BY <3>6, OneTwo
    <3> QED  BY <3>2, <3>4, <3>5, <3>7
  <2>6. UNCHANGED <<kvars, sharers, call, status>>
    BY <1>1, <2>1
  <2>7. stop' = [stop EXCEPT ![t] = "removing"]
    BY <1>1
  <2>8. c.sc \notin {"execve", "read", "write"}
    BY <2>1
  <2> QED  BY <2>1, <2>3, <2>4, <2>5, <2>6, <2>7, <2>8, BetweenFollows
<1>2. CASE /\ stop[t] = "removing"
           /\ fd_table_remove(t, c.fd)
           /\ Done(t)
           /\ UNCHANGED <<sharers, credit, status>>
  <2>1. c.sc = "close" /\ stop[t] \in Returning
    BY <1>2 DEF TypeInv, Registered, Returning
  <2>2. Mirrors(Remove(fd_table[t], c.fd), kernel[t])
    BY <2>1 DEF Follows, Followed, Pending
  <2>3. \A k \in Ops \X Name : credit'[k] = credit[k] + Cardinality(Own(t, k))
    BY <1>2, CountNone
  <2> QED  BY <1>2, <2>1, <2>2, <2>3, HandlerFollows DEF fd_table_remove
<1> QED  BY <1>1, <1>2 DEF handle_close_return

LEMMA Pairing_Follows ==
  ASSUME TypeInv, Grouped, Follows, UNCHANGED strayed, NEW t \in Task, t \in Clean, Pairing(t)
  PROVE  Follows'
<1> DEFINE c == call[t]
           b == SeenCloexec(t)
           f == ret[t].fds
           n == PairNames(t)
           e1 == Entry(n[1], b)
           e2 == Entry(n[2], b)
<1>1. stop[t] = "return" /\ c.sc \in Pairs /\ PairReturn(t, n[1], n[2], b)
  BY PairingReturns
<1>2. c.sc \notin Dups \cup Openers \cup {"close", "read", "write", "setfd", "execve", "untracked",
                                          "clone", "fork"}
  BY <1>1 DEF Openers, WithFlag, WithoutFlag, Dups, Pairs
<1>3. stop[t] \in Returning /\ Pending(t)
  BY <1>1 DEF Returning, Follows, Followed
<1>4. n = <<n[1], n[2]>>
  BY DEF PairNames
<1> HIDE DEF n
<1>5. CASE /\ ret[t].rax = 0 /\ Len(f) = 2
           /\ fd_table_insert(t, f[1], n[1], b)
           /\ Returns(t, 0, Tail(f))
           /\ UNCHANGED <<kvars, sharers, stop, call, credit, status>>
  <2> DEFINE T == Insert(fd_table[t], f[1], e1)
  <2>1. Mirrors(Insert(T, f[2], e2), kernel[t])
    BY <1>1, <1>3, <1>5 DEF Pending, n
  <2>2. SetTable(t, T)
    BY <1>5 DEF fd_table_insert
  <2>3. fd_table'[t] = T /\ kernel' = kernel /\ call' = call
    BY <1>5, <2>2, Groups DEF SetTable, kvars
  <2> HIDE DEF T
  <2>4. ret'[t].rax = 0 /\ ret'[t].fds = Tail(f) /\ \A u \in Task \ {t} : ret'[u] = ret[u]
    <3>1. Returns(t, 0, Tail(f))
      BY <1>5
    <3> HIDE DEF f
    <3> QED  BY <3>1, ReturnsShow, Zenon
  <2>5. Len(Tail(f)) = 1 /\ Tail(f)[1] = f[2]
    BY <1>5, PairFds
  <2>6. PairNames(t)' = n
    BY <2>3 DEF PairNames, n
  <2>7. Pending(t)'
    <3>1. Len(ret'[t].fds) = 1 /\ ret'[t].fds[1] = f[2] /\ ret'[t].rax = 0
      BY <2>4, <2>5
    <3>2. SeenCloexec(t)' = b
      BY <2>3 DEF SeenCloexec
    <3> HIDE DEF f, b
    <3> QED  BY <1>1, <1>2, <2>1, <2>3, <2>6, <3>1, <3>2 DEF Pending
  <2>8. \A k : Own(t, k)' = Own(t, k)
    <3>1. \A i, k : Owes(t, i, k)' <=> Owes(t, i, k)
      BY <1>1, <1>2, <1>5, <2>3, <2>4, <2>6 DEF Owes, n
    <3> QED  BY <3>1 DEF Own
  <2>9. \A k \in Ops \X Name :
          credit'[k] = credit[k] + Cardinality(Own(t, k)) - Cardinality(Own(t, k)')
    <3>1. \A k : Own(t, k) \in SUBSET {1, 2}
      BY DEF Own
    <3>2. \A k : Cardinality(Own(t, k)) \in Nat
      BY <3>1, OneTwo
    <3>3. \A k : Cardinality(Own(t, k)') = Cardinality(Own(t, k))
      BY <2>8
    <3>4. \A k \in Ops \X Name : credit[k] \in Int /\ credit'[k] = credit[k]
      BY <1>5 DEF TypeInv, TypeOK
    <3> QED  BY <3>2, <3>3, <3>4
  <2>10. "return" \in Returning /\ stop' = [stop EXCEPT ![t] = "return"]
    BY <1>1, <1>5 DEF Returning, TypeInv, TypeOK
  <2>11. UNCHANGED <<kvars, sharers, call, status>> /\ c.sc \notin {"execve", "read", "write"}
    BY <1>2, <1>5
  <2> QED  BY <1>3, <2>2, <2>4, <2>7, <2>9, <2>10, <2>11, BetweenFollows
<1>6. CASE /\ ret[t].rax = 0 /\ Len(f) = 1
           /\ fd_table_insert(t, f[1], n[2], b)
           /\ credit' = [k \in Ops \X Name |-> credit[k] + Opens(k, <<n[1], n[2]>>)]
           /\ Done(t)
           /\ UNCHANGED <<sharers, status>>
  <2> DEFINE T == Insert(fd_table[t], f[1], e2)
  <2>1. Mirrors(T, kernel[t])
    BY <1>1, <1>3, <1>6 DEF Pending, n
  <2>2. SetTable(t, T)
    BY <1>6 DEF fd_table_insert
  <2>3. \A k \in Ops \X Name : credit'[k] = credit[k] + Cardinality(Own(t, k))
    <3>1. SUFFICES ASSUME NEW k \in Ops \X Name
                   PROVE  Opens(k, n) = Cardinality(Own(t, k))
      BY <1>4, <1>6
    <3>2. \A i \in {1, 2} : Owes(t, i, k) <=> k = <<"open", n[i]>>
      BY <1>1, <1>2, <1>6 DEF Owes, n
    <3>3. CASE k[1] = "open"
      <4>1. \A i \in {1, 2} : k = <<"open", n[i]>> <=> n[i] = k[2]
        BY <3>3
      <4>2. Own(t, k) = {i \in {1, 2} : n[i] = k[2]}
        BY <3>2, <4>1 DEF Own
      <4> QED  BY <3>3, <4>2 DEF Opens
    <3>4. CASE k[1] # "open"
      <4>1. Own(t, k) = {}
        BY <3>2, <3>4 DEF Own
      <4> QED  BY <3>4, <4>1, NoneOwed DEF Opens
    <3> QED  BY <3>3, <3>4
  <2> HIDE DEF T
  <2> QED  BY <1>2, <1>3, <1>6, <2>1, <2>2, <2>3, HandlerFollows
<1>7. CASE ret[t].rax # 0 /\ Done(t) /\ UNCHANGED <<tvars, credit, status>>
  <2>1. Mirrors(fd_table[t], kernel[t])
    BY <1>1, <1>3, <1>7 DEF Pending
  <2>2. \A k \in Ops \X Name : credit'[k] = credit[k] + Cardinality(Own(t, k))
    BY <1>2, <1>7, CountNone
  <2>3. UNCHANGED <<fd_table, sharers, status>>
    BY <1>7 DEF tvars
  <2> QED  BY <1>2, <1>3, <1>7, <2>1, <2>2, <2>3, HandlerFollows
<1> QED  BY <1>1, <1>5, <1>6, <1>7 DEF PairReturn

-----------------------------------------------------------------------------
(* The steps that change who shares a table, of tasks iotrace follows.     *)

\* A step in which nothing is owed or counted.
LEMMA NothingOwed ==
  ASSUME TypeInv, Grouped, Follows, UNCHANGED <<strayed, credit>>,
         \A v \in Clean : Followed(v)',
         NEW S \in SUBSET Task,
         \A u \in S : \A i \in {1, 2} : \A k \in Ops \X Name : ~Owes(u, i, k) /\ ~Owes(u, i, k)',
         \A u \in Task \ S : /\ fd_table'[u] = fd_table[u] /\ call'[u] = call[u]
                             /\ ret'[u] = ret[u] /\ stop'[u] = stop[u]
  PROVE  Follows'
<1>1. ASSUME Counted
      PROVE  Counted'
  <2>1. \A u \in Task : \A i \in {1, 2} : \A k \in Ops \X Name : Owes(u, i, k)' <=> Owes(u, i, k)
    BY OwesSame
  <2> QED  BY <1>1, <2>1, CountedSame
<1> QED  BY <1>1, AllFollow DEF Follows

LEMMA FollowedClean ==
  Follows => \A v \in Clean : v \in Task /\ Followed(v)
BY DEF Follows, Clean

LEMMA handle_syscall_call_Follows ==
  ASSUME TypeInv, Grouped, Follows, UNCHANGED strayed, NEW t \in Task, handle_syscall_call(t)
  PROVE  Follows'
<1>1. /\ stop[t] = "user" /\ stop'[t] = "call"
      /\ \A u \in Task \ {t} : stop'[u] = stop[u] /\ call'[u] = call[u]
      /\ UNCHANGED <<fd_table, ret, credit>>
  BY DEF handle_syscall_call, tvars, TypeInv, TypeOK
<1>2. \A i, k : ~Owes(t, i, k) /\ ~Owes(t, i, k)'
  BY <1>1 DEF Owes
<1>3. \A v \in Clean : Followed(v)'
  BY FollowedClean, CallKeepsFollows
<1>4. /\ \A u \in {t} : \A i \in {1, 2} : \A k \in Ops \X Name : ~Owes(u, i, k) /\ ~Owes(u, i, k)'
      /\ {t} \in SUBSET Task
      /\ \A u \in Task \ {t} : /\ fd_table'[u] = fd_table[u] /\ call'[u] = call[u]
                               /\ ret'[u] = ret[u] /\ stop'[u] = stop[u]
      /\ UNCHANGED <<strayed, credit>>
  BY <1>1, <1>2
<1> QED  BY <1>3, <1>4, NothingOwed

LEMMA Execs_Follows ==
  ASSUME TypeInv, Grouped, Follows, NEW t \in Task, Watched(t), Execs(t)
  PROVE  Follows'
<1>1. /\ stop[t] = "call" /\ call[t].sc = "execve" /\ UNCHANGED <<fd_table, call, credit>>
      /\ \A u \in Task \ {t} : stop'[u] = stop[u] /\ ret'[u] = ret[u]
  BY ExecsChange DEF Execs
<1>2. \A i, k : ~Owes(t, i, k) /\ ~Owes(t, i, k)'
  BY <1>1 DEF Owes, Openers, WithFlag, WithoutFlag, Pairs
<1>3. \A v \in Clean : Followed(v)'
  BY FollowedClean, ExecsFollows DEF Watched, Strays
<1>4. /\ \A u \in {t} : \A i \in {1, 2} : \A k \in Ops \X Name : ~Owes(u, i, k) /\ ~Owes(u, i, k)'
      /\ {t} \in SUBSET Task
      /\ \A u \in Task \ {t} : /\ fd_table'[u] = fd_table[u] /\ call'[u] = call[u]
                               /\ ret'[u] = ret[u] /\ stop'[u] = stop[u]
      /\ UNCHANGED <<strayed, credit>>
  BY <1>1, <1>2 DEF Watched
<1> QED  BY <1>3, <1>4, NothingOwed

LEMMA execve_return_Follows ==
  ASSUME TypeInv, Grouped, Follows, UNCHANGED strayed, NEW t \in Task, t \in Clean,
         handle_execve_return(t)
  PROVE  Follows'
<1>1. /\ stop[t] = "return" /\ call[t].sc = "execve" /\ stop'[t] = "user" /\ UNCHANGED credit
      /\ \A u \in Task \ {t} : stop'[u] = stop[u] /\ call'[u] = call[u] /\ ret'[u] = ret[u]
      /\ \A u \in Task \ {t} : fd_table'[u] = fd_table[u]
  BY ExecReturns
<1>2. \A i, k : ~Owes(t, i, k) /\ ~Owes(t, i, k)'
  BY <1>1 DEF Owes, Openers, WithFlag, WithoutFlag, Pairs
<1>3. \A v \in Clean : Followed(v)'
  BY FollowedClean, ExecReturnFollows
<1>4. /\ \A u \in {t} : \A i \in {1, 2} : \A k \in Ops \X Name : ~Owes(u, i, k) /\ ~Owes(u, i, k)'
      /\ {t} \in SUBSET Task
      /\ \A u \in Task \ {t} : /\ fd_table'[u] = fd_table[u] /\ call'[u] = call[u]
                               /\ ret'[u] = ret[u] /\ stop'[u] = stop[u]
      /\ UNCHANGED <<strayed, credit>>
  BY <1>1, <1>2
<1> QED  BY <1>3, <1>4, NothingOwed

LEMMA kernel_clone_Follows ==
  ASSUME TypeInv, Grouped, Follows, NEW t \in Task, Watched(t), NEW n \in Task, kernel_clone(t, n)
  PROVE  Follows'
<1>1. /\ stop[t] = "call" /\ stop[n] = "unborn" /\ stop'[t] = "event" /\ stop'[n] = "new"
      /\ \A u \in Task \ {t, n} : stop'[u] = stop[u]
      /\ UNCHANGED <<fd_table, call, ret, credit>>
  BY Clones
<1>2. \A i, k : \A u \in {t, n} : ~Owes(u, i, k) /\ ~Owes(u, i, k)'
  BY <1>1 DEF Owes
<1>3. \A v \in Clean : Followed(v)'
  BY FollowedClean, ClonesFollows DEF Watched, Strays
<1>4. /\ \A u \in {t, n} : \A i \in {1, 2} : \A k \in Ops \X Name : ~Owes(u, i, k) /\ ~Owes(u, i, k)'
      /\ {t, n} \in SUBSET Task
      /\ \A u \in Task \ {t, n} : /\ fd_table'[u] = fd_table[u] /\ call'[u] = call[u]
                                  /\ ret'[u] = ret[u] /\ stop'[u] = stop[u]
      /\ UNCHANGED <<strayed, credit>>
  BY <1>1, <1>2 DEF Watched
<1> QED  BY <1>3, <1>4, NothingOwed

LEMMA threads_add_Follows ==
  ASSUME TypeInv, Grouped, Follows, UNCHANGED strayed, NEW t \in Task, t \in Clean, threads_add(t)
  PROVE  Follows'
<1> DEFINE n == new_child[t]
<1>1. /\ stop[t] = "event" /\ stop[n] = "new" /\ stop'[n] = "user" /\ n \in Task
      /\ call[t].sc \in {"clone", "fork"}
      /\ \A u \in Task \ {t, n} : stop'[u] = stop[u]
      /\ UNCHANGED <<call, ret, credit>>
      /\ \A u \in Task : fd_table'[u] = IF u = n THEN fd_table[t] ELSE fd_table[u]
  BY Adds
<1>2. \A i, k : \A u \in {t, n} : ~Owes(u, i, k) /\ ~Owes(u, i, k)'
  BY <1>1 DEF Owes, Openers, WithFlag, WithoutFlag, Pairs
<1>3. \A v \in Clean : Followed(v)'
  BY FollowedClean, AddsFollows
<1>4. /\ \A u \in {t, n} : \A i \in {1, 2} : \A k \in Ops \X Name : ~Owes(u, i, k) /\ ~Owes(u, i, k)'
      /\ {t, n} \in SUBSET Task
      /\ \A u \in Task \ {t, n} : /\ fd_table'[u] = fd_table[u] /\ call'[u] = call[u]
                                  /\ ret'[u] = ret[u] /\ stop'[u] = stop[u]
      /\ UNCHANGED <<strayed, credit>>
  BY <1>1, <1>2
<1> QED  BY <1>3, <1>4, NothingOwed

-----------------------------------------------------------------------------
(* The steps of the kernel.                                                *)

\* The calls that leave who shares a table alone.
InPlace(t) ==
  \/ kernel_open(t) \/ kernel_pair(t) \/ kernel_close(t) \/ kernel_read_write(t)
  \/ kernel_dup(t) \/ kernel_setfd(t) \/ kernel_untracked(t)
  \/ Executes(t, {"execve"}) /\ Fails(t, ENOENT) /\ OweNothing

LEMMA InPlaceStays ==
  ASSUME TypeInv, Grouped, NEW t \in Task, InPlace(t)
  PROVE  /\ stop[t] = "call" /\ stop' = [stop EXCEPT ![t] = "return"] /\ UNCHANGED new_child
         /\ \E K : Stays(t, K, fd_table[t])
<1> DEFINE Goal == /\ stop[t] = "call" /\ stop' = [stop EXCEPT ![t] = "return"]
                   /\ UNCHANGED new_child
                   /\ \E K : Stays(t, K, fd_table[t])
<1> SUFFICES Goal
  OBVIOUS
<1>1. ASSUME NEW scs, Executes(t, scs), NEW K, SetKernel(t, K), NEW rax, NEW fds, Returns(t, rax, fds)
      PROVE  Goal
  <2>1. Stays(t, K, fd_table[t])
    BY <1>1, KernelStays
  <2> QED  BY <1>1, <2>1 DEF Executes, SetKernel
<1>2. ASSUME NEW scs, Executes(t, scs), UNCHANGED kvars, NEW rax, NEW fds, Returns(t, rax, fds)
      PROVE  Goal
  <2>1. Stays(t, kernel[t], fd_table[t])
    BY <1>2, KernelStays
  <2> QED  BY <1>2, <2>1 DEF Executes, kvars
<1>3. ASSUME NEW scs, Executes(t, scs), NEW errno, Fails(t, errno)
      PROVE  Goal
  BY <1>2, <1>3 DEF Fails
<1> HIDE DEF Goal
<1>4. CASE kernel_open(t)
  BY <1>1, <1>3, <1>4 DEF kernel_open
<1>5. CASE kernel_pair(t)
  BY <1>1, <1>3, <1>5 DEF kernel_pair
<1>6. CASE kernel_close(t)
  BY <1>1, <1>3, <1>6 DEF kernel_close
<1>7. CASE kernel_read_write(t)
  BY <1>2, <1>3, <1>7 DEF kernel_read_write
<1>8. CASE kernel_dup(t)
  BY <1>1, <1>2, <1>3, <1>8 DEF kernel_dup
<1>9. CASE kernel_setfd(t)
  BY <1>1, <1>3, <1>9 DEF kernel_setfd
<1>10. CASE kernel_untracked(t)
  BY <1>1, <1>10 DEF kernel_untracked
<1>11. CASE Executes(t, {"execve"}) /\ Fails(t, ENOENT)
  BY <1>3, <1>11
<1> QED
  BY <1>4, <1>5, <1>6, <1>7, <1>8, <1>9, <1>10, <1>11 DEF InPlace

LEMMA Growing ==
  ASSUME NEW t, Follow(t)
  PROVE  strayed \subseteq strayed'
BY DEF Follow

\* Beyond a set that no table leads out of.
LEMMA Beyond ==
  ASSUME TypeInv, Grouped, NEW S, Sealed(S), NEW t \in S, NEW v \in Task \ S
  PROVE  t \in Task /\ v # t /\ v \notin Partners(t)
BY DEF Sealed

\* Nothing is claimed of the tasks that strayed, or of the account.
LEMMA StrayFollows ==
  ASSUME strayed' # {}, \A v \in Task \ strayed' : Followed(v)'
  PROVE  Follows'
BY DEF Follows, Clean

LEMMA CleanGroups ==
  Follows => \A v \in Clean : SameGroups(v)
BY DEF Follows, Followed

LEMMA InPlaceKeeps ==
  ASSUME TypeInv, Grouped, Follows, NEW t \in Task, InPlace(t), Follow(t)
  PROVE  Grouped' /\ Follows'
<1>1. PICK K : Stays(t, K, fd_table[t])
  BY InPlaceStays
<1>2. /\ stop[t] = "call" /\ stop' = [stop EXCEPT ![t] = "return"] /\ UNCHANGED new_child
      /\ \A v \in Clean : SameGroups(v)
  BY InPlaceStays, CleanGroups
<1>3. /\ Sealed(strayed') /\ strayed \subseteq strayed'
      /\ t \notin strayed' => strayed' = strayed /\ ~Strays(t)
  BY <1>2, Straying, Growing
<1>4. Grouped'
  BY <1>1, <1>3, StaysGrouped DEF Strays
<1>5. CASE t \notin strayed'
  <2>1. Watched(t)
    BY <1>3, <1>5 DEF Watched, Clean
  <2> QED
    BY <1>4, <2>1, kernel_open_Follows, kernel_pair_Follows, kernel_close_Follows,
       kernel_read_write_Follows, kernel_dup_Follows, kernel_setfd_Follows,
       kernel_untracked_Follows, FailedExecve DEF InPlace
<1>6. CASE t \in strayed'
  <2>1. ASSUME NEW v \in Task \ strayed'
        PROVE  Followed(v)'
    <3>1. v \in Task /\ Followed(v) /\ v # t /\ v \notin Partners(t)
      BY <1>3, <1>6, Beyond DEF Follows, Clean
    <3> QED  BY <1>1, <3>1, StaysBeyond
  <2> QED  BY <1>4, <1>6, <2>1, StrayFollows
<1> QED  BY <1>5, <1>6

LEMMA ExecsKeeps ==
  ASSUME TypeInv, Grouped, Follows, NEW t \in Task, Execs(t), Follow(t)
  PROVE  Grouped' /\ Follows'
<1>1. /\ stop[t] = "call" /\ stop' = [stop EXCEPT ![t] = "return"] /\ UNCHANGED new_child
      /\ \A v \in Clean : SameGroups(v)
  BY CleanGroups DEF Execs
<1>2. /\ Sealed(strayed') /\ strayed \subseteq strayed'
      /\ t \notin strayed' => strayed' = strayed /\ ~Strays(t)
  BY <1>1, Straying, Growing
<1>3. Grouped'
  BY <1>2, ExecsGrouped
<1>4. CASE t \notin strayed'
  <2>1. Watched(t)
    BY <1>2, <1>4 DEF Watched, Clean
  <2> QED  BY <1>3, <2>1, Execs_Follows
<1>5. CASE t \in strayed'
  <2>1. ASSUME NEW v \in Task \ strayed'
        PROVE  Followed(v)'
    <3>1. v \in Task /\ Followed(v) /\ v # t /\ v \notin Partners(t)
      BY <1>2, <1>5, Beyond DEF Follows, Clean
    <3> QED  BY <3>1, ExecsBeyond
  <2> QED  BY <1>3, <1>5, <2>1, StrayFollows
<1> QED  BY <1>4, <1>5

LEMMA CloneKeeps ==
  ASSUME TypeInv, Grouped, Follows, NEW t \in Task, NEW n \in Task, kernel_clone(t, n), Follow(t)
  PROVE  Grouped' /\ Follows'
<1>1. \A v \in Clean : SameGroups(v)
  BY CleanGroups
<1>2. CASE strayed' = strayed /\ t \notin strayed /\ ~Strays(t)
  <2>1. Watched(t)
    BY <1>2 DEF Watched, Clean
  <2>2. Sealed(strayed)
    BY StrayedSealed
  <2>3. Grouped'
    BY <1>2, <2>2, ClonesGrouped
  <2> QED  BY <2>1, <2>3, kernel_clone_Follows
<1>3. ASSUME NEW S, Sealed(S), t \in S, strayed \subseteq S, strayed' = S \cup {n}
      PROVE  Grouped' /\ Follows'
  <2>1. Grouped'
    BY <1>3, ClonesGrouped
  <2>2. ASSUME NEW v \in Task \ strayed'
        PROVE  Followed(v)'
    <3>1. v \in Task /\ Followed(v) /\ v # t /\ v # n /\ v \notin Partners(t)
      BY <1>3, <2>2, Beyond DEF Follows, Clean
    <3> QED  BY <3>1, ClonesBeyond
  <2> QED  BY <1>3, <2>1, <2>2, StrayFollows
<1> QED  BY <1>1, <1>2, <1>3, ClonesStray

LEMMA KernelKeepsAll ==
  ASSUME TypeInv, Grouped, Follows, NEW t \in Task, Kernel(t), Follow(t)
  PROVE  Grouped' /\ Follows'
<1>1. CASE kernel_execve(t)
  <2>1. Execs(t) \/ (Executes(t, {"execve"}) /\ Fails(t, ENOENT) /\ OweNothing)
    BY <1>1 DEF kernel_execve, Execs, Executes, OweNothing, tvars
  <2> QED  BY <2>1, ExecsKeeps, InPlaceKeeps DEF InPlace
<1>2. CASE \E n \in Task : kernel_clone(t, n)
  BY <1>2, CloneKeeps
<1>3. CASE \/ kernel_open(t) \/ kernel_pair(t) \/ kernel_close(t) \/ kernel_read_write(t)
           \/ kernel_dup(t) \/ kernel_setfd(t) \/ kernel_untracked(t)
  BY <1>3, InPlaceKeeps DEF InPlace
<1> QED  BY <1>1, <1>2, <1>3 DEF Kernel

-----------------------------------------------------------------------------
(* The steps of iotrace.                                                   *)

\* The handlers that leave who shares a table alone.
Handling(t) ==
  \/ Opening(t) \/ Pairing(t) \/ handle_close_return(t) \/ Using(t) \/ Copying(t)
  \/ handle_unconsidered_return(t)

LEMMA HandlingStays ==
  ASSUME TypeInv, Grouped, NEW t \in Task, Handling(t)
  PROVE  \E T : Stays(t, kernel[t], T)
<1>1. ASSUME stop[t] \in Returning, NEW s \in {"user", "return", "removing"},
             stop' = [stop EXCEPT ![t] = s], UNCHANGED <<kvars, sharers>>,
             \A u \in Task \ {t} : call'[u] = call[u] /\ ret'[u] = ret[u],
             NEW T, SetTable(t, T) \/ (UNCHANGED fd_table /\ T = fd_table[t])
      PROVE  \E U : Stays(t, kernel[t], U)
  BY <1>1, HandlerStays
<1>2. ASSUME stop[t] \in Returning, Done(t), UNCHANGED sharers,
             NEW T, SetTable(t, T) \/ (UNCHANGED fd_table /\ T = fd_table[t])
      PROVE  \E U : Stays(t, kernel[t], U)
  <2>1. /\ stop' = [stop EXCEPT ![t] = "user"] /\ UNCHANGED kvars
        /\ \A u \in Task \ {t} : call'[u] = call[u] /\ ret'[u] = ret[u]
    BY <1>2 DEF Done, TypeInv, TypeOK
  <2> QED  BY <1>1, <1>2, <2>1
<1>3. "return" \in Returning /\ "removing" \in Returning
  BY DEF Returning
<1>4. CASE Opening(t)
  <2>1. stop[t] = "return" /\ OpenReturn(t, OpenedName(t), call[t].cloexec)
    BY <1>4, OpeningReturns
  <2> QED  BY <1>2, <1>3, <2>1 DEF OpenReturn, fd_table_insert
<1>5. CASE Pairing(t)
  <2>1. PICK c \in BOOLEAN : PairReturn(t, PairNames(t)[1], PairNames(t)[2], c)
    BY <1>5, PairingReturns
  <2>2. stop[t] = "return"
    BY <1>5, PairingReturns
  <2>3. CASE /\ fd_table_insert(t, ret[t].fds[1], PairNames(t)[1], c)
             /\ Returns(t, 0, Tail(ret[t].fds))
             /\ UNCHANGED <<kvars, sharers, stop, call>>
    <3>1. stop' = [stop EXCEPT ![t] = "return"]
      BY <2>2, <2>3 DEF TypeInv, TypeOK
    <3>2. Returns(t, 0, Tail(ret[t].fds))
      BY <2>3
    <3>3. \A u \in Task \ {t} : ret'[u] = ret[u]
      BY <3>2, ReturnsShow, Zenon
    <3> QED  BY <1>1, <1>3, <2>2, <2>3, <3>1, <3>3 DEF fd_table_insert
  <2>4. CASE /\ fd_table_insert(t, ret[t].fds[1], PairNames(t)[2], c)
             /\ Done(t) /\ UNCHANGED sharers
    BY <1>2, <1>3, <2>2, <2>4 DEF fd_table_insert
  <2>5. CASE Done(t) /\ UNCHANGED tvars
    BY <1>2, <1>3, <2>2, <2>5 DEF tvars
  <2> QED  BY <2>1, <2>3, <2>4, <2>5 DEF PairReturn
<1>6. CASE handle_close_return(t)
  <2>1. CASE /\ AtReturn(t, {"close"})
             /\ stop' = [stop EXCEPT ![t] = "removing"]
             /\ UNCHANGED <<kvars, tvars, call, ret>>
    BY <1>1, <1>3, <2>1 DEF AtReturn, tvars
  <2>2. CASE /\ stop[t] = "removing" /\ fd_table_remove(t, call[t].fd)
             /\ Done(t) /\ UNCHANGED sharers
    BY <1>2, <1>3, <2>2 DEF fd_table_remove
  <2> QED  BY <1>6, <2>1, <2>2 DEF handle_close_return
<1>7. CASE Using(t)
  BY <1>2, <1>3, <1>7, UsingReturns DEF tvars
<1>8. CASE Copying(t)
  <2>1. /\ stop[t] = "return" /\ Done(t) /\ UNCHANGED sharers
        /\ \/ UNCHANGED fd_table
           \/ \E c : fd_table_insert(t, CopyFd(t), CopyName(t), c)
    BY <1>8, CopyingReturns
  <2> QED  BY <1>2, <1>3, <2>1 DEF fd_table_insert
<1>9. CASE handle_unconsidered_return(t)
  BY <1>2, <1>3, <1>9 DEF handle_unconsidered_return, AtReturn, NoTableChange, tvars
<1> QED  BY <1>4, <1>5, <1>6, <1>7, <1>8, <1>9 DEF Handling

LEMMA HandlingKeeps ==
  ASSUME TypeInv, Grouped, Follows, UNCHANGED strayed, status' = "running",
         NEW t \in Task, Handling(t)
  PROVE  Grouped' /\ Follows'
<1>1. PICK T : Stays(t, kernel[t], T)
  BY HandlingStays
<1>2. Sealed(strayed)
  BY StrayedSealed
<1>3. Grouped'
  BY <1>1, <1>2, StaysGrouped
<1>4. CASE t \in Clean
  BY <1>3, <1>4, Opening_Follows, Pairing_Follows, close_return_Follows, Using_Follows,
     Copying_Follows, unconsidered_return_Follows DEF Handling
<1>5. CASE t \in strayed
  <2>1. ASSUME NEW v \in Task \ strayed
        PROVE  Followed(v)'
    <3>1. v \in Task /\ Followed(v) /\ v # t /\ v \notin Partners(t)
      BY <1>2, <1>5, Beyond DEF Follows, Clean
    <3> QED  BY <1>1, <3>1, StaysBeyond
  <2> QED  BY <1>3, <1>5, <2>1, StrayFollows
<1> QED  BY <1>4, <1>5 DEF Clean

LEMMA CallKeeps ==
  ASSUME TypeInv, Grouped, Follows, UNCHANGED strayed, NEW t \in Task, handle_syscall_call(t)
  PROVE  Grouped' /\ Follows'
<1>1. Stays(t, kernel[t], fd_table[t]) /\ Sealed(strayed)
  BY CallStays, StrayedSealed
<1>2. Grouped'
  BY <1>1, StaysGrouped
<1> QED  BY <1>2, handle_syscall_call_Follows

LEMMA ExecReturnKeeps ==
  ASSUME TypeInv, Grouped, Follows, UNCHANGED strayed, NEW t \in Task, handle_execve_return(t)
  PROVE  Grouped' /\ Follows'
<1>1. Grouped' /\ Sealed(strayed)
  BY ExecReturnGrouped, StrayedSealed
<1>2. CASE t \in Clean
  BY <1>1, <1>2, execve_return_Follows
<1>3. CASE t \in strayed
  <2>1. ASSUME NEW v \in Task \ strayed
        PROVE  Followed(v)'
    <3>1. v \in Task /\ Followed(v) /\ v # t /\ v \notin Partners(t)
      BY <1>1, <1>3, Beyond DEF Follows, Clean
    <3> QED  BY <3>1, ExecReturnBeyond
  <2> QED  BY <1>1, <1>3, <2>1, StrayFollows
<1> QED  BY <1>2, <1>3 DEF Clean

LEMMA AddKeeps ==
  ASSUME TypeInv, Grouped, Follows, UNCHANGED strayed, NEW t \in Task, threads_add(t)
  PROVE  Grouped' /\ Follows'
<1>1. Grouped' /\ Sealed(strayed)
  BY AddsGrouped, StrayedSealed
<1>2. CASE t \in Clean
  BY <1>1, <1>2, threads_add_Follows
<1>3. CASE t \in strayed
  <2>1. ASSUME NEW v \in Task \ strayed
        PROVE  Followed(v)'
    <3>1. v \in Task /\ Followed(v) /\ v # t /\ v \notin Partners(t)
      BY <1>1, <1>3, Beyond DEF Follows, Clean
    <3>2. new_child[t] \in strayed
      BY <1>3, Adds
    <3> QED  BY <3>1, <3>2, AddsBeyond
  <2> QED  BY <1>1, <1>3, <2>1, StrayFollows
<1> QED  BY <1>2, <1>3 DEF Clean

-----------------------------------------------------------------------------
(* The theorems.                                                           *)

LEMMA StepsKeep ==
  ASSUME TypeInv, Grouped, Follows, NEW t \in Task, Steps(t), status' = "running"
  PROVE  Grouped' /\ Follows'
<1>1. CASE Kernel(t) /\ Follow(t)
  BY <1>1, KernelKeepsAll
<1>2. ASSUME Handles(t), UNCHANGED strayed
      PROVE  Grouped' /\ Follows'
  BY <1>2, CallKeeps, HandlingKeeps, ExecReturnKeeps, AddKeeps DEF Handles, Handling
<1> QED  BY <1>1, <1>2 DEF Steps

LEMMA InitFollows ==
  Init => Grouped /\ Follows
<1> SUFFICES ASSUME Init PROVE Grouped /\ Follows
  OBVIOUS
<1>1. /\ ksharers = [t \in Task |-> {t}] /\ sharers = [t \in Task |-> {t}]
      /\ stop = [t \in Task |-> IF t = First THEN "user" ELSE "unborn"]
      /\ \A t \in Task : kernel[t] = fd_table[t] /\ -1 \notin DOMAIN fd_table[t]
      /\ credit = [k \in Ops \X Name |-> 0] /\ strayed = {}
  BY DEF Init
<1>2. Grouped
  BY <1>1 DEF Grouped, Shared, Unborn, Newborn, Closed
<1>3. \A t \in Task : SameGroups(t) /\ OneInFlight(t) /\ stop[t] \notin Returning
  BY <1>1 DEF SameGroups, OneInFlight, InFlight, Returning, Leaving
<1>4. \A t \in Task : Settled(t)
  BY <1>1 DEF Settled, Mirrors
<1>5. Counted
  <2>1. \A k : Owed(k) = {}
    BY <1>1 DEF Owed, Owes
  <2>2. \A k : Cardinality(Owed(k)) = 0
    BY <2>1, NoneOwed
  <2> QED  BY <1>1, <2>2 DEF Counted
<1> QED  BY <1>2, <1>3, <1>4, <1>5 DEF Follows, Followed, Clean

LEMMA StutterFollows ==
  Grouped /\ Follows /\ UNCHANGED vars => Grouped' /\ Follows'
<1> SUFFICES ASSUME Grouped, Follows, UNCHANGED vars PROVE Grouped' /\ Follows'
  OBVIOUS
<1>1. UNCHANGED <<kernel, ksharers, new_child, fd_table, sharers, stop, call, ret, credit,
                  status, strayed>>
  BY DEF vars, kvars, tvars
<1>2. Grouped'
  BY <1>1 DEF Grouped, Shared, Unborn, Newborn, Closed, Partners, Clean
<1>3. \A v \in Clean : Followed(v)'
  BY <1>1, FollowedSame DEF Follows
<1>4. Counted => Counted'
  <2>1. \A u \in Task : \A i \in {1, 2} : \A k \in Ops \X Name : Owes(u, i, k)' <=> Owes(u, i, k)
    BY <1>1, OwesSame
  <2> QED  BY <1>1, <2>1, CountedSame
<1> QED  BY <1>1, <1>2, <1>3, <1>4, AllFollow DEF Follows

LEMMA Inductive ==
  IInv /\ [Next]_vars => IInv'
<1> SUFFICES ASSUME IInv, [Next]_vars PROVE IInv'
  OBVIOUS
<1>1. TypeInv /\ TypeInv'
  BY NextType DEF IInv, TypeInv
<1>2. ASSUME status' = "running"
      PROVE  Grouped' /\ Follows'
  <2>1. CASE Next
    <3>1. status = "running" /\ \E t \in Task : Steps(t)
      BY <2>1, NextSteps
    <3> QED  BY <1>1, <1>2, <3>1, StepsKeep DEF IInv
  <2>2. CASE UNCHANGED vars
    <3>1. status = "running"
      BY <1>2, <2>2 DEF vars
    <3> QED  BY <2>2, <3>1, StutterFollows DEF IInv
  <2> QED  BY <2>1, <2>2
<1> QED  BY <1>1, <1>2 DEF IInv, TypeInv

\* Under every schedule and whatever fails, iotrace knows what the table of a
\* task will be when the returns on their way have been handled, unless a call
\* reached the table that iotrace cannot follow.
THEOREM Invariance == Spec => []IInv
<1>1. Init => IInv
  BY InitType, InitFollows DEF IInv, TypeInv
<1> QED  BY <1>1, Inductive, PTL DEF Spec

\* When the calls of a task and of those it shares a table with have been
\* handled, iotrace sees the kernel's name behind every descriptor, whatever was
\* opened, duplicated, closed, shared or executed, and whatever happened to other
\* tables: for every task whose table was reached by no race, no flag that
\* escapes, no failed execve that matters and no pair that could not be read.
THEOREM NamesFollow == Spec => []NamesMirrored
<1>1. IInv => NamesMirrored
  <2> SUFFICES ASSUME IInv, NEW t \in Task \ strayed, status = "running", Handled(t), NEW f \in Fd
               PROVE  Named(fd_table[t], f) = Named(kernel[t], f)
    BY DEF NamesMirrored
  <2>1. TypeInv /\ Followed(t)
    BY DEF IInv, TypeInv, Follows, Clean
  <2>2. Mirrors(fd_table[t], kernel[t])
    BY <2>1 DEF Followed, Settled, Handled, Returning
  <2> QED  BY <2>1, <2>2, MirrorsNamed DEF TypeInv, TypeOK
<1> QED  BY <1>1, Invariance, PTL

\* So are the close-on-exec flags of such a task those of the kernel.
THEOREM CloexecFollows == Spec => []CloexecMirrored
<1>1. IInv => CloexecMirrored
  <2> SUFFICES ASSUME IInv, NEW t \in Task \ strayed, status = "running", Handled(t),
                      NEW f \in Fd \cap DOMAIN fd_table[t]
               PROVE  f \in DOMAIN kernel[t] /\ fd_table[t][f].cloexec = kernel[t][f].cloexec
    BY DEF CloexecMirrored
  <2>1. Mirrors(fd_table[t], kernel[t])
    BY DEF IInv, Follows, Followed, Settled, Handled, Returning, Clean
  <2> QED  BY <2>1 DEF Mirrors
<1> QED  BY <1>1, Invariance, PTL

\* Until a first call that iotrace cannot follow, every attempt is counted once,
\* for the file it went to.
THEOREM AttemptsCounted == Spec => []CreditKept
<1>1. IInv => CreditKept
  <2> SUFFICES ASSUME IInv, strayed = {}, status = "running",
                      \A t \in Task : stop[t] \notin Returning, NEW k \in Ops \X Name
               PROVE  credit[k] = 0
    BY DEF CreditKept, CreditExact
  <2>1. credit[k] = -Cardinality(Owed(k))
    BY DEF IInv, Follows, Counted
  <2>2. Owed(k) = {}
    BY DEF Owed, Owes, Returning
  <2> QED  BY <2>1, <2>2, NoneOwed
<1> QED  BY <1>1, Invariance, PTL

=============================================================================
