--------------------------- MODULE FileStatsProof ---------------------------
(***************************************************************************)
(* Every table keeps its type and is exact: those of a thread are the      *)
(* statistics of what it has counted, those of main the statistics of all  *)
(* the threads merged so far.  The argument is that the statistics of two  *)
(* bags of syscalls together are their statistics merged, and that the     *)
(* statistics of a bag with one syscall more are what the incr functions   *)
(* make of them; both rest on facts about sums over finite sets.  The      *)
(* order of merging does not show, the block sizes account for the bytes,  *)
(* the names are those of the table of the kernel, and the document        *)
(* written at the end gives back the tables it was written from.           *)
(***************************************************************************)
EXTENDS FileStats, TLAPS, FiniteSetTheorems, WellFoundedInduction, SequenceTheorems

-----------------------------------------------------------------------------
(* Sums.  The induction is over a set of sets, or of numbers, in the place  *)
(* of a predicate.                                                         *)

\* Among sets of members of a finite set there is a smallest.
LEMMA MinimalSet ==
  ASSUME NEW S, IsFiniteSet(S), NEW B, B \subseteq SUBSET S, B # {}
  PROVE  \E m \in B : \A t \in B : t \subseteq m => t = m
<1>1. IsWellFoundedOn(StrictSubsetOrdering(S), SUBSET S)
  BY FS_StrictSubsetOrderingWellFounded, FS_FiniteSubsetsOfFinite, Zenon
<1>2. PICK m \in B : \A t \in B : ~(<<t, m>> \in StrictSubsetOrdering(S))
  BY <1>1, WFMin, Zenon
<1>3. ASSUME NEW t \in B, t \subseteq m, t # m PROVE FALSE
  BY <1>2, <1>3 DEF StrictSubsetOrdering
<1> QED
  BY <1>3

\* Induction over a finite set, with a set for the predicate.
LEMMA SetInduction ==
  ASSUME NEW S, IsFiniteSet(S), NEW G, {} \in G,
         \A T \in SUBSET S, x \in S : T \in G /\ x \notin T => T \cup {x} \in G
  PROVE  S \in G
<1> SUFFICES ASSUME S \notin G PROVE FALSE
  OBVIOUS
<1> DEFINE B == {T \in SUBSET S : T \notin G}
<1>1. B \subseteq SUBSET S /\ B # {}
  OBVIOUS
<1> HIDE DEF B
<1>2. PICK m \in B : \A t \in B : t \subseteq m => t = m
  BY <1>1, MinimalSet
<1>3. m # {} /\ m \subseteq S /\ m \notin G
  BY <1>2 DEF B
<1>4. PICK x \in m : TRUE
  BY <1>3
<1>5. m \ {x} \in G
  <2>1. m \ {x} \notin B
    BY <1>2, <1>4
  <2> QED
    BY <1>3, <2>1 DEF B
<1>6. (m \ {x}) \cup {x} = m
  BY <1>4
<1> QED
  BY <1>3, <1>4, <1>5, <1>6

\* Induction over the natural numbers, likewise.
LEMMA NatSetInduction ==
  ASSUME NEW G, 0 \in G, \A n \in Nat : n \in G => n + 1 \in G
  PROVE  \A n \in Nat : n \in G
<1> SUFFICES ASSUME NEW k \in Nat, k \notin G PROVE FALSE
  OBVIOUS
<1> DEFINE B == {n \in Nat : n \notin G}
<1>1. B \subseteq Nat /\ B # {}
  OBVIOUS
<1> HIDE DEF B
<1>2. PICK m \in B : \A n \in B : ~(<<n, m>> \in OpToRel(<, Nat))
  BY <1>1, NatLessThanWellFounded, WFMin, Zenon
<1>3. m \in Nat /\ m \notin G
  BY <1>2 DEF B
<1>4. m - 1 \in Nat /\ m - 1 < m
  BY <1>3
<1>5. <<m - 1, m>> \in OpToRel(<, Nat)
  BY <1>3, <1>4 DEF OpToRel
<1>6. m - 1 \in G
  BY <1>2, <1>4, <1>5 DEF B
<1> QED
  BY <1>3, <1>4, <1>6

\* The member the sum takes first.
Some(s) == CHOOSE x \in s : TRUE

\* F sums f over every part of S, one member after another.
Sums(F, f, S) ==
  F = [s \in SUBSET S |-> IF s = {} THEN 0 ELSE f[Some(s)] + F[s \ {Some(s)}]]

SumsOf(f, S) == CHOOSE F : Sums(F, f, S)

\* SumFunctionOnSet is that recursive function, of the whole set.
LEMMA SumUnfolded ==
  ASSUME NEW f, NEW S
  PROVE  SumFunctionOnSet(f, S) = SumsOf(f, S)[S]
  BY DEF SumFunctionOnSet, FoldFunctionOnSet, MapThenFoldSet, SumsOf, Sums, Some

\* There is such an F.
LEMMA SumsExist ==
  ASSUME NEW f, NEW S, IsFiniteSet(S)
  PROVE  Sums(SumsOf(f, S), f, S)
<1> DEFINE Small(n) == {s \in SUBSET S : Cardinality(s) <= n}
           Upto(F, n) == F = [s \in Small(n) |->
                                IF s = {} THEN 0 ELSE f[Some(s)] + F[s \ {Some(s)}]]
           G == {n \in Nat : \E F : Upto(F, n)}
<1>0. \A s \in SUBSET S : s # {} => /\ Some(s) \in s
                                    /\ Cardinality(s) \in Nat
                                    /\ Cardinality(s \ {Some(s)}) = Cardinality(s) - 1
  <2> TAKE s \in SUBSET S
  <2> HAVE s # {}
  <2>1. Some(s) \in s
    BY DEF Some
  <2>2. IsFiniteSet(s)
    BY FS_Subset
  <2> QED
    BY <2>1, <2>2, FS_RemoveElement, FS_CardinalityType
<1>1. 0 \in G
  <2>1. \A s \in Small(0) : s = {}
    <3> SUFFICES ASSUME NEW s \in SUBSET S, Cardinality(s) <= 0 PROVE s = {}
      OBVIOUS
    <3>1. IsFiniteSet(s)
      BY FS_Subset
    <3> QED
      BY <3>1, FS_EmptySet, FS_CardinalityType
  <2>2. Upto([s \in Small(0) |-> 0], 0)
    BY <2>1
  <2> QED
    BY <2>2
<1>2. ASSUME NEW n \in Nat, n \in G PROVE n + 1 \in G
  <2>1. PICK F : Upto(F, n)
    BY <1>2
  <2> DEFINE H == [s \in Small(n + 1) |-> IF s = {} THEN 0 ELSE f[Some(s)] + F[s \ {Some(s)}]]
  <2>2. \A s \in Small(n) : s \in Small(n + 1)
    <3> SUFFICES ASSUME NEW s \in SUBSET S, Cardinality(s) <= n
                 PROVE  Cardinality(s) <= n + 1
      OBVIOUS
    <3>1. Cardinality(s) \in Nat
      BY FS_Subset, FS_CardinalityType
    <3> QED
      BY <3>1
  <2>3. \A s \in Small(n) : H[s] = F[s]
    BY <2>1, <2>2
  <2>4. \A s \in Small(n + 1) : s # {} => s \ {Some(s)} \in Small(n)
    BY <1>0
  <2>5. \A s \in Small(n + 1) : H[s] = IF s = {} THEN 0 ELSE f[Some(s)] + H[s \ {Some(s)}]
    BY <2>3, <2>4
  <2>6. H = [s \in Small(n + 1) |-> H[s]]
    OBVIOUS
  <2> HIDE DEF H, Small
  <2>7. Upto(H, n + 1)
    BY <2>5, <2>6
  <2> HIDE DEF Upto
  <2> QED
    BY <2>7
<1> HIDE DEF G
<1>3. \A n \in Nat : n \in G
  BY <1>1, <1>2, NatSetInduction
<1>4. Cardinality(S) \in Nat
  BY FS_CardinalityType
<1>5. Small(Cardinality(S)) = SUBSET S
  BY FS_Subset
<1>6. \E F : Sums(F, f, S)
  <2>1. PICK F : Upto(F, Cardinality(S))
    BY <1>3, <1>4 DEF G
  <2> HIDE DEF Small
  <2> QED
    BY <1>5, <2>1 DEF Sums
<1> QED
  BY <1>6 DEF SumsOf

\* Sums over the parts of a part are the same.
LEMMA SumsAgree ==
  ASSUME NEW f, NEW S, IsFiniteSet(S), NEW T \in SUBSET S
  PROVE  SumsOf(f, S)[T] = SumsOf(f, T)[T]
<1> DEFINE F == SumsOf(f, S)
           H == SumsOf(f, T)
           B == {s \in SUBSET T : F[s] # H[s]}
<1>1. IsFiniteSet(T)
  BY FS_Subset
<1>2. Sums(F, f, S) /\ Sums(H, f, T)
  BY <1>1, SumsExist
<1> HIDE DEF F, H
<1>3. ASSUME B # {} PROVE FALSE
  <2>1. PICK m \in B : \A t \in B : t \subseteq m => t = m
    <3>1. B \subseteq SUBSET T
      OBVIOUS
    <3> HIDE DEF B
    <3> QED
      BY <1>1, <1>3, <3>1, MinimalSet
  <2>2. m \in SUBSET T /\ m \in SUBSET S
    BY <2>1
  <2>3. /\ F[m] = IF m = {} THEN 0 ELSE f[Some(m)] + F[m \ {Some(m)}]
        /\ H[m] = IF m = {} THEN 0 ELSE f[Some(m)] + H[m \ {Some(m)}]
    BY <1>2, <2>2 DEF Sums
  <2>4. m # {}
    BY <2>1, <2>3
  <2>5. Some(m) \in m
    BY <2>4 DEF Some
  <2>6. m \ {Some(m)} \notin B
    BY <2>1, <2>5
  <2>7. F[m \ {Some(m)}] = H[m \ {Some(m)}]
    BY <2>2, <2>6
  <2> QED
    BY <2>1, <2>3, <2>7
<1>4. F[T] = H[T]
  BY <1>3
<1> QED
  BY <1>4 DEF F, H

\* Of nothing the sum is zero.
LEMMA SumEmpty ==
  ASSUME NEW f
  PROVE  SumFunctionOnSet(f, {}) = 0
<1>1. Sums(SumsOf(f, {}), f, {})
  BY SumsExist, FS_EmptySet
<1> QED
  BY <1>1, SumUnfolded DEF Sums

\* The sum over a set takes one member from the rest.
LEMMA SumSome ==
  ASSUME NEW f, NEW S, IsFiniteSet(S), S # {}
  PROVE  /\ Some(S) \in S
         /\ SumFunctionOnSet(f, S) = f[Some(S)] + SumFunctionOnSet(f, S \ {Some(S)})
<1>1. Some(S) \in S
  BY DEF Some
<1>2. SumsOf(f, S)[S] = f[Some(S)] + SumsOf(f, S)[S \ {Some(S)}]
  <2>1. Sums(SumsOf(f, S), f, S)
    BY SumsExist
  <2> QED
    BY <2>1 DEF Sums
<1>3. SumsOf(f, S)[S \ {Some(S)}] = SumsOf(f, S \ {Some(S)})[S \ {Some(S)}]
  BY SumsAgree
<1> QED
  BY <1>1, <1>2, <1>3, SumUnfolded

\* A sum of natural numbers is one, and any member may be taken from the rest.
LEMMA SumTaken ==
  ASSUME NEW f, NEW S, IsFiniteSet(S), \A x \in S : f[x] \in Nat
  PROVE  /\ SumFunctionOnSet(f, S) \in Nat
         /\ \A x \in S : SumFunctionOnSet(f, S) = f[x] + SumFunctionOnSet(f, S \ {x})
<1> DEFINE Sum(T) == SumFunctionOnSet(f, T)
           Good(T) == Sum(T) \in Nat /\ \A x \in T : Sum(T) = f[x] + Sum(T \ {x})
           B == {T \in SUBSET S : ~Good(T)}
<1>1. ASSUME B # {} PROVE FALSE
  <2>1. PICK m \in B : \A t \in B : t \subseteq m => t = m
    <3>1. B \subseteq SUBSET S
      OBVIOUS
    <3> HIDE DEF B
    <3> QED
      BY <1>1, <3>1, MinimalSet
  <2>2. m \in SUBSET S /\ ~Good(m) /\ IsFiniteSet(m)
    BY <2>1, FS_Subset
  <2>3. ASSUME NEW t, t \subseteq m, t # m PROVE Good(t)
    <3> HIDE DEF Good
    <3> QED
      BY <2>1, <2>2, <2>3
  <2>4. m # {}
    <3>1. Sum({}) = 0
      BY SumEmpty
    <3>2. Good({})
      BY <3>1
    <3> HIDE DEF Good
    <3> QED
      BY <2>2, <3>2
  <2> DEFINE c == Some(m)
  <2>5. c \in m /\ Sum(m) = f[c] + Sum(m \ {c})
    BY <2>2, <2>4, SumSome
  <2>6. f[c] \in Nat /\ Sum(m \ {c}) \in Nat
    BY <2>2, <2>3, <2>5
  <2> HIDE DEF c, Sum
  <2>7. ASSUME NEW x \in m, x # c PROVE Sum(m) = f[x] + Sum(m \ {x})
    <3>1. Sum(m \ {c}) = f[x] + Sum((m \ {c}) \ {x})
      BY <2>3, <2>5, <2>7
    <3>2. Sum(m \ {x}) = f[c] + Sum((m \ {x}) \ {c})
      BY <2>3, <2>5, <2>7
    <3>3. (m \ {c}) \ {x} = (m \ {x}) \ {c}
      OBVIOUS
    <3>4. Sum((m \ {c}) \ {x}) \in Nat
      BY <2>3, <2>5, <2>7
    <3>5. f[x] \in Nat
      BY <2>2
    <3> DEFINE rest == Sum((m \ {c}) \ {x})
    <3>6. Sum(m \ {x}) = f[c] + rest
      BY <3>2, <3>3
    <3> HIDE DEF rest
    <3> QED
      BY <2>5, <2>6, <3>1, <3>4, <3>5, <3>6 DEF rest
  <2> QED
    BY <2>2, <2>5, <2>6, <2>7
<1>2. Good(S)
  BY <1>1
<1> QED
  BY <1>2

\* A new member adds its number.
LEMMA SumAdd ==
  ASSUME NEW f, NEW S, IsFiniteSet(S), NEW x, x \notin S,
         \A y \in S \cup {x} : f[y] \in Nat
  PROVE  SumFunctionOnSet(f, S \cup {x}) = f[x] + SumFunctionOnSet(f, S)
<1>1. IsFiniteSet(S \cup {x})
  BY FS_AddElement
<1>2. (S \cup {x}) \ {x} = S
  OBVIOUS
<1> QED
  BY <1>1, <1>2, SumTaken

\* The sum of sums.
LEMMA SumPlus ==
  ASSUME NEW f, NEW g, NEW h, NEW S, IsFiniteSet(S),
         \A x \in S : f[x] \in Nat /\ g[x] \in Nat /\ h[x] = f[x] + g[x]
  PROVE  SumFunctionOnSet(h, S) = SumFunctionOnSet(f, S) + SumFunctionOnSet(g, S)
<1> DEFINE Sum(k, T) == SumFunctionOnSet(k, T)
           G == {T \in SUBSET S : Sum(h, T) = Sum(f, T) + Sum(g, T)}
<1>1. {} \in G
  <2>1. Sum(h, {}) = 0 /\ Sum(f, {}) = 0 /\ Sum(g, {}) = 0
    BY SumEmpty
  <2> QED
    BY <2>1
<1>2. ASSUME NEW T \in SUBSET S, NEW x \in S, T \in G, x \notin T PROVE T \cup {x} \in G
  <2>1. IsFiniteSet(T)
    BY FS_Subset
  <2>2. \A y \in T \cup {x} : f[y] \in Nat /\ g[y] \in Nat /\ h[y] \in Nat
    OBVIOUS
  <2>3. /\ Sum(f, T \cup {x}) = f[x] + Sum(f, T)
        /\ Sum(g, T \cup {x}) = g[x] + Sum(g, T)
        /\ Sum(h, T \cup {x}) = h[x] + Sum(h, T)
    BY <1>2, <2>1, <2>2, SumAdd
  <2>4. Sum(f, T) \in Nat /\ Sum(g, T) \in Nat
    BY <2>1, <2>2, SumTaken
  <2> HIDE DEF Sum
  <2>5. Sum(h, T \cup {x}) = Sum(f, T \cup {x}) + Sum(g, T \cup {x})
    BY <1>2, <2>2, <2>3, <2>4
  <2> QED
    BY <2>5
<1> HIDE DEF G
<1>3. S \in G
  BY <1>1, <1>2, SetInduction
<1> QED
  BY <1>3 DEF G

\* Functions that agree have the same sum.
LEMMA SumSame ==
  ASSUME NEW f, NEW g, NEW S, IsFiniteSet(S),
         \A x \in S : f[x] \in Nat /\ g[x] = f[x]
  PROVE  SumFunctionOnSet(g, S) = SumFunctionOnSet(f, S)
<1> DEFINE z == [x \in S |-> 0]
<1>1. SumFunctionOnSet(f, S) = SumFunctionOnSet(f, S) + SumFunctionOnSet(z, S)
  BY SumPlus
<1>2. SumFunctionOnSet(g, S) = SumFunctionOnSet(f, S) + SumFunctionOnSet(z, S)
  BY SumPlus
<1> QED
  BY <1>1, <1>2

\* Members with zero do not count.
LEMMA SumZeros ==
  ASSUME NEW f, NEW S, IsFiniteSet(S), NEW T \in SUBSET S,
         \A x \in S : f[x] \in Nat, \A x \in S \ T : f[x] = 0
  PROVE  SumFunctionOnSet(f, S) = SumFunctionOnSet(f, T)
<1> DEFINE Sum(U) == SumFunctionOnSet(f, U)
           G == {U \in SUBSET (S \ T) : Sum(T \cup U) = Sum(T)}
<1>1. {} \in G
  <2>1. T \cup {} = T
    OBVIOUS
  <2> QED
    BY <2>1
<1>2. ASSUME NEW U \in SUBSET (S \ T), NEW x \in S \ T, U \in G, x \notin U
      PROVE  U \cup {x} \in G
  <2>1. IsFiniteSet(T \cup U) /\ x \notin T \cup U
    BY <1>2, FS_Subset
  <2>2. Sum((T \cup U) \cup {x}) = f[x] + Sum(T \cup U)
    BY <2>1, SumAdd
  <2>3. Sum(T \cup U) \in Nat
    BY <2>1, SumTaken
  <2>4. (T \cup U) \cup {x} = T \cup (U \cup {x}) /\ f[x] = 0
    OBVIOUS
  <2>5. Sum(T \cup (U \cup {x})) = 0 + Sum(T \cup U)
    BY <2>2, <2>4
  <2> HIDE DEF Sum
  <2>6. Sum(T \cup (U \cup {x})) = Sum(T)
    BY <1>2, <2>3, <2>5
  <2> QED
    BY <2>6
<1>3. IsFiniteSet(S \ T)
  BY FS_Subset
<1> HIDE DEF G
<1>4. S \ T \in G
  BY <1>1, <1>2, <1>3, SetInduction
<1>5. T \cup (S \ T) = S
  OBVIOUS
<1> QED
  BY <1>4, <1>5 DEF G

-----------------------------------------------------------------------------
(* Sums over bags.                                                         *)

\* A bag with finitely many different members.
IsFiniteBag(b) == IsABag(b) /\ IsFiniteSet(DOMAIN b)

\* What the members of a bag weigh, each as often as it is there.
Weight(b, v) == SumFunction([e \in DOMAIN b |-> b[e] * v[e]])

\* Two finite bags together are one, and hold each member as often as both do.
LEMMA FiniteBagSum ==
  ASSUME NEW a, NEW b, IsFiniteBag(a), IsFiniteBag(b)
  PROVE  /\ IsFiniteBag(a (+) b)
         /\ DOMAIN (a (+) b) = DOMAIN a \cup DOMAIN b
         /\ \A e : Get(a (+) b, e, 0) = Get(a, e, 0) + Get(b, e, 0)
         /\ \A e : Get(a, e, 0) \in Nat /\ Get(b, e, 0) \in Nat
<1> DEFINE c == a (+) b
<1>1. DOMAIN c = DOMAIN a \cup DOMAIN b
  BY DEF (+)
<1>2. \A e : /\ Get(a, e, 0) \in Nat /\ Get(b, e, 0) \in Nat
             /\ e \in DOMAIN a => Get(a, e, 0) > 0
             /\ e \in DOMAIN b => Get(b, e, 0) > 0
  BY DEF Get, IsFiniteBag, IsABag
<1>3. \A e \in DOMAIN c : c[e] = Get(a, e, 0) + Get(b, e, 0)
  BY <1>1 DEF (+), Get
<1>4. c = [e \in DOMAIN c |-> c[e]]
  BY DEF (+)
<1>5. IsFiniteSet(DOMAIN c)
  BY <1>1, FS_Union DEF IsFiniteBag
<1> HIDE DEF c
<1>6. \A e : Get(c, e, 0) = Get(a, e, 0) + Get(b, e, 0)
  <2> TAKE e
  <2>1. CASE e \in DOMAIN c
    BY <1>3, <2>1 DEF Get
  <2>2. CASE e \notin DOMAIN c
    BY <1>1, <2>2 DEF Get
  <2> QED
    BY <2>1, <2>2
<1>7. \A e \in DOMAIN c : c[e] \in {n \in Nat : n > 0}
  BY <1>1, <1>2, <1>3
<1>8. IsABag(c)
  BY <1>4, <1>7 DEF IsABag
<1>9. IsFiniteBag(c)
  BY <1>5, <1>8 DEF IsFiniteBag
<1> QED
  BY <1>1, <1>2, <1>6, <1>9 DEF c

\* They weigh what both weigh.
LEMMA WeightAdds ==
  ASSUME NEW a, NEW b, IsFiniteBag(a), IsFiniteBag(b), NEW v,
         \A e \in DOMAIN a \cup DOMAIN b : v[e] \in Nat
  PROVE  /\ Weight(a (+) b, v) = Weight(a, v) + Weight(b, v)
         /\ Weight(a, v) \in Nat /\ Weight(b, v) \in Nat
<1> DEFINE D == DOMAIN a \cup DOMAIN b
           A == [e \in D |-> Get(a, e, 0) * v[e]]
           B == [e \in D |-> Get(b, e, 0) * v[e]]
           C == [e \in DOMAIN (a (+) b) |-> (a (+) b)[e] * v[e]]
           AA == [e \in DOMAIN a |-> a[e] * v[e]]
           BB == [e \in DOMAIN b |-> b[e] * v[e]]
<1>1. /\ IsFiniteSet(D) /\ IsFiniteSet(DOMAIN a) /\ IsFiniteSet(DOMAIN b)
      /\ DOMAIN (a (+) b) = D
  BY FiniteBagSum DEF IsFiniteBag
<1>2. \A e \in D : Get(a, e, 0) \in Nat /\ Get(b, e, 0) \in Nat /\ v[e] \in Nat
  BY FiniteBagSum
<1>3. \A x, y, z \in Nat : x * z \in Nat /\ y * z \in Nat /\ (x + y) * z = x * z + y * z
  OBVIOUS
<1>4. \A e \in D : (a (+) b)[e] = Get(a, e, 0) + Get(b, e, 0)
  <2> TAKE e \in D
  <2>1. Get(a (+) b, e, 0) = Get(a, e, 0) + Get(b, e, 0)
    BY FiniteBagSum
  <2>2. Get(a (+) b, e, 0) = (a (+) b)[e]
    BY <1>1 DEF Get
  <2> QED
    BY <2>1, <2>2
<1>5. \A e \in D : A[e] \in Nat /\ B[e] \in Nat /\ C[e] = A[e] + B[e]
  <2> TAKE e \in D
  <2>1. A[e] = Get(a, e, 0) * v[e] /\ B[e] = Get(b, e, 0) * v[e]
    OBVIOUS
  <2>2. C[e] = (Get(a, e, 0) + Get(b, e, 0)) * v[e]
    BY <1>1, <1>4
  <2> HIDE DEF A, B, C, D
  <2> QED
    BY <1>2, <1>3, <2>1, <2>2
<1>6. \A e \in DOMAIN a : A[e] \in Nat /\ AA[e] = A[e]
  BY <1>5 DEF Get
<1>7. \A e \in DOMAIN b : B[e] \in Nat /\ BB[e] = B[e]
  BY <1>5 DEF Get
<1>8. \A e \in D \ DOMAIN a : A[e] = 0
  BY <1>2 DEF Get
<1>9. \A e \in D \ DOMAIN b : B[e] = 0
  BY <1>2 DEF Get
<1>10. DOMAIN C = D /\ DOMAIN AA = DOMAIN a /\ DOMAIN BB = DOMAIN b
  BY <1>1
<1>11. DOMAIN a \in SUBSET D /\ DOMAIN b \in SUBSET D
  OBVIOUS
<1>12. Weight(a (+) b, v) = SumFunctionOnSet(C, D)
  BY <1>10 DEF Weight, SumFunction
<1>13. Weight(a, v) = SumFunctionOnSet(AA, DOMAIN a) /\ Weight(b, v) = SumFunctionOnSet(BB, DOMAIN b)
  BY <1>10 DEF Weight, SumFunction
<1> HIDE DEF A, B, C, D, AA, BB
<1>14. SumFunctionOnSet(C, D) = SumFunctionOnSet(A, D) + SumFunctionOnSet(B, D)
  BY <1>1, <1>5, SumPlus
<1>15. SumFunctionOnSet(A, D) = SumFunctionOnSet(A, DOMAIN a)
  BY <1>1, <1>5, <1>8, <1>11, SumZeros
<1>16. SumFunctionOnSet(B, D) = SumFunctionOnSet(B, DOMAIN b)
  BY <1>1, <1>5, <1>9, <1>11, SumZeros
<1>17. SumFunctionOnSet(AA, DOMAIN a) = SumFunctionOnSet(A, DOMAIN a)
  BY <1>1, <1>6, SumSame
<1>18. SumFunctionOnSet(BB, DOMAIN b) = SumFunctionOnSet(B, DOMAIN b)
  BY <1>1, <1>7, SumSame
<1>19. SumFunctionOnSet(A, D) \in Nat /\ SumFunctionOnSet(B, D) \in Nat
  BY <1>1, <1>5, SumTaken
<1> QED
  BY <1>12, <1>13, <1>14, <1>15, <1>16, <1>17, <1>18, <1>19

\* A bag of one member weighs what that weighs.
LEMMA WeightOfOne ==
  ASSUME NEW x, NEW v, v[x] \in Nat
  PROVE  IsFiniteBag(SetToBag({x})) /\ Weight(SetToBag({x}), v) = v[x]
<1> DEFINE f == [e \in DOMAIN SetToBag({x}) |-> SetToBag({x})[e] * v[e]]
<1>1. DOMAIN SetToBag({x}) = {x} /\ SetToBag({x})[x] = 1
  BY DEF SetToBag
<1>2. f[x] = v[x] /\ DOMAIN f = {x}
  BY <1>1
<1>3. Weight(SetToBag({x}), v) = SumFunctionOnSet(f, {x})
  BY <1>2 DEF Weight, SumFunction
<1> HIDE DEF f
<1>4. SumFunctionOnSet(f, {} \cup {x}) = f[x] + SumFunctionOnSet(f, {})
  BY <1>2, SumAdd, FS_EmptySet
<1>5. SumFunctionOnSet(f, {x}) = v[x] + 0
  <2>1. {} \cup {x} = {x}
    OBVIOUS
  <2> QED
    BY <1>2, <1>4, <2>1, SumEmpty
<1>6. IsFiniteBag(SetToBag({x}))
  <2>1. IsFiniteSet({x})
    BY FS_Singleton
  <2>2. IsABag(SetToBag({x}))
    BY DEF IsABag, SetToBag
  <2> QED
    BY <1>1, <2>1, <2>2 DEF IsFiniteBag
<1> QED
  BY <1>3, <1>5, <1>6

\* The empty bag weighs nothing.
LEMMA WeightOfNone ==
  ASSUME NEW v
  PROVE  IsFiniteBag(EmptyBag) /\ DOMAIN EmptyBag = {} /\ Weight(EmptyBag, v) = 0
<1> DEFINE f == [e \in DOMAIN EmptyBag |-> EmptyBag[e] * v[e]]
<1>1. DOMAIN EmptyBag = {}
  BY DEF EmptyBag, SetToBag
<1>2. IsFiniteSet({})
  BY FS_EmptySet
<1>3. IsABag(EmptyBag)
  BY DEF IsABag, EmptyBag, SetToBag
<1>4. DOMAIN f = {}
  BY <1>1
<1>5. Weight(EmptyBag, v) = SumFunctionOnSet(f, {})
  BY <1>4 DEF Weight, SumFunction
<1> QED
  BY <1>1, <1>2, <1>3, <1>5, SumEmpty DEF IsFiniteBag

-----------------------------------------------------------------------------
(* The order of merging.                                                   *)

\* A table of block sizes.
IsBlocks(b) == /\ b = [k \in DOMAIN b |-> b[k]]
               /\ \A k \in DOMAIN b : b[k] \in Nat

\* Min, max and sum may be taken in any order.
LEMMA OpenCloseOrder ==
  ASSUME NEW m \in OpenClose, NEW a \in OpenClose, NEW b \in OpenClose
  PROVE  merge_open_close(merge_open_close(m, a), b)
           = merge_open_close(merge_open_close(m, b), a)
  BY DEF OpenClose, merge_open_close, Lesser, Greater

\* merge_blocks adds the counts of every block size.
LEMMA BlocksMerged ==
  ASSUME NEW x, NEW y, IsBlocks(x), IsBlocks(y)
  PROVE  /\ IsBlocks(merge_blocks(x, y))
         /\ DOMAIN merge_blocks(x, y) = DOMAIN x \cup DOMAIN y
         /\ \A k : Get(merge_blocks(x, y), k, 0) = Get(x, k, 0) + Get(y, k, 0)
<1>1. \A k : Get(x, k, 0) \in Nat /\ Get(y, k, 0) \in Nat
  BY DEF IsBlocks, Get
<1>2. DOMAIN merge_blocks(x, y) = DOMAIN x \cup DOMAIN y
  BY DEF merge_blocks
<1>3. IsBlocks(merge_blocks(x, y))
  BY <1>1 DEF merge_blocks, IsBlocks
<1>4. ASSUME NEW k
      PROVE  Get(merge_blocks(x, y), k, 0) = Get(x, k, 0) + Get(y, k, 0)
  <2>1. CASE k \in DOMAIN x \cup DOMAIN y
    BY <2>1 DEF merge_blocks, Get
  <2>2. CASE k \notin DOMAIN x \cup DOMAIN y
    BY <2>2, <1>2 DEF Get
  <2> QED
    BY <2>1, <2>2
<1> QED
  BY <1>2, <1>3, <1>4

\* Two tables of block sizes with the same counts are the same.
LEMMA BlocksEqual ==
  ASSUME NEW x, NEW y, IsBlocks(x), IsBlocks(y), DOMAIN x = DOMAIN y,
         \A k : Get(x, k, 0) = Get(y, k, 0)
  PROVE  x = y
<1>1. \A k \in DOMAIN x : x[k] = y[k]
  BY DEF Get
<1> QED
  BY <1>1 DEF IsBlocks

\* Two merges of tables of block sizes give the same table in either order.
LEMMA BlocksOrder ==
  ASSUME NEW m, NEW a, NEW b, IsBlocks(m), IsBlocks(a), IsBlocks(b)
  PROVE  merge_blocks(merge_blocks(m, a), b) = merge_blocks(merge_blocks(m, b), a)
<1> DEFINE ma == merge_blocks(m, a)
           mb == merge_blocks(m, b)
           ab == merge_blocks(ma, b)
           ba == merge_blocks(mb, a)
<1>1. /\ IsBlocks(ma) /\ DOMAIN ma = DOMAIN m \cup DOMAIN a
      /\ \A k : Get(ma, k, 0) = Get(m, k, 0) + Get(a, k, 0)
  BY BlocksMerged
<1>2. /\ IsBlocks(mb) /\ DOMAIN mb = DOMAIN m \cup DOMAIN b
      /\ \A k : Get(mb, k, 0) = Get(m, k, 0) + Get(b, k, 0)
  BY BlocksMerged
<1> HIDE DEF ma, mb
<1>3. /\ IsBlocks(ab) /\ DOMAIN ab = DOMAIN ma \cup DOMAIN b
      /\ \A k : Get(ab, k, 0) = Get(ma, k, 0) + Get(b, k, 0)
  BY <1>1, BlocksMerged
<1>4. /\ IsBlocks(ba) /\ DOMAIN ba = DOMAIN mb \cup DOMAIN a
      /\ \A k : Get(ba, k, 0) = Get(mb, k, 0) + Get(a, k, 0)
  BY <1>2, BlocksMerged
<1> HIDE DEF ab, ba
<1>5. DOMAIN ab = DOMAIN ba
  BY <1>1, <1>2, <1>3, <1>4
<1>6. ASSUME NEW k PROVE Get(ab, k, 0) = Get(ba, k, 0)
  <2>1. Get(m, k, 0) \in Nat /\ Get(a, k, 0) \in Nat /\ Get(b, k, 0) \in Nat
    BY DEF IsBlocks, Get
  <2>2. /\ Get(ab, k, 0) = (Get(m, k, 0) + Get(a, k, 0)) + Get(b, k, 0)
        /\ Get(ba, k, 0) = (Get(m, k, 0) + Get(b, k, 0)) + Get(a, k, 0)
    BY <1>1, <1>2, <1>3, <1>4
  <2> QED
    BY <2>1, <2>2
<1>7. ab = ba
  BY <1>3, <1>4, <1>5, <1>6, BlocksEqual
<1> QED
  BY <1>7 DEF ab, ba, ma, mb

\* Two merges of read or write statistics (merge_read_write) commute.
LEMMA ReadWriteOrder ==
  ASSUME NEW m, NEW a, NEW b, IsReadWrite(m), IsReadWrite(a), IsReadWrite(b)
  PROVE  merge_read_write(merge_read_write(m, a), b)
           = merge_read_write(merge_read_write(m, b), a)
<1>1. IsBlocks(m.blocks) /\ IsBlocks(a.blocks) /\ IsBlocks(b.blocks)
  BY DEF IsReadWrite, IsABag, IsBlocks
<1>2. merge_blocks(merge_blocks(m.blocks, a.blocks), b.blocks)
        = merge_blocks(merge_blocks(m.blocks, b.blocks), a.blocks)
  BY <1>1, BlocksOrder
<1>3. ASSUME NEW x \in Nat, NEW y \in Nat, NEW z \in Nat
      PROVE  /\ (x + y) + z = (x + z) + y
             /\ Lesser(Lesser(x, y), z) = Lesser(Lesser(x, z), y)
             /\ Greater(Greater(x, y), z) = Greater(Greater(x, z), y)
  BY DEF Lesser, Greater
<1>4. /\ m.total_b \in Nat /\ m.total_ns \in Nat /\ m.min_bps \in Nat /\ m.max_bps \in Nat
      /\ a.total_b \in Nat /\ a.total_ns \in Nat /\ a.min_bps \in Nat /\ a.max_bps \in Nat
      /\ b.total_b \in Nat /\ b.total_ns \in Nat /\ b.min_bps \in Nat /\ b.max_bps \in Nat
  BY DEF IsReadWrite
<1>5. /\ (m.total_b + a.total_b) + b.total_b = (m.total_b + b.total_b) + a.total_b
      /\ (m.total_ns + a.total_ns) + b.total_ns = (m.total_ns + b.total_ns) + a.total_ns
  BY <1>4
<1>6. Lesser(Lesser(m.min_bps, a.min_bps), b.min_bps)
        = Lesser(Lesser(m.min_bps, b.min_bps), a.min_bps)
  BY <1>3, <1>4
<1>7. Greater(Greater(m.max_bps, a.max_bps), b.max_bps)
        = Greater(Greater(m.max_bps, b.max_bps), a.max_bps)
  BY <1>3, <1>4
<1> QED
  BY <1>2, <1>5, <1>6, <1>7 DEF merge_read_write

\* Two merges of the statistics of a file (file_state_merge_into) commute.
LEMMA FileStatOrder ==
  ASSUME NEW m, NEW a, NEW b, IsFileStat(m), IsFileStat(a), IsFileStat(b)
  PROVE  merge_file_stat(merge_file_stat(m, a), b)
           = merge_file_stat(merge_file_stat(m, b), a)
<1>1. merge_open_close(merge_open_close(m.open, a.open), b.open)
        = merge_open_close(merge_open_close(m.open, b.open), a.open)
  BY OpenCloseOrder DEF IsFileStat
<1>2. merge_open_close(merge_open_close(m.close, a.close), b.close)
        = merge_open_close(merge_open_close(m.close, b.close), a.close)
  BY OpenCloseOrder DEF IsFileStat
<1>3. merge_read_write(merge_read_write(m.read, a.read), b.read)
        = merge_read_write(merge_read_write(m.read, b.read), a.read)
  BY ReadWriteOrder DEF IsFileStat
<1>4. merge_read_write(merge_read_write(m.write, a.write), b.write)
        = merge_read_write(merge_read_write(m.write, b.write), a.write)
  BY ReadWriteOrder DEF IsFileStat
<1> QED
  BY <1>1, <1>2, <1>3, <1>4 DEF merge_file_stat

\* The statistics of a file that main has not seen yet are well typed.
LEMMA FreshFileStat == IsFileStat(init_file_stat)
<1>1. init_open_close \in OpenClose
  BY FileStatsAssumption DEF init_open_close, OpenClose
<1>2. IsABag(EmptyBag)
  BY DEF IsABag, EmptyBag, SetToBag
<1>3. IsReadWrite(init_read_write)
  BY <1>2, FileStatsAssumption DEF init_read_write, IsReadWrite
<1> QED
  BY <1>1, <1>3 DEF IsFileStat, init_file_stat

\* Whichever of two threads merges its file statistics first, the table of main
\* is the same in the end (file_state_merge).
THEOREM MergeFilesOrder ==
  ASSUME NEW M, NEW A, NEW B, IsFileTable(M), IsFileTable(A), IsFileTable(B)
  PROVE  MergeFiles(MergeFiles(M, A), B) = MergeFiles(MergeFiles(M, B), A)
<1> DEFINE MA == MergeFiles(M, A)
           MB == MergeFiles(M, B)
<1>1. DOMAIN MA = DOMAIN M \cup DOMAIN A /\ DOMAIN MB = DOMAIN M \cup DOMAIN B
  BY DEF MergeFiles
<1>2. ASSUME NEW f \in DOMAIN M \cup DOMAIN A \cup DOMAIN B
      PROVE  MergeFiles(MA, B)[f] = MergeFiles(MB, A)[f]
  <2> DEFINE m == file_stat_get_safe(M, f)
  <2>1. IsFileStat(m)
    BY FreshFileStat DEF file_stat_get_safe, Get, IsFileTable, IsFileStat
  <2>2. f \in DOMAIN A => IsFileStat(A[f])
    BY DEF IsFileTable, IsFileStat
  <2>3. f \in DOMAIN B => IsFileStat(B[f])
    BY DEF IsFileTable, IsFileStat
  <2>4. file_stat_get_safe(MA, f) = IF f \in DOMAIN A THEN merge_file_stat(m, A[f]) ELSE m
    BY <1>1 DEF file_stat_get_safe, Get, MergeFiles
  <2>5. file_stat_get_safe(MB, f) = IF f \in DOMAIN B THEN merge_file_stat(m, B[f]) ELSE m
    BY <1>1 DEF file_stat_get_safe, Get, MergeFiles
  <2>6. MergeFiles(MA, B)[f] = IF f \in DOMAIN B
                                 THEN merge_file_stat(file_stat_get_safe(MA, f), B[f])
                                 ELSE file_stat_get_safe(MA, f)
    BY <1>1 DEF MergeFiles, file_stat_get_safe, Get
  <2>7. MergeFiles(MB, A)[f] = IF f \in DOMAIN A
                                 THEN merge_file_stat(file_stat_get_safe(MB, f), A[f])
                                 ELSE file_stat_get_safe(MB, f)
    BY <1>1 DEF MergeFiles, file_stat_get_safe, Get
  <2> HIDE DEF m, MA, MB
  <2>8. CASE f \in DOMAIN A /\ f \in DOMAIN B
    BY <2>1, <2>2, <2>3, <2>4, <2>5, <2>6, <2>7, <2>8, FileStatOrder
  <2>9. CASE ~(f \in DOMAIN A /\ f \in DOMAIN B)
    BY <2>4, <2>5, <2>6, <2>7, <2>9
  <2> QED
    BY <2>8, <2>9
<1>3. /\ DOMAIN MergeFiles(MA, B) = DOMAIN M \cup DOMAIN A \cup DOMAIN B
      /\ DOMAIN MergeFiles(MB, A) = DOMAIN M \cup DOMAIN A \cup DOMAIN B
  BY <1>1 DEF MergeFiles
<1>4. /\ MergeFiles(MA, B) = [f \in DOMAIN MergeFiles(MA, B) |-> MergeFiles(MA, B)[f]]
      /\ MergeFiles(MB, A) = [f \in DOMAIN MergeFiles(MB, A) |-> MergeFiles(MB, A)[f]]
  BY DEF MergeFiles
<1> HIDE DEF MA, MB
<1>5. MergeFiles(MA, B) = MergeFiles(MB, A)
  BY <1>2, <1>3, <1>4
<1> QED
  BY <1>5 DEF MA, MB

\* The same for the other syscalls (syscall_stat_merge).
THEOREM MergeSyscallsOrder ==
  ASSUME NEW M, NEW A, NEW B,
         IsSyscallTable(M), IsSyscallTable(A), IsSyscallTable(B)
  PROVE  MergeSyscalls(MergeSyscalls(M, A), B) = MergeSyscalls(MergeSyscalls(M, B), A)
<1> DEFINE MA == MergeSyscalls(M, A)
           MB == MergeSyscalls(M, B)
           Of(T, c) == syscall_stat_get_safe(T, c)
<1>1. DOMAIN MA = DOMAIN M \cup DOMAIN A /\ DOMAIN MB = DOMAIN M \cup DOMAIN B
  BY DEF MergeSyscalls
<1>2. ASSUME NEW c \in DOMAIN M \cup DOMAIN A \cup DOMAIN B
      PROVE  MergeSyscalls(MA, B)[c] = MergeSyscalls(MB, A)[c]
  <2>1. Of(M, c).count \in Nat /\ Of(M, c).total_ns \in Nat
    BY DEF syscall_stat_get_safe, Get, IsSyscallTable, SyscallStat, init_syscall_stat
  <2>2. c \in DOMAIN A => A[c].count \in Nat /\ A[c].total_ns \in Nat
    BY DEF IsSyscallTable, SyscallStat
  <2>3. c \in DOMAIN B => B[c].count \in Nat /\ B[c].total_ns \in Nat
    BY DEF IsSyscallTable, SyscallStat
  <2>4. Of(MA, c) = IF c \in DOMAIN A THEN merge_syscall_stat(Of(M, c), A[c]) ELSE Of(M, c)
    BY <1>1 DEF syscall_stat_get_safe, Get, MergeSyscalls
  <2>5. Of(MB, c) = IF c \in DOMAIN B THEN merge_syscall_stat(Of(M, c), B[c]) ELSE Of(M, c)
    BY <1>1 DEF syscall_stat_get_safe, Get, MergeSyscalls
  <2>6. MergeSyscalls(MA, B)[c] = IF c \in DOMAIN B
          THEN merge_syscall_stat(Of(MA, c), B[c]) ELSE Of(MA, c)
    BY <1>1 DEF MergeSyscalls, syscall_stat_get_safe, Get
  <2>7. MergeSyscalls(MB, A)[c] = IF c \in DOMAIN A
          THEN merge_syscall_stat(Of(MB, c), A[c]) ELSE Of(MB, c)
    BY <1>1 DEF MergeSyscalls, syscall_stat_get_safe, Get
  <2> HIDE DEF Of, MA, MB
  <2> QED
    BY <2>1, <2>2, <2>3, <2>4, <2>5, <2>6, <2>7 DEF merge_syscall_stat
<1>3. /\ DOMAIN MergeSyscalls(MA, B) = DOMAIN M \cup DOMAIN A \cup DOMAIN B
      /\ DOMAIN MergeSyscalls(MB, A) = DOMAIN M \cup DOMAIN A \cup DOMAIN B
  BY <1>1 DEF MergeSyscalls
<1>4. /\ MergeSyscalls(MA, B) = [c \in DOMAIN MergeSyscalls(MA, B) |-> MergeSyscalls(MA, B)[c]]
      /\ MergeSyscalls(MB, A) = [c \in DOMAIN MergeSyscalls(MB, A) |-> MergeSyscalls(MB, A)[c]]
  BY DEF MergeSyscalls
<1> HIDE DEF MA, MB
<1>5. MergeSyscalls(MA, B) = MergeSyscalls(MB, A)
  BY <1>2, <1>3, <1>4
<1> QED
  BY <1>5 DEF MA, MB

-----------------------------------------------------------------------------
(* The type invariant.                                                     *)

\* A syscall more (incr_open_close) keeps the times of open or close numbers.
LEMMA OpenCloseTyped ==
  ASSUME NEW s \in OpenClose, NEW ns \in Ns
  PROVE  incr_open_close(s, ns) \in OpenClose
  BY FileStatsAssumption DEF incr_open_close, OpenClose, Lesser, Greater

\* A bag stays one when an element is added.
LEMMA BagGrows ==
  ASSUME NEW b, NEW x, IsABag(b)
  PROVE  IsABag(b (+) SetToBag({x}))
<1> DEFINE c == b (+) SetToBag({x})
<1>1. DOMAIN c = DOMAIN b \cup {x}
  BY DEF (+), SetToBag
<1>2. ASSUME NEW e \in DOMAIN c PROVE c[e] \in {n \in Nat : n > 0}
  BY <1>1 DEF (+), SetToBag, IsABag
<1>3. c = [e \in DOMAIN c |-> c[e]]
  BY DEF (+), SetToBag
<1> HIDE DEF c
<1>4. c \in [DOMAIN c -> {n \in Nat : n > 0}]
  BY <1>2, <1>3
<1> QED
  BY <1>4 DEF c, IsABag

\* So does merge_blocks keep one.
LEMMA BlocksTyped ==
  ASSUME NEW a, NEW b, IsABag(a), IsABag(b)
  PROVE  IsABag(merge_blocks(a, b))
<1> DEFINE c == merge_blocks(a, b)
<1>1. DOMAIN c = DOMAIN a \cup DOMAIN b
  BY DEF merge_blocks
<1>2. ASSUME NEW e \in DOMAIN c PROVE c[e] \in {n \in Nat : n > 0}
  <2>1. c[e] = Get(a, e, 0) + Get(b, e, 0)
    BY <1>1 DEF merge_blocks
  <2>2. /\ e \in DOMAIN a => Get(a, e, 0) \in Nat /\ Get(a, e, 0) > 0
        /\ e \notin DOMAIN a => Get(a, e, 0) = 0
    BY DEF Get, IsABag
  <2>3. /\ e \in DOMAIN b => Get(b, e, 0) \in Nat /\ Get(b, e, 0) > 0
        /\ e \notin DOMAIN b => Get(b, e, 0) = 0
    BY DEF Get, IsABag
  <2> HIDE DEF c
  <2> QED
    BY <1>1, <2>1, <2>2, <2>3
<1>3. c = [e \in DOMAIN c |-> c[e]]
  BY DEF merge_blocks
<1> HIDE DEF c
<1>4. c \in [DOMAIN c -> {n \in Nat : n > 0}]
  BY <1>2, <1>3
<1> QED
  BY <1>4 DEF c, IsABag

\* The bytes per second of a syscall that moved bytes are not negative.
LEMMA SpeedTyped ==
  ASSUME NEW ns \in Ns, NEW b \in Bytes, b > 0
  PROVE  Bps(ns, b) \in Nat
<1>1. ns \in Nat /\ ns > 0 /\ b \in Nat /\ NANOS \in Nat
  BY FileStatsAssumption
<1>2. b * NANOS \in Nat
  BY <1>1
<1>3. \A p \in Nat : p \div ns \in Nat
  BY <1>1
<1> QED
  BY <1>2, <1>3 DEF Bps

\* A read or write more keeps the members unsigned, a failed one included
\* (file_stat_incr_rw).
LEMMA ReadWriteTyped ==
  ASSUME NEW s, IsReadWrite(s), NEW ns \in Ns, NEW b \in Bytes
  PROVE  IsReadWrite(file_stat_incr_rw(s, ns, b))
<1> DEFINE r == file_stat_incr_rw(s, ns, b)
<1>1. /\ s.total_b \in Nat /\ s.total_ns \in Nat /\ s.min_bps \in Nat /\ s.max_bps \in Nat
      /\ ns \in Nat /\ b \in Int
  BY FileStatsAssumption DEF IsReadWrite
<1>2. b > 0 => Bps(ns, b) \in Nat
  BY SpeedTyped
<1>3. IsABag(r.blocks)
  BY BagGrows DEF IsReadWrite, file_stat_incr_rw
<1>4. r.total_b \in Nat /\ r.total_ns \in Nat
  BY <1>1 DEF file_stat_incr_rw
<1>5. r.min_bps \in Nat /\ r.max_bps \in Nat
  BY <1>1, <1>2 DEF file_stat_incr_rw, Lesser, Greater
<1>6. r = [total_b |-> r.total_b, total_ns |-> r.total_ns, min_bps |-> r.min_bps,
           max_bps |-> r.max_bps, blocks |-> r.blocks]
  BY DEF file_stat_incr_rw
<1> HIDE DEF r
<1>7. IsReadWrite(r)
  BY <1>3, <1>4, <1>5, <1>6 DEF IsReadWrite
<1> QED
  BY <1>7 DEF r

\* Two statistics of read or write merged are such statistics.
LEMMA ReadWriteMerged ==
  ASSUME NEW s, NEW u, IsReadWrite(s), IsReadWrite(u)
  PROVE  IsReadWrite(merge_read_write(s, u))
<1> DEFINE r == merge_read_write(s, u)
<1>1. /\ s.total_b \in Nat /\ s.total_ns \in Nat /\ s.min_bps \in Nat /\ s.max_bps \in Nat
      /\ u.total_b \in Nat /\ u.total_ns \in Nat /\ u.min_bps \in Nat /\ u.max_bps \in Nat
  BY DEF IsReadWrite
<1>2. IsABag(r.blocks)
  BY BlocksTyped DEF IsReadWrite, merge_read_write
<1>3. r.total_b \in Nat /\ r.total_ns \in Nat /\ r.min_bps \in Nat /\ r.max_bps \in Nat
  BY <1>1 DEF merge_read_write, Lesser, Greater
<1>4. r = [total_b |-> r.total_b, total_ns |-> r.total_ns, min_bps |-> r.min_bps,
           max_bps |-> r.max_bps, blocks |-> r.blocks]
  BY DEF merge_read_write
<1> HIDE DEF r
<1>5. IsReadWrite(r)
  BY <1>2, <1>3, <1>4 DEF IsReadWrite
<1> QED
  BY <1>5 DEF r

\* So are two statistics of a file (file_state_merge).
LEMMA FileStatMerged ==
  ASSUME NEW s, NEW u, IsFileStat(s), IsFileStat(u)
  PROVE  IsFileStat(merge_file_stat(s, u))
<1>1. \A a, b \in OpenClose : merge_open_close(a, b) \in OpenClose
  BY DEF merge_open_close, OpenClose, Lesser, Greater
<1>2. /\ IsReadWrite(merge_read_write(s.read, u.read))
      /\ IsReadWrite(merge_read_write(s.write, u.write))
  BY ReadWriteMerged DEF IsFileStat
<1>3. /\ merge_open_close(s.open, u.open) \in OpenClose
      /\ merge_open_close(s.close, u.close) \in OpenClose
  BY <1>1 DEF IsFileStat
<1> QED
  BY <1>2, <1>3 DEF IsFileStat, merge_file_stat

\* A table of main that a thread's table is merged into stays well typed
\* (file_state_merge).
LEMMA FilesMerged ==
  ASSUME NEW M, NEW A, IsFileTable(M), IsFileTable(A)
  PROVE  IsFileTable(MergeFiles(M, A))
<1>1. DOMAIN MergeFiles(M, A) = DOMAIN M \cup DOMAIN A
  BY DEF MergeFiles
<1>2. ASSUME NEW f \in DOMAIN M \cup DOMAIN A
      PROVE  IsFileStat(MergeFiles(M, A)[f])
  <2>1. IsFileStat(file_stat_get_safe(M, f))
    BY FreshFileStat DEF file_stat_get_safe, Get, IsFileTable
  <2>2. CASE f \in DOMAIN A
    <3>1. IsFileStat(merge_file_stat(file_stat_get_safe(M, f), A[f]))
      BY <2>1, <2>2, FileStatMerged DEF IsFileTable
    <3> QED
      BY <2>2, <3>1 DEF MergeFiles
  <2>3. CASE f \notin DOMAIN A
    BY <2>3 DEF MergeFiles, IsFileTable
  <2> QED
    BY <2>2, <2>3
<1>3. MergeFiles(M, A) = [f \in DOMAIN MergeFiles(M, A) |-> MergeFiles(M, A)[f]]
  BY DEF MergeFiles
<1> QED
  BY <1>1, <1>2, <1>3 DEF IsFileTable

\* The same for the table of the other syscalls (syscall_stat_merge).
LEMMA SyscallsMerged ==
  ASSUME NEW M, NEW A, IsSyscallTable(M), IsSyscallTable(A)
  PROVE  IsSyscallTable(MergeSyscalls(M, A))
<1>1. DOMAIN MergeSyscalls(M, A) = DOMAIN M \cup DOMAIN A
  BY DEF MergeSyscalls
<1>2. \A a, b \in SyscallStat : merge_syscall_stat(a, b) \in SyscallStat
  BY DEF merge_syscall_stat, SyscallStat
<1>3. \A c : c \in DOMAIN M \/ c \in DOMAIN A => syscall_stat_get_safe(M, c) \in SyscallStat
  BY DEF syscall_stat_get_safe, Get, IsSyscallTable, SyscallStat, init_syscall_stat
<1>4. ASSUME NEW c \in DOMAIN M \cup DOMAIN A
      PROVE  MergeSyscalls(M, A)[c] \in SyscallStat
  BY <1>2, <1>3 DEF MergeSyscalls, IsSyscallTable
<1> QED
  BY <1>1, <1>4 DEF IsSyscallTable

\* A log stays one when a syscall is added.
LEMMA LogGrows ==
  ASSUME NEW b, IsLog(b), NEW event \in Event
  PROVE  IsLog(b (+) SetToBag({event}))
<1>1. DOMAIN (b (+) SetToBag({event})) = DOMAIN b \cup {event}
  BY DEF (+), SetToBag
<1>2. IsFiniteSet(DOMAIN b \cup {event})
  BY FS_AddElement DEF IsLog
<1> QED
  BY <1>1, <1>2, BagGrows DEF IsLog

\* A bag of the log that a syscall is added to stays one; the others are as
\* they were (every incr function).
LEMMA LogTyped ==
  ASSUME TypeOK, NEW t \in Thread, NEW event \in Event, Logged(t, event)
  PROVE  DOMAIN log' = Thread /\ \A u \in Thread : IsLog(log'[u])
<1>1. DOMAIN log = Thread /\ \A u \in Thread : IsLog(log[u])
  BY DEF TypeOK
<1>2. log' = [log EXCEPT ![t] = @ (+) SetToBag({event})]
  BY DEF Logged
<1>3. IsLog(log[t] (+) SetToBag({event}))
  BY <1>1, LogGrows
<1> QED
  BY <1>1, <1>2, <1>3

\* An entry put into a thread's table keeps the invariant.
LEMMA CountTyped ==
  ASSUME TypeOK, NEW t \in Thread, NEW f \in File, NEW entry, NEW event \in Event,
         IsFileStat(entry), Count(t, f, entry), Logged(t, event)
  PROVE  TypeOK'
<1>1. /\ {DOMAIN file_stat_table, DOMAIN syscall_table} = {Thread}
      /\ \A u \in Thread : IsFileTable(file_stat_table[u]) /\ IsSyscallTable(syscall_table[u])
  BY DEF TypeOK
<1>2. DOMAIN log' = Thread /\ \A u \in Thread : IsLog(log'[u])
  BY LogTyped
<1>3. IsFileTable(Put(file_stat_table[t], f, entry))
  BY <1>1 DEF IsFileTable, Put
<1>4. file_stat_table' = [file_stat_table EXCEPT ![t] = Put(@, f, entry)]
  BY DEF Count
<1>5. /\ DOMAIN file_stat_table' = Thread
      /\ \A u \in Thread : IsFileTable(file_stat_table'[u])
  BY <1>1, <1>3, <1>4
<1>6. UNCHANGED <<main_file_stat_table, merged_file, svars, json>>
  BY DEF Count
<1> QED
  BY <1>1, <1>2, <1>5, <1>6 DEF TypeOK, svars

\* The tables are well typed when the program starts.
LEMMA TypeInit == Init => TypeOK
<1> SUFFICES ASSUME Init PROVE TypeOK
  OBVIOUS
<1>1. IsFileTable(file_stat_create)
  BY FreshFileStat DEF IsFileTable, file_stat_create
<1>2. IsSyscallTable(syscall_stat_create)
  BY DEF IsSyscallTable, syscall_stat_create
<1>3. IsLog(EmptyBag)
  BY WeightOfNone DEF IsFiniteBag, IsLog
<1> QED
  BY <1>1, <1>2, <1>3 DEF Init, TypeOK

\* Every step keeps them so.
LEMMA TypeStep == TypeOK /\ [Next]_vars => TypeOK'
<1> SUFFICES ASSUME TypeOK, [Next]_vars PROVE TypeOK'
  OBVIOUS
<1>1. \A t \in Thread, f \in File : IsFileStat(file_stat_get_safe(file_stat_table[t], f))
  BY FreshFileStat DEF TypeOK, IsFileTable, file_stat_get_safe, Get
<1>2. ASSUME NEW t \in Thread, NEW f \in File, NEW ns \in Ns, file_stat_incr_open(t, f, ns)
      PROVE  TypeOK'
  <2> DEFINE s == file_stat_get_safe(file_stat_table[t], f)
             e == [s EXCEPT !.open = incr_open_close(@, ns)]
  <2>1. IsFileStat(s)
    BY <1>1
  <2> HIDE DEF s
  <2>2. IsFileStat(e)
    BY <2>1, OpenCloseTyped DEF IsFileStat
  <2>3. Count(t, f, e) /\ Logged(t, [op |-> "open", key |-> f, ns |-> ns, bytes |-> 0])
    BY <1>2 DEF file_stat_incr_open, s
  <2>4. [op |-> "open", key |-> f, ns |-> ns, bytes |-> 0] \in Event
    BY DEF Event
  <2> HIDE DEF e
  <2> QED
    BY <2>2, <2>3, <2>4, CountTyped
<1>3. ASSUME NEW t \in Thread, NEW f \in File, NEW ns \in Ns, file_stat_incr_close(t, f, ns)
      PROVE  TypeOK'
  <2> DEFINE s == file_stat_get_safe(file_stat_table[t], f)
             e == [s EXCEPT !.close = incr_open_close(@, ns)]
  <2>1. IsFileStat(s)
    BY <1>1
  <2> HIDE DEF s
  <2>2. IsFileStat(e)
    BY <2>1, OpenCloseTyped DEF IsFileStat
  <2>3. Count(t, f, e) /\ Logged(t, [op |-> "close", key |-> f, ns |-> ns, bytes |-> 0])
    BY <1>3 DEF file_stat_incr_close, s
  <2>4. [op |-> "close", key |-> f, ns |-> ns, bytes |-> 0] \in Event
    BY DEF Event
  <2> HIDE DEF e
  <2> QED
    BY <2>2, <2>3, <2>4, CountTyped
<1>4. ASSUME NEW t \in Thread, NEW f \in File, NEW ns \in Ns, NEW b \in Bytes,
             file_stat_incr_read(t, f, ns, b)
      PROVE  TypeOK'
  <2> DEFINE s == file_stat_get_safe(file_stat_table[t], f)
             e == [s EXCEPT !.read = file_stat_incr_rw(@, ns, b)]
  <2>1. IsFileStat(s)
    BY <1>1
  <2> HIDE DEF s
  <2>2. IsReadWrite(file_stat_incr_rw(s.read, ns, b))
    BY <2>1, ReadWriteTyped DEF IsFileStat
  <2>3. IsFileStat(e)
    BY <2>1, <2>2 DEF IsFileStat
  <2>4. Count(t, f, e) /\ Logged(t, [op |-> "read", key |-> f, ns |-> ns, bytes |-> b])
    BY <1>4 DEF file_stat_incr_read, s
  <2>5. [op |-> "read", key |-> f, ns |-> ns, bytes |-> b] \in Event
    BY DEF Event
  <2> HIDE DEF e
  <2> QED
    BY <2>3, <2>4, <2>5, CountTyped
<1>5. ASSUME NEW t \in Thread, NEW f \in File, NEW ns \in Ns, NEW b \in Bytes,
             file_stat_incr_write(t, f, ns, b)
      PROVE  TypeOK'
  <2> DEFINE s == file_stat_get_safe(file_stat_table[t], f)
             e == [s EXCEPT !.write = file_stat_incr_rw(@, ns, b)]
  <2>1. IsFileStat(s)
    BY <1>1
  <2> HIDE DEF s
  <2>2. IsReadWrite(file_stat_incr_rw(s.write, ns, b))
    BY <2>1, ReadWriteTyped DEF IsFileStat
  <2>3. IsFileStat(e)
    BY <2>1, <2>2 DEF IsFileStat
  <2>4. Count(t, f, e) /\ Logged(t, [op |-> "write", key |-> f, ns |-> ns, bytes |-> b])
    BY <1>5 DEF file_stat_incr_write, s
  <2>5. [op |-> "write", key |-> f, ns |-> ns, bytes |-> b] \in Event
    BY DEF Event
  <2> HIDE DEF e
  <2> QED
    BY <2>3, <2>4, <2>5, CountTyped
<1>6. ASSUME NEW t \in Thread, NEW c \in Sc, NEW ns \in Ns, syscall_stat_incr(t, c, ns)
      PROVE  TypeOK'
  <2> DEFINE T == syscall_table[t]
             e == incr_syscall_stat(syscall_stat_get_safe(T, c), ns)
  <2>1. IsSyscallTable(T) /\ DOMAIN syscall_table = Thread
    BY DEF TypeOK
  <2>2. /\ syscall_table' = [syscall_table EXCEPT ![t] = Put(T, c, e)]
        /\ Logged(t, [op |-> "other", sc |-> c, ns |-> ns])
        /\ UNCHANGED <<main_syscall_table, merged_sys, fvars, json>>
    BY <1>6 DEF syscall_stat_incr
  <2> HIDE DEF T
  <2>3. e \in SyscallStat
    <3>1. syscall_stat_get_safe(T, c) \in SyscallStat
      BY <2>1 DEF syscall_stat_get_safe, Get, IsSyscallTable, SyscallStat, init_syscall_stat
    <3> QED
      BY <3>1, FileStatsAssumption DEF incr_syscall_stat, SyscallStat
  <2> HIDE DEF e
  <2>4. IsSyscallTable(Put(T, c, e))
    BY <2>1, <2>3 DEF IsSyscallTable, Put
  <2>5. \A u \in Thread : IsSyscallTable(syscall_table'[u])
    BY <2>1, <2>2, <2>4 DEF TypeOK
  <2>6. DOMAIN log' = Thread /\ \A u \in Thread : IsLog(log'[u])
    <3>1. [op |-> "other", sc |-> c, ns |-> ns] \in Event
      BY DEF Event
    <3> QED
      BY <2>2, <3>1, LogTyped
  <2>7. DOMAIN syscall_table' = Thread
    BY <2>1, <2>2
  <2> QED
    BY <2>2, <2>5, <2>6, <2>7 DEF TypeOK, fvars
<1>7. ASSUME NEW t \in Thread, file_state_merge(t) PROVE TypeOK'
  <2>1. IsFileTable(MergeFiles(main_file_stat_table, file_stat_table[t]))
    BY FilesMerged DEF TypeOK
  <2> QED
    BY <1>7, <2>1 DEF TypeOK, file_state_merge, svars
<1>8. ASSUME NEW t \in Thread, syscall_stat_merge(t) PROVE TypeOK'
  <2>1. IsSyscallTable(MergeSyscalls(main_syscall_table, syscall_table[t]))
    BY SyscallsMerged DEF TypeOK
  <2> QED
    BY <1>8, <2>1 DEF TypeOK, syscall_stat_merge, fvars
<1>9. CASE print_stats_as_json
  BY <1>9 DEF TypeOK, print_stats_as_json, fvars, svars
<1>10. CASE UNCHANGED vars
  BY <1>10 DEF TypeOK, vars, fvars, svars
<1> QED
  BY <1>2, <1>3, <1>4, <1>5, <1>6, <1>7, <1>8, <1>9, <1>10 DEF Next, Counted

\* Every table keeps its type whatever the threads count and in whatever order
\* they merge: the members that file_stat.c declares unsigned never go below
\* zero, so MergeFilesOrder and MergeSyscallsOrder hold of every table there is.
THEOREM TypeCorrect == Spec => []TypeOK
  BY TypeInit, TypeStep, PTL DEF Spec

-----------------------------------------------------------------------------
(* The statistics of two bags together.                                    *)

\* The least of a set of natural numbers, ...
LEMMA MinIs ==
  ASSUME NEW T \in SUBSET Nat, T # {}
  PROVE  Min(T) \in T /\ \A y \in T : Min(T) <= y
<1>1. PICK m \in T : \A n \in T : ~(<<n, m>> \in OpToRel(<, Nat))
  BY NatLessThanWellFounded, WFMin, Zenon
<1>2. ASSUME NEW n \in T PROVE m <= n
  <2>1. n \in Nat /\ m \in Nat
    OBVIOUS
  <2>2. n < m => <<n, m>> \in OpToRel(<, Nat)
    BY <2>1 DEF OpToRel
  <2>3. ~(n < m)
    BY <1>1, <2>2, Zenon
  <2> QED
    BY <2>1, <2>3
<1> QED
  BY <1>2 DEF Min

\* ... and the greatest of a finite one.
LEMMA MaxIs ==
  ASSUME NEW T \in SUBSET Nat, IsFiniteSet(T), T # {}
  PROVE  Max(T) \in T /\ \A y \in T : y <= Max(T)
<1> DEFINE Top(U) == \E m \in U : \A y \in U : m >= y
           G == {U \in SUBSET T : U = {} \/ Top(U)}
<1>1. {} \in G
  OBVIOUS
<1>2. ASSUME NEW U \in SUBSET T, NEW x \in T, U \in G, x \notin U PROVE U \cup {x} \in G
  <2>1. CASE U = {}
    <3>1. Top({x})
      OBVIOUS
    <3>2. U \cup {x} = {x}
      BY <2>1
    <3> QED
      BY <3>1, <3>2
  <2>2. CASE U # {}
    <3>1. PICK m \in U : \A y \in U : m >= y
      BY <1>2, <2>2
    <3>2. CASE m >= x
      BY <3>1, <3>2
    <3>3. CASE ~(m >= x)
      <4>1. \A y \in U \cup {x} : x >= y
        BY <3>1, <3>3
      <4> QED
        BY <4>1
    <3> QED
      BY <3>2, <3>3
  <2> QED
    BY <2>1, <2>2
<1> HIDE DEF G
<1>3. T \in G
  BY <1>1, <1>2, SetInduction
<1>4. PICK m \in T : \A y \in T : m >= y
  BY <1>3 DEF G
<1>5. Max(T) \in T /\ \A y \in T : Max(T) >= y
  BY <1>4 DEF Max
<1> QED
  BY <1>5

\* The least of a set of numbers, and the greatest; without numbers, what the
\* members of the structures start from.
Least(T, top) == IF T = {} THEN top ELSE Min(T)
Most(T) == IF T = {} THEN 0 ELSE Max(T)

\* Of two sets of numbers the least is the lesser of the least, also if a set is
\* empty: no number is above what the minimum starts from.
LEMMA LeastAdds ==
  ASSUME NEW top \in Nat, NEW T \in SUBSET Nat, NEW U \in SUBSET Nat,
         \A y \in T \cup U : y <= top
  PROVE  /\ Least(T \cup U, top) = Lesser(Least(T, top), Least(U, top))
         /\ Least(T, top) \in Nat /\ Least(T, top) <= top
<1> DEFINE Is(m, V) == /\ m \in Nat /\ m <= top /\ \A y \in V : m <= y
                       /\ V = {} => m = top
                       /\ V # {} => m \in V
<1>1. \A V \in SUBSET (T \cup U) : Is(Least(V, top), V)
  <2> TAKE V \in SUBSET (T \cup U)
  <2>1. V # {} => Min(V) \in V /\ \A y \in V : Min(V) <= y
    BY MinIs
  <2>2. CASE V = {}
    BY <2>2 DEF Least
  <2>3. CASE V # {}
    <3>1. Least(V, top) = Min(V)
      BY <2>3 DEF Least
    <3> QED
      BY <2>1, <2>3, <3>1
  <2> QED
    BY <2>2, <2>3
<1>2. Is(Least(T, top), T) /\ Is(Least(U, top), U) /\ Is(Least(T \cup U, top), T \cup U)
  BY <1>1
<1> DEFINE a == Least(T, top)
           b == Least(U, top)
           c == Least(T \cup U, top)
<1> HIDE DEF a, b, c
<1>3. Is(a, T) /\ Is(b, U) /\ Is(c, T \cup U)
  BY <1>2 DEF a, b, c
<1>4. c = Lesser(a, b)
  BY <1>3 DEF Lesser
<1> QED
  BY <1>3, <1>4 DEF a, b, c

\* The greatest likewise; it starts from zero.
LEMMA MostAdds ==
  ASSUME NEW T \in SUBSET Nat, NEW U \in SUBSET Nat, IsFiniteSet(T), IsFiniteSet(U)
  PROVE  /\ Most(T \cup U) = Greater(Most(T), Most(U))
         /\ Most(T) \in Nat
<1> DEFINE Is(m, V) == /\ m \in Nat /\ \A y \in V : y <= m
                       /\ V = {} => m = 0
                       /\ V # {} => m \in V
<1>1. IsFiniteSet(T \cup U)
  BY FS_Union
<1>2. \A V \in SUBSET (T \cup U) : Is(Most(V), V)
  <2> TAKE V \in SUBSET (T \cup U)
  <2>1. IsFiniteSet(V)
    BY <1>1, FS_Subset
  <2> QED
    BY <2>1, MaxIs DEF Most
<1> DEFINE a == Most(T)
           b == Most(U)
           c == Most(T \cup U)
<1>3. Is(a, T) /\ Is(b, U) /\ Is(c, T \cup U)
  BY <1>2
<1> HIDE DEF a, b, c
<1>4. c = Greater(a, b)
  BY <1>3 DEF Greater
<1> QED
  BY <1>3, <1>4 DEF a, b, c

\* A bag's part with the members in K.
Part(b, K) == [e \in {d \in DOMAIN b : d \in K} |-> b[e]]

\* A part of two bags is their parts together.
LEMMA PartAdds ==
  ASSUME NEW a, NEW b, NEW K, IsFiniteBag(a), IsFiniteBag(b)
  PROVE  Part(a (+) b, K) = Part(a, K) (+) Part(b, K)
<1> DEFINE l == Part(a (+) b, K)
           r == Part(a, K) (+) Part(b, K)
<1>1. DOMAIN (a (+) b) = DOMAIN a \cup DOMAIN b
  BY FiniteBagSum
<1>2. /\ DOMAIN Part(a, K) = {d \in DOMAIN a : d \in K}
      /\ DOMAIN Part(b, K) = {d \in DOMAIN b : d \in K}
  BY DEF Part
<1>3. DOMAIN l = {d \in DOMAIN a \cup DOMAIN b : d \in K}
  BY <1>1 DEF Part
<1>4. DOMAIN r = DOMAIN l
  BY <1>2, <1>3 DEF (+)
<1>5. \A e \in DOMAIN l : l[e] = r[e]
  BY <1>1, <1>2, <1>3 DEF Part, (+)
<1>6. l = [e \in DOMAIN l |-> l[e]] /\ r = [e \in DOMAIN r |-> r[e]]
  BY DEF Part, (+)
<1> HIDE DEF l, r
<1>7. l = r
  BY <1>4, <1>5, <1>6
<1> QED
  BY <1>7 DEF l, r

\* A part of a finite bag is finite.
LEMMA PartFinite ==
  ASSUME NEW a, NEW K, IsFiniteBag(a)
  PROVE  IsFiniteBag(Part(a, K)) /\ DOMAIN Part(a, K) = {d \in DOMAIN a : d \in K}
<1>1. DOMAIN Part(a, K) = {d \in DOMAIN a : d \in K}
  BY DEF Part
<1>2. IsFiniteSet(DOMAIN Part(a, K))
  BY <1>1, FS_Subset DEF IsFiniteBag
<1>3. IsABag(Part(a, K))
  BY <1>1 DEF Part, IsABag, IsFiniteBag
<1> QED
  BY <1>1, <1>2, <1>3 DEF IsFiniteBag

\* The syscalls of one kind on one file are part of a log, ...
LEMMA SelectFinite ==
  ASSUME NEW a, NEW op, NEW key, IsFiniteBag(a)
  PROVE  /\ IsFiniteBag(Select(a, op, key))
         /\ DOMAIN Select(a, op, key) = {d \in DOMAIN a : d.op = op /\ d.key = key}
<1> DEFINE K == {d \in DOMAIN a : d.op = op /\ d.key = key}
<1>1. {d \in DOMAIN a : d \in K} = K
  OBVIOUS
<1>2. Select(a, op, key) = Part(a, K)
  BY <1>1 DEF Select, Part
<1>3. IsFiniteBag(Part(a, K)) /\ DOMAIN Part(a, K) = {d \in DOMAIN a : d \in K}
  BY PartFinite
<1> QED
  BY <1>1, <1>2, <1>3

\* ... and of two logs they are those of both.
LEMMA SelectAdds ==
  ASSUME NEW a, NEW b, NEW op, NEW key, IsFiniteBag(a), IsFiniteBag(b)
  PROVE  Select(a (+) b, op, key) = Select(a, op, key) (+) Select(b, op, key)
<1> DEFINE K == {d \in DOMAIN a \cup DOMAIN b : d.op = op /\ d.key = key}
<1>1. DOMAIN (a (+) b) = DOMAIN a \cup DOMAIN b
  BY FiniteBagSum
<1>2. /\ {d \in DOMAIN a : d.op = op /\ d.key = key} = {d \in DOMAIN a : d \in K}
      /\ {d \in DOMAIN b : d.op = op /\ d.key = key} = {d \in DOMAIN b : d \in K}
      /\ {d \in DOMAIN (a (+) b) : d.op = op /\ d.key = key} = {d \in DOMAIN (a (+) b) : d \in K}
  BY <1>1
<1>3. /\ Select(a, op, key) = Part(a, K) /\ Select(b, op, key) = Part(b, K)
      /\ Select(a (+) b, op, key) = Part(a (+) b, K)
  BY <1>2 DEF Select, Part
<1> HIDE DEF K
<1>4. Part(a (+) b, K) = Part(a, K) (+) Part(b, K)
  BY PartAdds
<1> QED
  BY <1>3, <1>4

\* So are the other syscalls with one number.
LEMMA SelectOtherFinite ==
  ASSUME NEW a, NEW c, IsFiniteBag(a)
  PROVE  /\ IsFiniteBag(SelectOther(a, c))
         /\ DOMAIN SelectOther(a, c) = {d \in DOMAIN a : d.op = "other" /\ d.sc = c}
<1> DEFINE K == {d \in DOMAIN a : d.op = "other" /\ d.sc = c}
<1>1. {d \in DOMAIN a : d \in K} = K
  OBVIOUS
<1>2. SelectOther(a, c) = Part(a, K)
  BY <1>1 DEF SelectOther, Part
<1>3. IsFiniteBag(Part(a, K)) /\ DOMAIN Part(a, K) = {d \in DOMAIN a : d \in K}
  BY PartFinite
<1> QED
  BY <1>1, <1>2, <1>3

\* They too are those of both.
LEMMA SelectOtherAdds ==
  ASSUME NEW a, NEW b, NEW c, IsFiniteBag(a), IsFiniteBag(b)
  PROVE  SelectOther(a (+) b, c) = SelectOther(a, c) (+) SelectOther(b, c)
<1> DEFINE K == {d \in DOMAIN a \cup DOMAIN b : d.op = "other" /\ d.sc = c}
<1>1. DOMAIN (a (+) b) = DOMAIN a \cup DOMAIN b
  BY FiniteBagSum
<1>2. /\ {d \in DOMAIN a : d.op = "other" /\ d.sc = c} = {d \in DOMAIN a : d \in K}
      /\ {d \in DOMAIN b : d.op = "other" /\ d.sc = c} = {d \in DOMAIN b : d \in K}
      /\ {d \in DOMAIN (a (+) b) : d.op = "other" /\ d.sc = c} = {d \in DOMAIN (a (+) b) : d \in K}
  BY <1>1
<1>3. /\ SelectOther(a, c) = Part(a, K) /\ SelectOther(b, c) = Part(b, K)
      /\ SelectOther(a (+) b, c) = Part(a (+) b, K)
  BY <1>2 DEF SelectOther, Part
<1> HIDE DEF K
<1>4. Part(a (+) b, K) = Part(a, K) (+) Part(b, K)
  BY PartAdds
<1> QED
  BY <1>3, <1>4

\* Bags of syscalls with times, and of reads or writes.
Timed(b) == IsFiniteBag(b) /\ \A e \in DOMAIN b : e.ns \in Ns
Transfers(b) == Timed(b) /\ \A e \in DOMAIN b : e.bytes \in Bytes

\* What a syscall of X weighs: itself, its time, the bytes it moved, and itself
\* if its result was k.
Ones(X) == [e \in X |-> 1]
Times(X) == [e \in X |-> e.ns]
Moved(X) == [e \in X |-> IF e.bytes > 0 THEN e.bytes ELSE 0]
Sized(X, k) == [e \in X |-> IF e.bytes = k THEN 1 ELSE 0]

\* If nothing weighs anything, nor does the bag.
LEMMA WeightOfZeros ==
  ASSUME NEW b, IsFiniteBag(b), NEW v, \A e \in DOMAIN b : v[e] = 0
  PROVE  Weight(b, v) = 0
<1> DEFINE f == [e \in DOMAIN b |-> b[e] * v[e]]
<1>1. \A e \in DOMAIN b : b[e] \in Nat
  BY DEF IsFiniteBag, IsABag
<1>2. \A n \in Nat : n * 0 = 0
  OBVIOUS
<1>3. \A e \in DOMAIN b : f[e] = 0
  BY <1>1, <1>2
<1>4. IsFiniteSet(DOMAIN b) /\ DOMAIN f = DOMAIN b
  BY DEF IsFiniteBag
<1>5. Weight(b, v) = SumFunctionOnSet(f, DOMAIN b)
  BY <1>4 DEF Weight, SumFunction
<1> HIDE DEF f
<1>6. SumFunctionOnSet(f, DOMAIN b) = SumFunctionOnSet(f, {})
  BY <1>3, <1>4, SumZeros
<1> QED
  BY <1>5, <1>6, SumEmpty

\* Counting a bag is weighing it, every member one.
LEMMA CountIsWeight ==
  ASSUME NEW b, IsFiniteBag(b), NEW X, DOMAIN b \subseteq X
  PROVE  SumFunction(b) = Weight(b, Ones(X))
<1>1. \A e \in DOMAIN b : b[e] \in Nat
  BY DEF IsFiniteBag, IsABag
<1>2. \A n \in Nat : n * 1 = n
  OBVIOUS
<1>3. b = [e \in DOMAIN b |-> b[e]]
  BY DEF IsFiniteBag, IsABag
<1>4. \A e \in DOMAIN b : b[e] * Ones(X)[e] = b[e]
  BY <1>1, <1>2 DEF Ones
<1>5. [e \in DOMAIN b |-> b[e] * Ones(X)[e]] = [e \in DOMAIN b |-> b[e]]
  BY <1>4
<1> QED
  BY <1>3, <1>5 DEF Weight

\* The statistics of open or close by weights, over any set that holds the syscalls.
LEMMA OpenCloseAs ==
  ASSUME NEW a, Timed(a), NEW X, DOMAIN a \subseteq X
  PROVE  OpenCloseOf(a) =
           [count |-> Weight(a, Ones(X)), total_ns |-> Weight(a, Times(X)),
            min_ns |-> Least({e.ns : e \in DOMAIN a}, MIN_NS_INITIAL),
            max_ns |-> Most({e.ns : e \in DOMAIN a})]
<1> DEFINE times == {e.ns : e \in DOMAIN a}
<1>1. SumFunction(a) = Weight(a, Ones(X))
  BY CountIsWeight DEF Timed
<1>2. Total(a, LAMBDA e : e.ns) = Weight(a, Times(X))
  <2>1. \A e \in DOMAIN a : Times(X)[e] = e.ns
    BY DEF Times
  <2>2. [e \in DOMAIN a |-> a[e] * e.ns] = [e \in DOMAIN a |-> a[e] * Times(X)[e]]
    BY <2>1
  <2> QED
    BY <2>2 DEF Total, Weight
<1>3. CASE times = {}
  <2>1. DOMAIN a = {}
    BY <1>3
  <2>2. Weight(a, Ones(X)) = 0
    BY <2>1, WeightOfZeros DEF Timed
  <2>3. Weight(a, Times(X)) = 0
    BY <2>1, WeightOfZeros DEF Timed
  <2> QED
    BY <1>3, <2>2, <2>3 DEF OpenCloseOf, init_open_close, Least, Most
<1>4. CASE times # {}
  BY <1>1, <1>2, <1>4 DEF OpenCloseOf, Least, Most
<1> QED
  BY <1>3, <1>4

\* A function takes finitely many values on a finite set.
LEMMA ImageFinite ==
  ASSUME NEW S, IsFiniteSet(S), NEW f
  PROVE  IsFiniteSet({f[e] : e \in S})
<1> DEFINE Image(T) == {f[e] : e \in T}
           G == {T \in SUBSET S : IsFiniteSet(Image(T))}
<1>1. {} \in G
  <2>1. Image({}) = {}
    OBVIOUS
  <2> QED
    BY <2>1, FS_EmptySet
<1>2. ASSUME NEW T \in SUBSET S, NEW x \in S, T \in G, x \notin T PROVE T \cup {x} \in G
  <2>1. Image(T \cup {x}) = Image(T) \cup {f[x]}
    OBVIOUS
  <2>2. IsFiniteSet(Image(T) \cup {f[x]})
    BY <1>2, FS_AddElement
  <2> QED
    BY <2>1, <2>2
<1> HIDE DEF G
<1>3. S \in G
  BY <1>1, <1>2, SetInduction
<1> QED
  BY <1>3 DEF G

\* The statistics of two bags of syscalls together are theirs merged
\* (merge_open_close).
LEMMA OpenCloseAdds ==
  ASSUME BelowInitials, NEW a, NEW b, Timed(a), Timed(b)
  PROVE  OpenCloseOf(a (+) b) = merge_open_close(OpenCloseOf(a), OpenCloseOf(b))
<1> DEFINE c == a (+) b
           X == DOMAIN c
           T(x) == {e.ns : e \in DOMAIN x}
<1>1. DOMAIN c = DOMAIN a \cup DOMAIN b /\ IsFiniteBag(c) /\ IsFiniteBag(a) /\ IsFiniteBag(b)
  BY FiniteBagSum DEF Timed
<1>2. Timed(c)
  BY <1>1 DEF Timed
<1>3. T(c) = T(a) \cup T(b)
  BY <1>1
<1>4. T(a) \in SUBSET Nat /\ T(b) \in SUBSET Nat /\ \A y \in T(a) \cup T(b) : y <= MIN_NS_INITIAL
  BY FileStatsAssumption DEF Timed, BelowInitials
<1>5. IsFiniteSet(T(a)) /\ IsFiniteSet(T(b))
  <2>1. T(a) = {Times(X)[e] : e \in DOMAIN a} /\ T(b) = {Times(X)[e] : e \in DOMAIN b}
    BY <1>1 DEF Times
  <2>2. IsFiniteSet(DOMAIN a) /\ IsFiniteSet(DOMAIN b)
    BY <1>1 DEF IsFiniteBag
  <2> HIDE DEF T, X
  <2> QED
    BY <2>1, <2>2, ImageFinite
<1>6. OpenCloseOf(c) = [count |-> Weight(c, Ones(X)), total_ns |-> Weight(c, Times(X)),
                        min_ns |-> Least(T(c), MIN_NS_INITIAL), max_ns |-> Most(T(c))]
  BY <1>2, OpenCloseAs
<1>7. OpenCloseOf(a) = [count |-> Weight(a, Ones(X)), total_ns |-> Weight(a, Times(X)),
                        min_ns |-> Least(T(a), MIN_NS_INITIAL), max_ns |-> Most(T(a))]
  BY <1>1, OpenCloseAs
<1>8. OpenCloseOf(b) = [count |-> Weight(b, Ones(X)), total_ns |-> Weight(b, Times(X)),
                        min_ns |-> Least(T(b), MIN_NS_INITIAL), max_ns |-> Most(T(b))]
  BY <1>1, OpenCloseAs
<1>9. Weight(c, Ones(X)) = Weight(a, Ones(X)) + Weight(b, Ones(X))
  <2>1. \A e \in DOMAIN a \cup DOMAIN b : Ones(X)[e] \in Nat
    BY <1>1 DEF Ones
  <2> QED
    BY <1>1, <2>1, WeightAdds
<1>10. Weight(c, Times(X)) = Weight(a, Times(X)) + Weight(b, Times(X))
  <2>1. \A e \in DOMAIN a \cup DOMAIN b : Times(X)[e] \in Nat
    BY <1>1, FileStatsAssumption DEF Times, Timed
  <2> QED
    BY <1>1, <2>1, WeightAdds
<1> HIDE DEF T, X
<1>11. Least(T(c), MIN_NS_INITIAL) = Lesser(Least(T(a), MIN_NS_INITIAL), Least(T(b), MIN_NS_INITIAL))
  BY <1>3, <1>4, LeastAdds, FileStatsAssumption
<1>12. Most(T(c)) = Greater(Most(T(a)), Most(T(b)))
  BY <1>3, <1>4, <1>5, MostAdds
<1> HIDE DEF c
<1>13. OpenCloseOf(c) = merge_open_close(OpenCloseOf(a), OpenCloseOf(b))
  BY <1>6, <1>7, <1>8, <1>9, <1>10, <1>11, <1>12 DEF merge_open_close
<1> QED
  BY <1>13 DEF c

\* A bag of one member.
LEMMA OneOf ==
  ASSUME NEW x
  PROVE  DOMAIN SetToBag({x}) = {x} /\ IsFiniteBag(SetToBag({x}))
<1>1. DOMAIN SetToBag({x}) = {x}
  BY DEF SetToBag
<1>2. IsFiniteSet({x})
  BY FS_Singleton
<1>3. IsABag(SetToBag({x}))
  BY DEF IsABag, SetToBag
<1> QED
  BY <1>1, <1>2, <1>3 DEF IsFiniteBag

\* The least of one number is that number, and so is the greatest.
LEMMA ExtremesOfOne ==
  ASSUME NEW n \in Nat, NEW top
  PROVE  Least({n}, top) = n /\ Most({n}) = n
<1>1. {n} \in SUBSET Nat /\ {n} # {} /\ IsFiniteSet({n})
  BY FS_Singleton
<1>2. Min({n}) \in {n}
  BY <1>1, MinIs
<1>3. Max({n}) \in {n}
  BY <1>1, MaxIs
<1> QED
  BY <1>2, <1>3 DEF Least, Most

\* A syscall more changes them as incr_open_close does.
LEMMA OpenCloseCounted ==
  ASSUME BelowInitials, NEW a, NEW e, Timed(a), e.ns \in Ns
  PROVE  OpenCloseOf(a (+) SetToBag({e})) = incr_open_close(OpenCloseOf(a), e.ns)
<1> DEFINE b == SetToBag({e})
<1>1. DOMAIN b = {e} /\ IsFiniteBag(b)
  BY OneOf
<1>2. Timed(b)
  BY <1>1 DEF Timed
<1>3. Weight(b, Ones({e})) = 1
  BY WeightOfOne DEF Ones
<1>4. Weight(b, Times({e})) = e.ns
  BY WeightOfOne, FileStatsAssumption DEF Times
<1> HIDE DEF b
<1>5. {d.ns : d \in DOMAIN b} = {e.ns}
  BY <1>1
<1>6. OpenCloseOf(b) = [count |-> Weight(b, Ones({e})), total_ns |-> Weight(b, Times({e})),
                        min_ns |-> Least({e.ns}, MIN_NS_INITIAL), max_ns |-> Most({e.ns})]
  BY <1>1, <1>2, <1>5, OpenCloseAs
<1>7. Least({e.ns}, MIN_NS_INITIAL) = e.ns /\ Most({e.ns}) = e.ns
  BY ExtremesOfOne, FileStatsAssumption
<1>8. OpenCloseOf(b) = [count |-> 1, total_ns |-> e.ns, min_ns |-> e.ns, max_ns |-> e.ns]
  BY <1>3, <1>4, <1>6, <1>7
<1>9. OpenCloseOf(a (+) b) = merge_open_close(OpenCloseOf(a), OpenCloseOf(b))
  BY <1>2, OpenCloseAdds
<1>10. OpenCloseOf(a (+) b) = incr_open_close(OpenCloseOf(a), e.ns)
  BY <1>8, <1>9 DEF merge_open_close, incr_open_close
<1> QED
  BY <1>10 DEF b

\* The reads and writes that moved bytes, their speeds, and the results of all.
Moving(b) == {e \in DOMAIN b : e.bytes > 0}
Speeds(b) == {Bps(e.ns, e.bytes) : e \in Moving(b)}
BlocksOf(b) == [k \in {e.bytes : e \in DOMAIN b} |->
                  Total(b, LAMBDA e : IF e.bytes = k THEN 1 ELSE 0)]

\* How often each result was returned, by weights.
LEMMA BlocksAs ==
  ASSUME NEW a, IsFiniteBag(a), NEW X, DOMAIN a \subseteq X
  PROVE  /\ DOMAIN BlocksOf(a) = {e.bytes : e \in DOMAIN a}
         /\ \A k : Get(BlocksOf(a), k, 0) = Weight(a, Sized(X, k))
<1>1. DOMAIN BlocksOf(a) = {e.bytes : e \in DOMAIN a}
  BY DEF BlocksOf
<1>2. ASSUME NEW k PROVE Get(BlocksOf(a), k, 0) = Weight(a, Sized(X, k))
  <2>1. Total(a, LAMBDA e : IF e.bytes = k THEN 1 ELSE 0) = Weight(a, Sized(X, k))
    <3>1. \A e \in DOMAIN a : Sized(X, k)[e] = IF e.bytes = k THEN 1 ELSE 0
      BY DEF Sized
    <3>2. [e \in DOMAIN a |-> a[e] * (IF e.bytes = k THEN 1 ELSE 0)]
            = [e \in DOMAIN a |-> a[e] * Sized(X, k)[e]]
      BY <3>1
    <3> QED
      BY <3>2 DEF Total, Weight
  <2>2. CASE k \in DOMAIN BlocksOf(a)
    BY <2>1, <2>2 DEF BlocksOf, Get
  <2>3. CASE k \notin DOMAIN BlocksOf(a)
    <3>1. \A e \in DOMAIN a : Sized(X, k)[e] = 0
      BY <1>1, <2>3 DEF Sized
    <3>2. Weight(a, Sized(X, k)) = 0
      BY <3>1, WeightOfZeros
    <3> QED
      BY <2>3, <3>2 DEF Get
  <2> QED
    BY <2>2, <2>3
<1> QED
  BY <1>1, <1>2

\* The statistics of read or write by weights.
LEMMA ReadWriteAs ==
  ASSUME NEW a, Transfers(a), NEW X, DOMAIN a \subseteq X
  PROVE  ReadWriteOf(a) =
           [total_b |-> Weight(a, Moved(X)), total_ns |-> Weight(a, Times(X)),
            min_bps |-> Least(Speeds(a), MIN_BPS_INITIAL), max_bps |-> Most(Speeds(a)),
            blocks |-> BlocksOf(a)]
<1>1. Total(a, LAMBDA e : e.ns) = Weight(a, Times(X))
  <2>1. \A e \in DOMAIN a : Times(X)[e] = e.ns
    BY DEF Times
  <2>2. [e \in DOMAIN a |-> a[e] * e.ns] = [e \in DOMAIN a |-> a[e] * Times(X)[e]]
    BY <2>1
  <2> QED
    BY <2>2 DEF Total, Weight
<1>2. Total(a, LAMBDA e : IF e.bytes > 0 THEN e.bytes ELSE 0) = Weight(a, Moved(X))
  <2>1. \A e \in DOMAIN a : Moved(X)[e] = IF e.bytes > 0 THEN e.bytes ELSE 0
    BY DEF Moved
  <2>2. [e \in DOMAIN a |-> a[e] * (IF e.bytes > 0 THEN e.bytes ELSE 0)]
          = [e \in DOMAIN a |-> a[e] * Moved(X)[e]]
    BY <2>1
  <2> QED
    BY <2>2 DEF Total, Weight
<1>3. Speeds(a) = {} <=> Moving(a) = {}
  BY DEF Speeds
<1>4. /\ Least(Speeds(a), MIN_BPS_INITIAL) = IF Moving(a) = {} THEN MIN_BPS_INITIAL ELSE Min(Speeds(a))
      /\ Most(Speeds(a)) = IF Moving(a) = {} THEN 0 ELSE Max(Speeds(a))
  BY <1>3 DEF Least, Most
<1> QED
  BY <1>1, <1>2, <1>4 DEF ReadWriteOf, Speeds, Moving, BlocksOf

\* The speeds are finitely many natural numbers, none above MIN_BPS_INITIAL.
LEMMA SpeedsAre ==
  ASSUME BelowInitials, NEW a, Transfers(a)
  PROVE  /\ Speeds(a) \in SUBSET Nat /\ IsFiniteSet(Speeds(a))
         /\ \A y \in Speeds(a) : y <= MIN_BPS_INITIAL
<1>1. \A e \in Moving(a) : e.ns \in Ns /\ e.bytes \in Bytes /\ e.bytes > 0
  BY DEF Moving, Transfers, Timed
<1>2. \A e \in Moving(a) : Bps(e.ns, e.bytes) \in Nat
  BY <1>1, SpeedTyped
<1>3. \A e \in Moving(a) : Bps(e.ns, e.bytes) <= MIN_BPS_INITIAL
  BY <1>1 DEF BelowInitials
<1>4. IsFiniteSet(Moving(a))
  BY FS_Subset DEF Moving, Transfers, Timed, IsFiniteBag
<1> DEFINE f == [e \in Moving(a) |-> Bps(e.ns, e.bytes)]
<1>5. IsFiniteSet({f[e] : e \in Moving(a)})
  BY <1>4, ImageFinite
<1>6. {f[e] : e \in Moving(a)} = Speeds(a)
  BY DEF Speeds
<1> QED
  BY <1>2, <1>3, <1>5, <1>6 DEF Speeds

\* merge_blocks gives the results of two bags together.
LEMMA BlocksAdd ==
  ASSUME NEW a, NEW b, IsFiniteBag(a), IsFiniteBag(b)
  PROVE  BlocksOf(a (+) b) = merge_blocks(BlocksOf(a), BlocksOf(b))
<1> DEFINE c == a (+) b
           X == DOMAIN c
           l == BlocksOf(c)
           r == merge_blocks(BlocksOf(a), BlocksOf(b))
<1>1. DOMAIN c = DOMAIN a \cup DOMAIN b /\ IsFiniteBag(c)
  BY FiniteBagSum
<1>2. DOMAIN l = {e.bytes : e \in X} /\ \A k : Get(l, k, 0) = Weight(c, Sized(X, k))
  BY <1>1, BlocksAs
<1>3. /\ DOMAIN BlocksOf(a) = {e.bytes : e \in DOMAIN a}
      /\ \A k : Get(BlocksOf(a), k, 0) = Weight(a, Sized(X, k))
  BY <1>1, BlocksAs
<1>4. /\ DOMAIN BlocksOf(b) = {e.bytes : e \in DOMAIN b}
      /\ \A k : Get(BlocksOf(b), k, 0) = Weight(b, Sized(X, k))
  BY <1>1, BlocksAs
<1>5. DOMAIN r = DOMAIN BlocksOf(a) \cup DOMAIN BlocksOf(b)
  BY DEF merge_blocks
<1>6. DOMAIN l = DOMAIN r
  BY <1>1, <1>2, <1>3, <1>4, <1>5
<1>7. \A k : Weight(c, Sized(X, k)) = Weight(a, Sized(X, k)) + Weight(b, Sized(X, k))
  <2> TAKE k
  <2>1. \A e \in DOMAIN a \cup DOMAIN b : Sized(X, k)[e] \in Nat
    BY <1>1 DEF Sized
  <2> QED
    BY <1>1, <2>1, WeightAdds
<1>8. ASSUME NEW k \in DOMAIN l PROVE l[k] = r[k]
  <2>1. Get(l, k, 0) = l[k]
    BY DEF Get
  <2>2. r[k] = Get(BlocksOf(a), k, 0) + Get(BlocksOf(b), k, 0)
    BY <1>5, <1>6, <1>8 DEF merge_blocks
  <2> HIDE DEF l, r, X, c
  <2> QED
    BY <1>2, <1>3, <1>4, <1>7, <2>1, <2>2
<1>9. l = [k \in DOMAIN l |-> l[k]] /\ r = [k \in DOMAIN r |-> r[k]]
  BY DEF BlocksOf, merge_blocks
<1> HIDE DEF l, r
<1>10. l = r
  BY <1>6, <1>8, <1>9
<1> QED
  BY <1>10 DEF l, r

\* The bytes moved are never negative.
LEMMA MovedTyped ==
  ASSUME NEW a, Transfers(a), NEW X, DOMAIN a \subseteq X
  PROVE  \A e \in DOMAIN a : Moved(X)[e] \in Nat
<1> SUFFICES ASSUME NEW e \in DOMAIN a PROVE Moved(X)[e] \in Nat
  OBVIOUS
<1>1. e.bytes \in Int
  BY FileStatsAssumption DEF Transfers
<1>2. Moved(X)[e] = IF e.bytes > 0 THEN e.bytes ELSE 0
  BY DEF Moved
<1> QED
  BY <1>1, <1>2

\* The statistics of two bags of syscalls together are theirs merged
\* (merge_read_write).
LEMMA ReadWriteAdds ==
  ASSUME BelowInitials, NEW a, NEW b, Transfers(a), Transfers(b)
  PROVE  ReadWriteOf(a (+) b) = merge_read_write(ReadWriteOf(a), ReadWriteOf(b))
<1> DEFINE c == a (+) b
           X == DOMAIN c
<1>1. DOMAIN c = DOMAIN a \cup DOMAIN b /\ IsFiniteBag(c) /\ IsFiniteBag(a) /\ IsFiniteBag(b)
  BY FiniteBagSum DEF Timed, Transfers
<1>2. Transfers(c)
  BY <1>1 DEF Timed, Transfers
<1>3. Speeds(c) = Speeds(a) \cup Speeds(b)
  BY <1>1 DEF Speeds, Moving
<1>4. /\ Speeds(a) \in SUBSET Nat /\ IsFiniteSet(Speeds(a))
      /\ \A y \in Speeds(a) : y <= MIN_BPS_INITIAL
  BY SpeedsAre
<1>5. /\ Speeds(b) \in SUBSET Nat /\ IsFiniteSet(Speeds(b))
      /\ \A y \in Speeds(b) : y <= MIN_BPS_INITIAL
  BY SpeedsAre
<1>6. ReadWriteOf(c) = [total_b |-> Weight(c, Moved(X)), total_ns |-> Weight(c, Times(X)),
                        min_bps |-> Least(Speeds(c), MIN_BPS_INITIAL), max_bps |-> Most(Speeds(c)),
                        blocks |-> BlocksOf(c)]
  BY <1>2, ReadWriteAs
<1>7. ReadWriteOf(a) = [total_b |-> Weight(a, Moved(X)), total_ns |-> Weight(a, Times(X)),
                        min_bps |-> Least(Speeds(a), MIN_BPS_INITIAL), max_bps |-> Most(Speeds(a)),
                        blocks |-> BlocksOf(a)]
  BY <1>1, ReadWriteAs
<1>8. ReadWriteOf(b) = [total_b |-> Weight(b, Moved(X)), total_ns |-> Weight(b, Times(X)),
                        min_bps |-> Least(Speeds(b), MIN_BPS_INITIAL), max_bps |-> Most(Speeds(b)),
                        blocks |-> BlocksOf(b)]
  BY <1>1, ReadWriteAs
<1>9. Weight(c, Moved(X)) = Weight(a, Moved(X)) + Weight(b, Moved(X))
  <2>1. \A e \in DOMAIN a \cup DOMAIN b : Moved(X)[e] \in Nat
    BY <1>1, MovedTyped
  <2> QED
    BY <1>1, <2>1, WeightAdds
<1>10. Weight(c, Times(X)) = Weight(a, Times(X)) + Weight(b, Times(X))
  <2>1. \A e \in DOMAIN a \cup DOMAIN b : Times(X)[e] \in Nat
    BY <1>1, FileStatsAssumption DEF Times, Timed, Transfers
  <2> QED
    BY <1>1, <2>1, WeightAdds
<1>11. Least(Speeds(c), MIN_BPS_INITIAL)
         = Lesser(Least(Speeds(a), MIN_BPS_INITIAL), Least(Speeds(b), MIN_BPS_INITIAL))
  BY <1>3, <1>4, <1>5, LeastAdds, FileStatsAssumption
<1>12. Most(Speeds(c)) = Greater(Most(Speeds(a)), Most(Speeds(b)))
  BY <1>3, <1>4, <1>5, MostAdds
<1>13. BlocksOf(c) = merge_blocks(BlocksOf(a), BlocksOf(b))
  BY <1>1, BlocksAdd
<1> HIDE DEF c, X
<1>14. ReadWriteOf(c) = merge_read_write(ReadWriteOf(a), ReadWriteOf(b))
  BY <1>6, <1>7, <1>8, <1>9, <1>10, <1>11, <1>12, <1>13 DEF merge_read_write
<1> QED
  BY <1>14 DEF c

\* A syscall more changes them as file_stat_incr_rw does, one that moved nothing
\* included.
LEMMA ReadWriteCounted ==
  ASSUME BelowInitials, NEW a, NEW e, Transfers(a), e.ns \in Ns, e.bytes \in Bytes
  PROVE  ReadWriteOf(a (+) SetToBag({e})) = file_stat_incr_rw(ReadWriteOf(a), e.ns, e.bytes)
<1> DEFINE b == SetToBag({e})
           moved == e.bytes > 0
<1>1. DOMAIN b = {e} /\ IsFiniteBag(b)
  BY OneOf
<1>2. Transfers(b)
  BY <1>1 DEF Timed, Transfers
<1>3. Weight(b, Moved({e})) = IF moved THEN e.bytes ELSE 0
  BY WeightOfOne, FileStatsAssumption DEF Moved
<1>4. Weight(b, Times({e})) = e.ns
  BY WeightOfOne, FileStatsAssumption DEF Times
<1>5. BlocksOf(b) = SetToBag({e.bytes})
  <2> HIDE DEF b
  <2>1. DOMAIN BlocksOf(b) = {e.bytes} /\ \A k : Get(BlocksOf(b), k, 0) = Weight(b, Sized({e}, k))
    BY <1>1, BlocksAs
  <2>2. Weight(b, Sized({e}, e.bytes)) = 1
    BY WeightOfOne DEF Sized, b
  <2>3. BlocksOf(b)[e.bytes] = 1
    BY <2>1, <2>2 DEF Get
  <2>4. BlocksOf(b) = [k \in DOMAIN BlocksOf(b) |-> BlocksOf(b)[k]]
    BY DEF BlocksOf
  <2> QED
    BY <2>1, <2>3, <2>4 DEF SetToBag
<1> HIDE DEF b
<1>6. ReadWriteOf(b) = [total_b |-> Weight(b, Moved({e})), total_ns |-> Weight(b, Times({e})),
                        min_bps |-> Least(Speeds(b), MIN_BPS_INITIAL), max_bps |-> Most(Speeds(b)),
                        blocks |-> BlocksOf(b)]
  BY <1>1, <1>2, ReadWriteAs
<1>7. Speeds(b) = IF moved THEN {Bps(e.ns, e.bytes)} ELSE {}
  BY <1>1 DEF Speeds, Moving
<1>8. moved => /\ Least(Speeds(b), MIN_BPS_INITIAL) = Bps(e.ns, e.bytes)
               /\ Most(Speeds(b)) = Bps(e.ns, e.bytes)
  BY <1>7, SpeedTyped, ExtremesOfOne
<1>9. ~moved => Least(Speeds(b), MIN_BPS_INITIAL) = MIN_BPS_INITIAL /\ Most(Speeds(b)) = 0
  BY <1>7 DEF Least, Most
<1>10. ReadWriteOf(a (+) b) = merge_read_write(ReadWriteOf(a), ReadWriteOf(b))
  BY <1>2, ReadWriteAdds
<1> DEFINE s == ReadWriteOf(a)
<1>11. /\ s.total_b \in Nat
       /\ s.min_bps \in Nat /\ s.min_bps <= MIN_BPS_INITIAL /\ s.max_bps \in Nat
  <2>1. s = [total_b |-> Weight(a, Moved(DOMAIN a)), total_ns |-> Weight(a, Times(DOMAIN a)),
             min_bps |-> Least(Speeds(a), MIN_BPS_INITIAL), max_bps |-> Most(Speeds(a)),
             blocks |-> BlocksOf(a)]
    BY ReadWriteAs
  <2>2. /\ Speeds(a) \in SUBSET Nat /\ IsFiniteSet(Speeds(a))
        /\ \A y \in Speeds(a) : y <= MIN_BPS_INITIAL
    BY SpeedsAre
  <2>3. Least(Speeds(a), MIN_BPS_INITIAL) \in Nat /\ Least(Speeds(a), MIN_BPS_INITIAL) <= MIN_BPS_INITIAL
    BY <2>2, LeastAdds, FileStatsAssumption
  <2>4. Most(Speeds(a)) \in Nat
    BY <2>2, MostAdds
  <2>5. Weight(a, Moved(DOMAIN a)) \in Nat
    <3>1. \A d \in DOMAIN a \cup DOMAIN a : Moved(DOMAIN a)[d] \in Nat
      BY MovedTyped
    <3> QED
      BY <3>1, WeightAdds DEF Transfers, Timed
  <2> QED
    BY <2>1, <2>3, <2>4, <2>5
<1> HIDE DEF s
<1>12. MIN_BPS_INITIAL \in Nat /\ (moved => Bps(e.ns, e.bytes) \in Nat)
  BY SpeedTyped, FileStatsAssumption
<1>13. /\ ~moved => Lesser(s.min_bps, MIN_BPS_INITIAL) = s.min_bps /\ Greater(s.max_bps, 0) = s.max_bps
       /\ ~moved => s.total_b + 0 = s.total_b
  BY <1>11, <1>12 DEF Lesser, Greater
<1>14. merge_blocks(s.blocks, SetToBag({e.bytes})) = s.blocks (+) SetToBag({e.bytes})
  BY DEF merge_blocks, Get, (+)
<1>15. CASE moved
  <2>1. ReadWriteOf(b) = [total_b |-> e.bytes, total_ns |-> e.ns, min_bps |-> Bps(e.ns, e.bytes),
                          max_bps |-> Bps(e.ns, e.bytes), blocks |-> SetToBag({e.bytes})]
    BY <1>3, <1>4, <1>5, <1>6, <1>8, <1>15
  <2>2. merge_read_write(s, ReadWriteOf(b)) = file_stat_incr_rw(s, e.ns, e.bytes)
    BY <2>1, <1>14, <1>15 DEF merge_read_write, file_stat_incr_rw
  <2> QED
    BY <1>10, <2>2 DEF s, b
<1>16. CASE ~moved
  <2>1. ReadWriteOf(b) = [total_b |-> 0, total_ns |-> e.ns, min_bps |-> MIN_BPS_INITIAL,
                          max_bps |-> 0, blocks |-> SetToBag({e.bytes})]
    BY <1>3, <1>4, <1>5, <1>6, <1>9, <1>16
  <2>2. merge_read_write(s, ReadWriteOf(b)) = file_stat_incr_rw(s, e.ns, e.bytes)
    BY <2>1, <1>13, <1>14, <1>16 DEF merge_read_write, file_stat_incr_rw
  <2> QED
    BY <1>10, <2>2 DEF s, b
<1> QED
  BY <1>15, <1>16

\* An empty bag adds nothing.
LEMMA NothingAdded ==
  ASSUME NEW a, IsFiniteBag(a), NEW z, DOMAIN z = {}
  PROVE  a (+) z = a
<1> DEFINE c == a (+) z
<1>1. DOMAIN c = DOMAIN a
  BY DEF (+)
<1>2. \A e \in DOMAIN a : a[e] \in Nat
  BY DEF IsFiniteBag, IsABag
<1>3. \A e \in DOMAIN a : c[e] = a[e] + 0
  BY <1>1 DEF (+)
<1>4. \A n \in Nat : n + 0 = n
  OBVIOUS
<1>5. c = [e \in DOMAIN c |-> c[e]] /\ a = [e \in DOMAIN a |-> a[e]]
  BY DEF (+), IsFiniteBag, IsABag
<1> HIDE DEF c
<1>6. \A e \in DOMAIN a : c[e] = a[e]
  BY <1>2, <1>3, <1>4
<1>7. c = a
  BY <1>1, <1>5, <1>6
<1> QED
  BY <1>7 DEF c

\* What a log holds.
LEMMA LogsAre ==
  ASSUME NEW a, IsLog(a)
  PROVE  /\ IsFiniteBag(a)
         /\ \A e \in DOMAIN a : e.ns \in Ns
         /\ \A e \in DOMAIN a : e.op \in {"read", "write"} => e.bytes \in Bytes
<1>1. \A e \in Event : e.ns \in Ns /\ (e.op \in {"read", "write"} => e.bytes \in Bytes)
  BY DEF Event
<1> QED
  BY <1>1 DEF IsLog, IsFiniteBag

\* The syscalls of one kind on one file have times, those of read and write results.
LEMMA SelectTyped ==
  ASSUME NEW a, IsLog(a), NEW op, NEW key
  PROVE  /\ Timed(Select(a, op, key))
         /\ op \in {"read", "write"} => Transfers(Select(a, op, key))
         /\ DOMAIN Select(a, op, key) = {d \in DOMAIN a : d.op = op /\ d.key = key}
<1>1. /\ IsFiniteBag(Select(a, op, key))
      /\ DOMAIN Select(a, op, key) = {d \in DOMAIN a : d.op = op /\ d.key = key}
  BY LogsAre, SelectFinite
<1>2. \A e \in DOMAIN Select(a, op, key) : e \in DOMAIN a /\ e.op = op
  BY <1>1
<1>3. \A e \in DOMAIN Select(a, op, key) : /\ e.ns \in Ns
                                           /\ op \in {"read", "write"} => e.bytes \in Bytes
  BY <1>2, LogsAre
<1> QED
  BY <1>1, <1>3 DEF Timed, Transfers

\* The other syscalls have times.
LEMMA OtherTyped ==
  ASSUME NEW a, IsLog(a), NEW c
  PROVE  /\ Timed(SelectOther(a, c))
         /\ DOMAIN SelectOther(a, c) = {d \in DOMAIN a : d.op = "other" /\ d.sc = c}
<1>1. /\ IsFiniteBag(SelectOther(a, c))
      /\ DOMAIN SelectOther(a, c) = {d \in DOMAIN a : d.op = "other" /\ d.sc = c}
  BY LogsAre, SelectOtherFinite
<1>2. \A e \in DOMAIN SelectOther(a, c) : e \in DOMAIN a
  BY <1>1
<1> QED
  BY <1>1, <1>2, LogsAre DEF Timed

\* Two logs together are one.
LEMMA LogAdds ==
  ASSUME NEW a, NEW b, IsLog(a), IsLog(b)
  PROVE  IsLog(a (+) b) /\ DOMAIN (a (+) b) = DOMAIN a \cup DOMAIN b
  BY LogsAre, FiniteBagSum DEF IsLog, IsFiniteBag

\* So is one syscall.
LEMMA LogOfOne ==
  ASSUME NEW e \in Event
  PROVE  IsLog(SetToBag({e})) /\ DOMAIN SetToBag({e}) = {e}
<1>1. DOMAIN SetToBag({e}) = {e} /\ IsFiniteBag(SetToBag({e}))
  BY OneOf
<1> QED
  BY <1>1 DEF IsLog, IsFiniteBag

\* A syscall more is selected by its kind and file only.
LEMMA SelectCounted ==
  ASSUME NEW a, IsLog(a), NEW e \in Event, NEW op, NEW key
  PROVE  Select(a (+) SetToBag({e}), op, key)
           = IF e.op = op /\ e.key = key THEN Select(a, op, key) (+) SetToBag({e})
             ELSE Select(a, op, key)
<1> DEFINE b == SetToBag({e})
           s == Select(b, op, key)
<1>1. IsLog(b) /\ DOMAIN b = {e} /\ IsFiniteBag(b) /\ IsFiniteBag(a)
  BY LogOfOne, LogsAre
<1>2. b = [d \in {e} |-> b[d]]
  BY DEF SetToBag
<1> HIDE DEF b
<1>3. Select(a (+) b, op, key) = Select(a, op, key) (+) Select(b, op, key)
  BY <1>1, SelectAdds
<1>4. IsFiniteBag(Select(a, op, key))
  BY <1>1, SelectFinite
<1>5. CASE e.op = op /\ e.key = key
  <2>1. s = b
    BY <1>1, <1>2, <1>5 DEF Select
  <2> QED
    BY <1>3, <1>5, <2>1 DEF b
<1>6. CASE ~(e.op = op /\ e.key = key)
  <2>1. DOMAIN s = {}
    BY <1>1, <1>6 DEF Select
  <2>2. Select(a, op, key) (+) s = Select(a, op, key)
    BY <1>4, <2>1, NothingAdded
  <2> QED
    BY <1>3, <1>6, <2>2 DEF b
<1> QED
  BY <1>5, <1>6

\* An other syscall by its number only.
LEMMA OtherCounted ==
  ASSUME NEW a, IsLog(a), NEW e \in Event, NEW c
  PROVE  SelectOther(a (+) SetToBag({e}), c)
           = IF e.op = "other" /\ e.sc = c THEN SelectOther(a, c) (+) SetToBag({e})
             ELSE SelectOther(a, c)
<1> DEFINE b == SetToBag({e})
           s == SelectOther(b, c)
<1>1. IsLog(b) /\ DOMAIN b = {e} /\ IsFiniteBag(b) /\ IsFiniteBag(a)
  BY LogOfOne, LogsAre
<1>2. b = [d \in {e} |-> b[d]]
  BY DEF SetToBag
<1> HIDE DEF b
<1>3. SelectOther(a (+) b, c) = SelectOther(a, c) (+) SelectOther(b, c)
  BY <1>1, SelectOtherAdds
<1>4. IsFiniteBag(SelectOther(a, c))
  BY <1>1, SelectOtherFinite
<1>5. CASE e.op = "other" /\ e.sc = c
  <2>1. s = b
    BY <1>1, <1>2, <1>5 DEF SelectOther
  <2> QED
    BY <1>3, <1>5, <2>1 DEF b
<1>6. CASE ~(e.op = "other" /\ e.sc = c)
  <2>1. DOMAIN s = {}
    BY <1>1, <1>6 DEF SelectOther
  <2>2. SelectOther(a, c) (+) s = SelectOther(a, c)
    BY <1>4, <2>1, NothingAdded
  <2> QED
    BY <1>3, <1>6, <2>2 DEF b
<1> QED
  BY <1>5, <1>6

\* Without syscalls the statistics are fresh.
LEMMA NoneCounted ==
  ASSUME NEW z, DOMAIN z = {}
  PROVE  /\ Timed(z) => OpenCloseOf(z) = init_open_close
         /\ Transfers(z) => ReadWriteOf(z) = init_read_write
<1>1. OpenCloseOf(z) = init_open_close
  BY DEF OpenCloseOf
<1>2. ASSUME Transfers(z) PROVE ReadWriteOf(z) = init_read_write
  <2>1. ReadWriteOf(z) = [total_b |-> Weight(z, Moved({})), total_ns |-> Weight(z, Times({})),
                          min_bps |-> Least(Speeds(z), MIN_BPS_INITIAL), max_bps |-> Most(Speeds(z)),
                          blocks |-> BlocksOf(z)]
    BY <1>2, ReadWriteAs
  <2>2. Weight(z, Moved({})) = 0
    BY <1>2, WeightOfZeros DEF Transfers, Timed
  <2>3. Weight(z, Times({})) = 0
    BY <1>2, WeightOfZeros DEF Transfers, Timed
  <2>4. Speeds(z) = {}
    BY DEF Speeds, Moving
  <2>5. BlocksOf(z) = EmptyBag
    BY DEF BlocksOf, EmptyBag, SetToBag
  <2> QED
    BY <2>1, <2>2, <2>3, <2>4, <2>5 DEF init_read_write, Least, Most
<1> QED
  BY <1>1, <1>2

\* The syscalls that count for a file, and the files a log has.
FileOps == {"open", "close", "read", "write"}

KeysOf(a) == {e.key : e \in {d \in DOMAIN a : d.op # "other"}}

\* A file without syscalls has fresh statistics.
LEMMA FileAbsent ==
  ASSUME NEW a, IsLog(a), NEW f, f \notin KeysOf(a)
  PROVE  /\ \A op \in FileOps : DOMAIN Select(a, op, f) = {}
         /\ FileOf(a, f) = init_file_stat
<1>1. \A op \in FileOps : DOMAIN Select(a, op, f) = {}
  <2> TAKE op \in FileOps
  <2>1. DOMAIN Select(a, op, f) = {d \in DOMAIN a : d.op = op /\ d.key = f}
    BY SelectTyped
  <2>2. op # "other"
    BY DEF FileOps
  <2>3. ASSUME NEW d \in DOMAIN a, d.op = op, d.key = f PROVE FALSE
    BY <2>2, <2>3 DEF KeysOf
  <2> QED
    BY <2>1, <2>3
<1>2. OpenCloseOf(Select(a, "open", f)) = init_open_close
  BY <1>1, SelectTyped, NoneCounted DEF FileOps
<1>3. OpenCloseOf(Select(a, "close", f)) = init_open_close
  BY <1>1, SelectTyped, NoneCounted DEF FileOps
<1>4. ReadWriteOf(Select(a, "read", f)) = init_read_write
  BY <1>1, SelectTyped, NoneCounted DEF FileOps
<1>5. ReadWriteOf(Select(a, "write", f)) = init_read_write
  BY <1>1, SelectTyped, NoneCounted DEF FileOps
<1> QED
  BY <1>1, <1>2, <1>3, <1>4, <1>5 DEF FileOf, init_file_stat

\* The table of a log, and what file_stat_get_safe finds in it.
LEMMA FilesAre ==
  ASSUME NEW a, IsLog(a)
  PROVE  /\ DOMAIN FilesOf(a) = {"NULL"} \cup KeysOf(a)
         /\ FilesOf(a) = [f \in DOMAIN FilesOf(a) |-> FileOf(a, f)]
         /\ \A f : file_stat_get_safe(FilesOf(a), f) = FileOf(a, f)
<1>1. /\ DOMAIN FilesOf(a) = {"NULL"} \cup KeysOf(a)
      /\ FilesOf(a) = [f \in DOMAIN FilesOf(a) |-> FileOf(a, f)]
  BY DEF FilesOf, KeysOf
<1>2. ASSUME NEW f PROVE file_stat_get_safe(FilesOf(a), f) = FileOf(a, f)
  <2>1. CASE f \in DOMAIN FilesOf(a)
    BY <1>1, <2>1 DEF file_stat_get_safe, Get
  <2>2. CASE f \notin DOMAIN FilesOf(a)
    BY <1>1, <2>2, FileAbsent DEF file_stat_get_safe, Get
  <2> QED
    BY <2>1, <2>2
<1> QED
  BY <1>1, <1>2

\* Two logs together have the files of both.
LEMMA KeysAdd ==
  ASSUME NEW a, NEW b, IsLog(a), IsLog(b)
  PROVE  KeysOf(a (+) b) = KeysOf(a) \cup KeysOf(b)
  BY LogAdds DEF KeysOf

\* The statistics of a file are those of two logs merged.
LEMMA FileAdds ==
  ASSUME BelowInitials, NEW a, NEW b, IsLog(a), IsLog(b), NEW f
  PROVE  FileOf(a (+) b, f) = merge_file_stat(FileOf(a, f), FileOf(b, f))
<1>1. \A op : Select(a (+) b, op, f) = Select(a, op, f) (+) Select(b, op, f)
  <2>1. IsFiniteBag(a) /\ IsFiniteBag(b)
    BY LogsAre
  <2> QED
    BY <2>1, SelectAdds
<1>2. \A op \in {"open", "close"} :
        OpenCloseOf(Select(a (+) b, op, f))
          = merge_open_close(OpenCloseOf(Select(a, op, f)), OpenCloseOf(Select(b, op, f)))
  <2> TAKE op \in {"open", "close"}
  <2>1. Timed(Select(a, op, f)) /\ Timed(Select(b, op, f))
    BY SelectTyped
  <2> QED
    BY <1>1, <2>1, OpenCloseAdds
<1>3. \A op \in {"read", "write"} :
        ReadWriteOf(Select(a (+) b, op, f))
          = merge_read_write(ReadWriteOf(Select(a, op, f)), ReadWriteOf(Select(b, op, f)))
  <2> TAKE op \in {"read", "write"}
  <2>1. Transfers(Select(a, op, f)) /\ Transfers(Select(b, op, f))
    BY SelectTyped
  <2> QED
    BY <1>1, <2>1, ReadWriteAdds
<1> QED
  BY <1>2, <1>3 DEF FileOf, merge_file_stat

\* So are those of all files: merging the tables of two threads gives the table
\* of what both have counted (file_state_merge).
LEMMA FilesAdd ==
  ASSUME BelowInitials, NEW a, NEW b, IsLog(a), IsLog(b)
  PROVE  FilesOf(a (+) b) = MergeFiles(FilesOf(a), FilesOf(b))
<1> DEFINE c == a (+) b
           l == FilesOf(c)
           r == MergeFiles(FilesOf(a), FilesOf(b))
<1>1. IsLog(c) /\ KeysOf(c) = KeysOf(a) \cup KeysOf(b)
  BY LogAdds, KeysAdd
<1>2. DOMAIN l = {"NULL"} \cup KeysOf(c) /\ l = [f \in DOMAIN l |-> FileOf(c, f)]
  BY <1>1, FilesAre
<1>3. /\ DOMAIN FilesOf(a) = {"NULL"} \cup KeysOf(a)
      /\ \A f : file_stat_get_safe(FilesOf(a), f) = FileOf(a, f)
  BY FilesAre
<1>4. /\ DOMAIN FilesOf(b) = {"NULL"} \cup KeysOf(b)
      /\ FilesOf(b) = [f \in DOMAIN FilesOf(b) |-> FileOf(b, f)]
  BY FilesAre
<1>5. DOMAIN r = DOMAIN FilesOf(a) \cup DOMAIN FilesOf(b)
  BY DEF MergeFiles
<1>6. DOMAIN l = DOMAIN r
  BY <1>1, <1>2, <1>3, <1>4, <1>5
<1>7. ASSUME NEW f \in DOMAIN r PROVE r[f] = FileOf(c, f)
  <2>1. CASE f \in DOMAIN FilesOf(b)
    <3>1. r[f] = merge_file_stat(file_stat_get_safe(FilesOf(a), f), FilesOf(b)[f])
      BY <1>5, <2>1 DEF MergeFiles
    <3>2. FilesOf(b)[f] = FileOf(b, f)
      BY <1>4, <2>1
    <3> QED
      BY <1>3, <3>1, <3>2, FileAdds
  <2>2. CASE f \notin DOMAIN FilesOf(b)
    <3>1. f \in DOMAIN FilesOf(a)
      BY <1>5, <2>2
    <3>2. r[f] = FileOf(a, f)
      <4>1. r[f] = FilesOf(a)[f]
        BY <1>5, <2>2 DEF MergeFiles
      <4> QED
        BY <1>3, <3>1, <4>1 DEF file_stat_get_safe, Get
    <3>3. \A op \in FileOps : DOMAIN Select(b, op, f) = {}
      BY <1>4, <2>2, FileAbsent
    <3>4. \A op \in FileOps : Select(c, op, f) = Select(a, op, f)
      <4> TAKE op \in FileOps
      <4>1. IsFiniteBag(a) /\ IsFiniteBag(b)
        BY LogsAre
      <4>2. Select(c, op, f) = Select(a, op, f) (+) Select(b, op, f)
        BY <4>1, SelectAdds
      <4>3. IsFiniteBag(Select(a, op, f))
        BY <4>1, SelectFinite
      <4> QED
        BY <3>3, <4>2, <4>3, NothingAdded
    <3> QED
      BY <3>2, <3>4 DEF FileOf, FileOps
  <2> QED
    BY <2>1, <2>2
<1>8. r = [f \in DOMAIN r |-> r[f]]
  BY DEF MergeFiles
<1> HIDE DEF c, l, r
<1>9. l = r
  BY <1>2, <1>6, <1>7, <1>8
<1> QED
  BY <1>9 DEF c, l, r

\* A syscall on something else does not count for a file.
LEMMA FileKept ==
  ASSUME NEW a, IsLog(a), NEW e \in Event, NEW f, e.op = "other" \/ e.key # f
  PROVE  FileOf(a (+) SetToBag({e}), f) = FileOf(a, f)
<1>1. \A op \in FileOps : Select(a (+) SetToBag({e}), op, f) = Select(a, op, f)
  BY SelectCounted DEF FileOps
<1> QED
  BY <1>1 DEF FileOf, FileOps

\* What the statistics of a file become when e is counted.
CountedIn(s, e) ==
  [open |-> IF e.op = "open" THEN incr_open_close(s.open, e.ns) ELSE s.open,
   close |-> IF e.op = "close" THEN incr_open_close(s.close, e.ns) ELSE s.close,
   read |-> IF e.op = "read" THEN file_stat_incr_rw(s.read, e.ns, e.bytes) ELSE s.read,
   write |-> IF e.op = "write" THEN file_stat_incr_rw(s.write, e.ns, e.bytes) ELSE s.write]

\* The statistics of a file after a syscall more on it are what the incr functions
\* make of them.
LEMMA FileCounted ==
  ASSUME BelowInitials, NEW a, IsLog(a), NEW e \in Event
  PROVE  FileOf(a (+) SetToBag({e}), e.key) = CountedIn(FileOf(a, e.key), e)
<1> DEFINE f == e.key
           c == a (+) SetToBag({e})
           O(op) == OpenCloseOf(Select(a, op, f))
           R(op) == ReadWriteOf(Select(a, op, f))
<1>1. e.ns \in Ns /\ (e.op \in {"read", "write"} => e.bytes \in Bytes)
  BY DEF Event
<1>2. \A op : Select(c, op, f) = IF e.op = op THEN Select(a, op, f) (+) SetToBag({e})
                                 ELSE Select(a, op, f)
  BY SelectCounted
<1>3. \A op : Timed(Select(a, op, f)) /\ (op \in {"read", "write"} => Transfers(Select(a, op, f)))
  BY SelectTyped
<1>4. \A op : OpenCloseOf(Select(c, op, f))
                = IF e.op = op THEN incr_open_close(O(op), e.ns) ELSE O(op)
  BY <1>1, <1>2, <1>3, OpenCloseCounted
<1>5. \A op \in {"read", "write"} :
        ReadWriteOf(Select(c, op, f))
          = IF e.op = op THEN file_stat_incr_rw(R(op), e.ns, e.bytes) ELSE R(op)
  <2> TAKE op \in {"read", "write"}
  <2>1. CASE e.op = op
    <3>1. Transfers(Select(a, op, f)) /\ e.bytes \in Bytes /\ e.ns \in Ns
      BY <1>1, <1>3, <2>1
    <3> QED
      BY <1>2, <2>1, <3>1, ReadWriteCounted
  <2>2. CASE e.op # op
    BY <1>2, <2>2
  <2> QED
    BY <2>1, <2>2
<1>6. /\ FileOf(c, f) = [open |-> OpenCloseOf(Select(c, "open", f)),
                         close |-> OpenCloseOf(Select(c, "close", f)),
                         read |-> ReadWriteOf(Select(c, "read", f)),
                         write |-> ReadWriteOf(Select(c, "write", f))]
      /\ FileOf(a, f) = [open |-> O("open"), close |-> O("close"),
                         read |-> R("read"), write |-> R("write")]
  BY DEF FileOf
<1> HIDE DEF c, f, O, R
<1>7. FileOf(c, f) = CountedIn(FileOf(a, f), e)
  BY <1>4, <1>5, <1>6 DEF CountedIn
<1> QED
  BY <1>7 DEF c, f

\* The statistics of an other syscall by weights.
LEMMA SyscallAs ==
  ASSUME NEW a, IsLog(a), NEW c, NEW X, DOMAIN SelectOther(a, c) \subseteq X
  PROVE  SyscallOf(a, c) = [count |-> Weight(SelectOther(a, c), Ones(X)),
                            total_ns |-> Weight(SelectOther(a, c), Times(X))]
<1> DEFINE b == SelectOther(a, c)
<1>1. Timed(b)
  BY OtherTyped
<1> HIDE DEF b
<1>2. SumFunction(b) = Weight(b, Ones(X))
  BY <1>1, CountIsWeight DEF Timed, b
<1>3. Total(b, LAMBDA e : e.ns) = Weight(b, Times(X))
  <2>1. \A e \in DOMAIN b : Times(X)[e] = e.ns
    BY DEF Times, b
  <2>2. [e \in DOMAIN b |-> b[e] * e.ns] = [e \in DOMAIN b |-> b[e] * Times(X)[e]]
    BY <2>1
  <2> QED
    BY <2>2 DEF Total, Weight
<1> QED
  BY <1>2, <1>3 DEF SyscallOf, b

\* Those of two logs together are theirs merged (merge_syscall_stat).
LEMMA SyscallAdds ==
  ASSUME NEW a, NEW b, IsLog(a), IsLog(b), NEW c
  PROVE  /\ SyscallOf(a (+) b, c) = merge_syscall_stat(SyscallOf(a, c), SyscallOf(b, c))
         /\ SyscallOf(a, c) \in SyscallStat
<1> DEFINE A == SelectOther(a, c)
           B == SelectOther(b, c)
           C == SelectOther(a (+) b, c)
           X == DOMAIN A \cup DOMAIN B
<1>1. IsFiniteBag(a) /\ IsFiniteBag(b)
  BY LogsAre
<1>2. C = A (+) B
  BY <1>1, SelectOtherAdds
<1>3. Timed(A) /\ Timed(B)
  BY OtherTyped
<1>4. IsLog(a (+) b)
  BY LogAdds
<1>5. DOMAIN C = X
  BY <1>2, <1>3, FiniteBagSum DEF Timed
<1>6. SyscallOf(a, c) = [count |-> Weight(A, Ones(X)), total_ns |-> Weight(A, Times(X))]
  BY SyscallAs
<1>7. SyscallOf(b, c) = [count |-> Weight(B, Ones(X)), total_ns |-> Weight(B, Times(X))]
  BY SyscallAs
<1>8. SyscallOf(a (+) b, c) = [count |-> Weight(C, Ones(X)), total_ns |-> Weight(C, Times(X))]
  BY <1>4, <1>5, SyscallAs
<1> HIDE DEF A, B, C
<1>9. Weight(C, Ones(X)) = Weight(A, Ones(X)) + Weight(B, Ones(X)) /\ Weight(A, Ones(X)) \in Nat
  <2>1. \A e \in DOMAIN A \cup DOMAIN B : Ones(X)[e] \in Nat
    BY DEF Ones
  <2> HIDE DEF X
  <2> QED
    BY <1>2, <1>3, <2>1, WeightAdds DEF Timed
<1>10. Weight(C, Times(X)) = Weight(A, Times(X)) + Weight(B, Times(X)) /\ Weight(A, Times(X)) \in Nat
  <2>1. \A e \in DOMAIN A \cup DOMAIN B : Times(X)[e] \in Nat
    BY <1>3, FileStatsAssumption DEF Times, Timed
  <2> HIDE DEF X
  <2> QED
    BY <1>2, <1>3, <2>1, WeightAdds DEF Timed
<1> HIDE DEF X
<1> QED
  BY <1>6, <1>7, <1>8, <1>9, <1>10 DEF merge_syscall_stat, SyscallStat

\* The numbers of the other syscalls of a log.
ScsOf(a) == {e.sc : e \in {d \in DOMAIN a : d.op = "other"}}

\* A syscall that was not called has fresh statistics.
LEMMA SyscallAbsent ==
  ASSUME NEW a, IsLog(a), NEW c, c \notin ScsOf(a)
  PROVE  DOMAIN SelectOther(a, c) = {} /\ SyscallOf(a, c) = init_syscall_stat
<1>1. DOMAIN SelectOther(a, c) = {d \in DOMAIN a : d.op = "other" /\ d.sc = c}
  BY OtherTyped
<1>2. DOMAIN SelectOther(a, c) = {}
  BY <1>1 DEF ScsOf
<1>3. SyscallOf(a, c) = [count |-> Weight(SelectOther(a, c), Ones({})),
                         total_ns |-> Weight(SelectOther(a, c), Times({}))]
  BY <1>2, SyscallAs
<1>4. IsFiniteBag(SelectOther(a, c))
  BY OtherTyped DEF Timed
<1>5. Weight(SelectOther(a, c), Ones({})) = 0
  BY <1>2, <1>4, WeightOfZeros
<1>6. Weight(SelectOther(a, c), Times({})) = 0
  BY <1>2, <1>4, WeightOfZeros
<1> QED
  BY <1>2, <1>3, <1>5, <1>6 DEF init_syscall_stat

\* The table of a log, and what syscall_stat_get_safe finds in it.
LEMMA SyscallsAre ==
  ASSUME NEW a, IsLog(a)
  PROVE  /\ DOMAIN SyscallsOf(a) = ScsOf(a)
         /\ SyscallsOf(a) = [c \in DOMAIN SyscallsOf(a) |-> SyscallOf(a, c)]
         /\ \A c : syscall_stat_get_safe(SyscallsOf(a), c) = SyscallOf(a, c)
<1>1. /\ DOMAIN SyscallsOf(a) = ScsOf(a)
      /\ SyscallsOf(a) = [c \in DOMAIN SyscallsOf(a) |-> SyscallOf(a, c)]
  BY DEF SyscallsOf, ScsOf
<1>2. ASSUME NEW c PROVE syscall_stat_get_safe(SyscallsOf(a), c) = SyscallOf(a, c)
  <2>1. CASE c \in DOMAIN SyscallsOf(a)
    BY <1>1, <2>1 DEF syscall_stat_get_safe, Get
  <2>2. CASE c \notin DOMAIN SyscallsOf(a)
    BY <1>1, <2>2, SyscallAbsent DEF syscall_stat_get_safe, Get
  <2> QED
    BY <2>1, <2>2
<1> QED
  BY <1>1, <1>2

\* Merging the tables of two threads gives the table of what both have counted
\* (syscall_stat_merge).
LEMMA SyscallsAdd ==
  ASSUME NEW a, NEW b, IsLog(a), IsLog(b)
  PROVE  SyscallsOf(a (+) b) = MergeSyscalls(SyscallsOf(a), SyscallsOf(b))
<1> DEFINE c == a (+) b
           l == SyscallsOf(c)
           r == MergeSyscalls(SyscallsOf(a), SyscallsOf(b))
<1>1. IsLog(c) /\ ScsOf(c) = ScsOf(a) \cup ScsOf(b)
  BY LogAdds DEF ScsOf
<1>2. DOMAIN l = ScsOf(c) /\ l = [k \in DOMAIN l |-> SyscallOf(c, k)]
  BY <1>1, SyscallsAre
<1>3. /\ DOMAIN SyscallsOf(a) = ScsOf(a)
      /\ \A k : syscall_stat_get_safe(SyscallsOf(a), k) = SyscallOf(a, k)
  BY SyscallsAre
<1>4. /\ DOMAIN SyscallsOf(b) = ScsOf(b)
      /\ SyscallsOf(b) = [k \in DOMAIN SyscallsOf(b) |-> SyscallOf(b, k)]
  BY SyscallsAre
<1>5. DOMAIN r = DOMAIN SyscallsOf(a) \cup DOMAIN SyscallsOf(b)
  BY DEF MergeSyscalls
<1>6. DOMAIN l = DOMAIN r
  BY <1>1, <1>2, <1>3, <1>4, <1>5
<1>7. ASSUME NEW k \in DOMAIN r PROVE r[k] = SyscallOf(c, k)
  <2>1. SyscallOf(c, k) = merge_syscall_stat(SyscallOf(a, k), SyscallOf(b, k))
    BY SyscallAdds
  <2>2. CASE k \in DOMAIN SyscallsOf(b)
    <3>1. r[k] = merge_syscall_stat(syscall_stat_get_safe(SyscallsOf(a), k), SyscallsOf(b)[k])
      BY <1>5, <2>2 DEF MergeSyscalls
    <3>2. SyscallsOf(b)[k] = SyscallOf(b, k)
      BY <1>4, <2>2
    <3> QED
      BY <1>3, <2>1, <3>1, <3>2
  <2>3. CASE k \notin DOMAIN SyscallsOf(b)
    <3>1. k \in DOMAIN SyscallsOf(a)
      BY <1>5, <2>3
    <3>2. r[k] = SyscallOf(a, k)
      <4>1. r[k] = SyscallsOf(a)[k]
        BY <1>5, <2>3 DEF MergeSyscalls
      <4> QED
        BY <1>3, <3>1, <4>1 DEF syscall_stat_get_safe, Get
    <3>3. SyscallOf(b, k) = init_syscall_stat
      BY <1>4, <2>3, SyscallAbsent
    <3>4. SyscallOf(a, k) \in SyscallStat
      BY SyscallAdds
    <3>5. \A s \in SyscallStat : merge_syscall_stat(s, init_syscall_stat) = s
      BY DEF SyscallStat, merge_syscall_stat, init_syscall_stat
    <3> QED
      BY <2>1, <3>2, <3>3, <3>4, <3>5
  <2> QED
    BY <2>2, <2>3
<1>8. r = [k \in DOMAIN r |-> r[k]]
  BY DEF MergeSyscalls
<1> HIDE DEF c, l, r
<1>9. l = r
  BY <1>2, <1>6, <1>7, <1>8
<1> QED
  BY <1>9 DEF c, l, r

\* The tables after a syscall more: the entry it belongs to is put, the rest
\* stays.
LEMMA TablesCounted ==
  ASSUME BelowInitials, NEW a, IsLog(a), NEW e \in Event
  PROVE  LET c == a (+) SetToBag({e}) IN
         /\ e.op # "other" => /\ FilesOf(c) = Put(FilesOf(a), e.key, FileOf(c, e.key))
                              /\ SyscallsOf(c) = SyscallsOf(a)
         /\ e.op = "other" => /\ FilesOf(c) = FilesOf(a)
                              /\ SyscallsOf(c) = Put(SyscallsOf(a), e.sc, SyscallOf(c, e.sc))
<1> DEFINE c == a (+) SetToBag({e})
<1>1. IsLog(SetToBag({e})) /\ DOMAIN SetToBag({e}) = {e}
  BY LogOfOne
<1>2. IsLog(c) /\ DOMAIN c = DOMAIN a \cup {e}
  BY <1>1, LogAdds
<1>3. \A f : e.op = "other" \/ e.key # f => FileOf(c, f) = FileOf(a, f)
  BY FileKept
<1>4. \A k : ~(e.op = "other" /\ e.sc = k) => SyscallOf(c, k) = SyscallOf(a, k)
  BY OtherCounted DEF SyscallOf
<1> HIDE DEF c
<1>5. /\ DOMAIN FilesOf(a) = {"NULL"} \cup KeysOf(a)
      /\ FilesOf(a) = [f \in DOMAIN FilesOf(a) |-> FileOf(a, f)]
  BY FilesAre
<1>6. /\ DOMAIN FilesOf(c) = {"NULL"} \cup KeysOf(c)
      /\ FilesOf(c) = [f \in DOMAIN FilesOf(c) |-> FileOf(c, f)]
  BY <1>2, FilesAre
<1>7. /\ DOMAIN SyscallsOf(a) = ScsOf(a)
      /\ SyscallsOf(a) = [k \in DOMAIN SyscallsOf(a) |-> SyscallOf(a, k)]
  BY SyscallsAre
<1>8. /\ DOMAIN SyscallsOf(c) = ScsOf(c)
      /\ SyscallsOf(c) = [k \in DOMAIN SyscallsOf(c) |-> SyscallOf(c, k)]
  BY <1>2, SyscallsAre
<1>9. CASE e.op # "other"
  <2>1. KeysOf(c) = KeysOf(a) \cup {e.key}
    BY <1>2, <1>9 DEF KeysOf
  <2>2. ScsOf(c) = ScsOf(a)
    BY <1>2, <1>9 DEF ScsOf
  <2>3. SyscallsOf(c) = SyscallsOf(a)
    BY <1>4, <1>7, <1>8, <1>9, <2>2
  <2>4. DOMAIN FilesOf(c) = DOMAIN FilesOf(a) \cup {e.key}
    BY <1>5, <1>6, <2>1
  <2>5. \A f \in DOMAIN FilesOf(c) :
          FileOf(c, f) = IF f = e.key THEN FileOf(c, e.key) ELSE FilesOf(a)[f]
    BY <1>3, <1>5, <2>4
  <2>6. FilesOf(c) = Put(FilesOf(a), e.key, FileOf(c, e.key))
    BY <1>6, <2>4, <2>5 DEF Put
  <2> QED
    BY <1>9, <2>3, <2>6 DEF c
<1>10. CASE e.op = "other"
  <2>1. KeysOf(c) = KeysOf(a)
    BY <1>2, <1>10 DEF KeysOf
  <2>2. ScsOf(c) = ScsOf(a) \cup {e.sc}
    BY <1>2, <1>10 DEF ScsOf
  <2>3. FilesOf(c) = FilesOf(a)
    BY <1>3, <1>5, <1>6, <1>10, <2>1
  <2>4. DOMAIN SyscallsOf(c) = DOMAIN SyscallsOf(a) \cup {e.sc}
    BY <1>7, <1>8, <2>2
  <2>5. \A k \in DOMAIN SyscallsOf(c) :
          SyscallOf(c, k) = IF k = e.sc THEN SyscallOf(c, e.sc) ELSE SyscallsOf(a)[k]
    BY <1>4, <1>7, <2>4
  <2>6. SyscallsOf(c) = Put(SyscallsOf(a), e.sc, SyscallOf(c, e.sc))
    BY <1>8, <2>4, <2>5 DEF Put
  <2> QED
    BY <1>10, <2>3, <2>6 DEF c
<1> QED
  BY <1>9, <1>10

\* A syscall more changes its statistics as incr_syscall_stat does.
LEMMA SyscallCounted ==
  ASSUME NEW a, IsLog(a), NEW e \in Event, e.op = "other"
  PROVE  SyscallOf(a (+) SetToBag({e}), e.sc) = incr_syscall_stat(SyscallOf(a, e.sc), e.ns)
<1> DEFINE b == SetToBag({e})
<1>1. IsLog(b) /\ DOMAIN b = {e} /\ e.ns \in Ns
  BY LogOfOne DEF Event
<1>2. SelectOther(b, e.sc) = b
  <2>1. b = [d \in {e} |-> b[d]]
    BY DEF SetToBag
  <2> HIDE DEF b
  <2> QED
    BY <1>1, <2>1 DEF SelectOther
<1>3. SyscallOf(b, e.sc) = [count |-> Weight(b, Ones({e})), total_ns |-> Weight(b, Times({e}))]
  BY <1>1, <1>2, SyscallAs
<1>4. Weight(b, Ones({e})) = 1
  BY WeightOfOne DEF Ones
<1>5. Weight(b, Times({e})) = e.ns
  <2>1. Times({e})[e] = e.ns /\ e.ns \in Nat
    BY <1>1, FileStatsAssumption DEF Times
  <2> QED
    BY <2>1, WeightOfOne
<1> HIDE DEF b
<1>6. SyscallOf(a (+) b, e.sc) = merge_syscall_stat(SyscallOf(a, e.sc), SyscallOf(b, e.sc))
  BY <1>1, SyscallAdds
<1>7. SyscallOf(a (+) b, e.sc) = incr_syscall_stat(SyscallOf(a, e.sc), e.ns)
  BY <1>3, <1>4, <1>5, <1>6 DEF merge_syscall_stat, incr_syscall_stat
<1> QED
  BY <1>7 DEF b

\* The tables of no syscalls are those that are created.
LEMMA EmptyLog ==
  /\ IsLog(EmptyBag) /\ DOMAIN EmptyBag = {}
  /\ FilesOf(EmptyBag) = file_stat_create
  /\ SyscallsOf(EmptyBag) = syscall_stat_create
<1>1. IsLog(EmptyBag) /\ DOMAIN EmptyBag = {}
  BY WeightOfNone DEF IsLog, IsFiniteBag
<1>2. KeysOf(EmptyBag) = {} /\ ScsOf(EmptyBag) = {}
  BY <1>1 DEF KeysOf, ScsOf
<1>3. FilesOf(EmptyBag) = [f \in {"NULL"} |-> FileOf(EmptyBag, f)]
  BY <1>1, <1>2, FilesAre
<1>4. FileOf(EmptyBag, "NULL") = init_file_stat
  BY <1>1, <1>2, FileAbsent
<1>5. FilesOf(EmptyBag) = file_stat_create
  BY <1>3, <1>4 DEF file_stat_create
<1>6. SyscallsOf(EmptyBag) = [c \in {} |-> SyscallOf(EmptyBag, c)]
  BY <1>1, <1>2, SyscallsAre
<1>7. SyscallsOf(EmptyBag) = syscall_stat_create
  BY <1>6 DEF syscall_stat_create
<1> QED
  BY <1>1, <1>5, <1>7

-----------------------------------------------------------------------------
(* What the threads have counted.                                          *)

\* A thread that puts the statistics of its log with e added, and logs e, stays
\* exact; the others are as they were.
LEMMA ThreadCounts ==
  ASSUME BelowInitials, TypeOK, ThreadExact, NEW t \in Thread, NEW e \in Event, e.op # "other",
         NEW entry, entry = FileOf(log[t] (+) SetToBag({e}), e.key),
         Count(t, e.key, entry), Logged(t, e)
  PROVE  ThreadExact'
<1> DEFINE a == log[t]
           c == a (+) SetToBag({e})
<1>1. /\ DOMAIN log = Thread /\ DOMAIN file_stat_table = Thread
      /\ IsLog(a)
  BY DEF TypeOK
<1>2. log' = [log EXCEPT ![t] = c]
  BY DEF Logged
<1>3. /\ file_stat_table' = [file_stat_table EXCEPT ![t] = Put(file_stat_table[t], e.key, entry)]
      /\ syscall_table' = syscall_table
  BY DEF Count, svars
<1>4. file_stat_table[t] = FilesOf(a) /\ syscall_table[t] = SyscallsOf(a)
  BY DEF ThreadExact
<1> HIDE DEF a
<1>5. FilesOf(c) = Put(FilesOf(a), e.key, FileOf(c, e.key)) /\ SyscallsOf(c) = SyscallsOf(a)
  BY <1>1, TablesCounted
<1>6. entry = FileOf(c, e.key)
  BY DEF a
<1> HIDE DEF c
<1>7. ASSUME NEW u \in Thread
      PROVE  file_stat_table'[u] = FilesOf(log'[u]) /\ syscall_table'[u] = SyscallsOf(log'[u])
  <2>1. CASE u = t
    BY <1>1, <1>2, <1>3, <1>4, <1>5, <1>6, <2>1
  <2>2. CASE u # t
    BY <1>1, <1>2, <1>3, <2>2 DEF ThreadExact
  <2> QED
    BY <2>1, <2>2
<1> QED
  BY <1>7 DEF ThreadExact

\* Every step keeps the tables of the threads exact.
LEMMA ThreadStep == BelowInitials /\ TypeOK /\ ThreadExact /\ [Next]_vars => ThreadExact'
<1> SUFFICES ASSUME BelowInitials, TypeOK, ThreadExact, [Next]_vars PROVE ThreadExact'
  OBVIOUS
<1>1. ASSUME NEW t \in Thread
      PROVE  /\ IsLog(log[t])
             /\ \A f : file_stat_get_safe(file_stat_table[t], f) = FileOf(log[t], f)
             /\ \A c : syscall_stat_get_safe(syscall_table[t], c) = SyscallOf(log[t], c)
  <2>1. IsLog(log[t])
    BY DEF TypeOK
  <2>2. file_stat_table[t] = FilesOf(log[t]) /\ syscall_table[t] = SyscallsOf(log[t])
    BY DEF ThreadExact
  <2>3. \A f : file_stat_get_safe(FilesOf(log[t]), f) = FileOf(log[t], f)
    BY <2>1, FilesAre
  <2>4. \A c : syscall_stat_get_safe(SyscallsOf(log[t]), c) = SyscallOf(log[t], c)
    BY <2>1, SyscallsAre
  <2> QED
    BY <2>1, <2>2, <2>3, <2>4
<1>2. ASSUME NEW t \in Thread, NEW f \in File, NEW ns \in Ns, file_stat_incr_open(t, f, ns)
      PROVE  ThreadExact'
  <2> DEFINE e == [op |-> "open", key |-> f, ns |-> ns, bytes |-> 0]
             s == FileOf(log[t], f)
  <2>1. e \in Event /\ e.op = "open" /\ e.key = f /\ e.ns = ns
    BY DEF Event
  <2>2. Count(t, f, [s EXCEPT !.open = incr_open_close(@, ns)]) /\ Logged(t, e)
    BY <1>1, <1>2 DEF file_stat_incr_open
  <2> HIDE DEF e
  <2>3. FileOf(log[t] (+) SetToBag({e}), f) = CountedIn(s, e)
    BY <1>1, <2>1, FileCounted
  <2>4. CountedIn(s, e) = [s EXCEPT !.open = incr_open_close(@, ns)]
    BY <2>1 DEF CountedIn, FileOf
  <2> QED
    BY <2>1, <2>2, <2>3, <2>4, ThreadCounts
<1>3. ASSUME NEW t \in Thread, NEW f \in File, NEW ns \in Ns, file_stat_incr_close(t, f, ns)
      PROVE  ThreadExact'
  <2> DEFINE e == [op |-> "close", key |-> f, ns |-> ns, bytes |-> 0]
             s == FileOf(log[t], f)
  <2>1. e \in Event /\ e.op = "close" /\ e.key = f /\ e.ns = ns
    BY DEF Event
  <2>2. Count(t, f, [s EXCEPT !.close = incr_open_close(@, ns)]) /\ Logged(t, e)
    BY <1>1, <1>3 DEF file_stat_incr_close
  <2> HIDE DEF e
  <2>3. FileOf(log[t] (+) SetToBag({e}), f) = CountedIn(s, e)
    BY <1>1, <2>1, FileCounted
  <2>4. CountedIn(s, e) = [s EXCEPT !.close = incr_open_close(@, ns)]
    BY <2>1 DEF CountedIn, FileOf
  <2> QED
    BY <2>1, <2>2, <2>3, <2>4, ThreadCounts
<1>4. ASSUME NEW t \in Thread, NEW f \in File, NEW ns \in Ns, NEW b \in Bytes,
             file_stat_incr_read(t, f, ns, b)
      PROVE  ThreadExact'
  <2> DEFINE e == [op |-> "read", key |-> f, ns |-> ns, bytes |-> b]
             s == FileOf(log[t], f)
  <2>1. e \in Event /\ e.op = "read" /\ e.key = f /\ e.ns = ns /\ e.bytes = b
    BY DEF Event
  <2>2. Count(t, f, [s EXCEPT !.read = file_stat_incr_rw(@, ns, b)]) /\ Logged(t, e)
    BY <1>1, <1>4 DEF file_stat_incr_read
  <2> HIDE DEF e
  <2>3. FileOf(log[t] (+) SetToBag({e}), f) = CountedIn(s, e)
    BY <1>1, <2>1, FileCounted
  <2>4. CountedIn(s, e) = [s EXCEPT !.read = file_stat_incr_rw(@, ns, b)]
    BY <2>1 DEF CountedIn, FileOf
  <2> QED
    BY <2>1, <2>2, <2>3, <2>4, ThreadCounts
<1>5. ASSUME NEW t \in Thread, NEW f \in File, NEW ns \in Ns, NEW b \in Bytes,
             file_stat_incr_write(t, f, ns, b)
      PROVE  ThreadExact'
  <2> DEFINE e == [op |-> "write", key |-> f, ns |-> ns, bytes |-> b]
             s == FileOf(log[t], f)
  <2>1. e \in Event /\ e.op = "write" /\ e.key = f /\ e.ns = ns /\ e.bytes = b
    BY DEF Event
  <2>2. Count(t, f, [s EXCEPT !.write = file_stat_incr_rw(@, ns, b)]) /\ Logged(t, e)
    BY <1>1, <1>5 DEF file_stat_incr_write
  <2> HIDE DEF e
  <2>3. FileOf(log[t] (+) SetToBag({e}), f) = CountedIn(s, e)
    BY <1>1, <2>1, FileCounted
  <2>4. CountedIn(s, e) = [s EXCEPT !.write = file_stat_incr_rw(@, ns, b)]
    BY <2>1 DEF CountedIn, FileOf
  <2> QED
    BY <2>1, <2>2, <2>3, <2>4, ThreadCounts
<1>6. ASSUME NEW t \in Thread, NEW k \in Sc, NEW ns \in Ns, syscall_stat_incr(t, k, ns)
      PROVE  ThreadExact'
  <2> DEFINE e == [op |-> "other", sc |-> k, ns |-> ns]
             a == log[t]
             c == a (+) SetToBag({e})
             entry == incr_syscall_stat(SyscallOf(a, k), ns)
  <2>1. e \in Event /\ e.op = "other" /\ e.sc = k /\ e.ns = ns
    BY DEF Event
  <2>2. /\ syscall_table' = [syscall_table EXCEPT ![t] = Put(syscall_table[t], k, entry)]
        /\ log' = [log EXCEPT ![t] = c]
        /\ file_stat_table' = file_stat_table
    BY <1>1, <1>6 DEF syscall_stat_incr, Logged, fvars
  <2> HIDE DEF e
  <2>3. IsLog(a)
    BY <1>1
  <2>4. SyscallOf(c, k) = entry
    BY <2>1, <2>3, SyscallCounted
  <2>5. FilesOf(c) = FilesOf(a) /\ SyscallsOf(c) = Put(SyscallsOf(a), k, SyscallOf(c, k))
    BY <2>1, <2>3, TablesCounted
  <2>6. file_stat_table[t] = FilesOf(a) /\ syscall_table[t] = SyscallsOf(a)
    BY DEF ThreadExact
  <2>7. DOMAIN log = Thread /\ DOMAIN syscall_table = Thread
    BY DEF TypeOK
  <2> HIDE DEF a, c, entry
  <2>8. ASSUME NEW u \in Thread
        PROVE  file_stat_table'[u] = FilesOf(log'[u]) /\ syscall_table'[u] = SyscallsOf(log'[u])
    <3>1. CASE u = t
      BY <2>2, <2>4, <2>5, <2>6, <2>7, <3>1
    <3>2. CASE u # t
      BY <2>2, <2>7, <3>2 DEF ThreadExact
    <3> QED
      BY <3>1, <3>2
  <2> QED
    BY <2>8 DEF ThreadExact
<1>7. ASSUME UNCHANGED <<file_stat_table, syscall_table, log>> PROVE ThreadExact'
  BY <1>7 DEF ThreadExact
<1>8. ASSUME NEW t \in Thread, file_state_merge(t) PROVE ThreadExact'
  BY <1>7, <1>8 DEF file_state_merge, svars
<1>9. ASSUME NEW t \in Thread, syscall_stat_merge(t) PROVE ThreadExact'
  BY <1>7, <1>9 DEF syscall_stat_merge, fvars
<1>10. CASE print_stats_as_json
  BY <1>7, <1>10 DEF print_stats_as_json, fvars, svars
<1>11. CASE UNCHANGED vars
  BY <1>7, <1>11 DEF vars, fvars, svars
<1> QED
  BY <1>2, <1>3, <1>4, <1>5, <1>6, <1>8, <1>9, <1>10, <1>11 DEF Next, Counted

\* The tables of each thread are the statistics of what it has counted, whatever it
\* counted and in whatever order (the incr functions of file_stat.c and
\* unconsidered_syscall_stat.c).
THEOREM ThreadsCountExactly == BelowInitials => (Spec => []ThreadExact)
<1> SUFFICES ASSUME BelowInitials PROVE Spec => []ThreadExact
  OBVIOUS
<1>1. Init => ThreadExact
  BY EmptyLog DEF Init, ThreadExact
<1>2. TypeOK /\ ThreadExact /\ [Next]_vars => ThreadExact'
  BY ThreadStep
<1> QED
  BY <1>1, <1>2, TypeCorrect, PTL DEF Spec

-----------------------------------------------------------------------------
(* What main has merged.                                                   *)

\* How often e is in the logs of the threads together.
Occurrences(threads, e) == SumFunctionOnSet([t \in threads |-> Get(log[t], e, 0)], threads)

\* LogOf holds each syscall as often as the logs of the threads do together.
LEMMA LogsCounted ==
  ASSUME NEW T, T \subseteq Thread, IsFiniteSet(T), \A t \in Thread : IsLog(log[t])
  PROVE  /\ DOMAIN LogOf(T) = UNION {DOMAIN log[t] : t \in T}
         /\ \A e : Get(LogOf(T), e, 0) = Occurrences(T, e)
<1>1. DOMAIN LogOf(T) = UNION {DOMAIN log[t] : t \in T}
  BY DEF LogOf
<1>2. ASSUME NEW e PROVE Get(LogOf(T), e, 0) = Occurrences(T, e)
  <2> DEFINE f == [t \in T |-> Get(log[t], e, 0)]
  <2>1. CASE e \in DOMAIN LogOf(T)
    <3>1. LogOf(T)[e] = SumFunction(f)
      BY <1>1, <2>1 DEF LogOf
    <3>2. DOMAIN f = T
      OBVIOUS
    <3>3. SumFunction(f) = SumFunctionOnSet(f, T)
      BY <3>2 DEF SumFunction
    <3> QED
      BY <2>1, <3>1, <3>3 DEF Get, Occurrences
  <2>2. CASE e \notin DOMAIN LogOf(T)
    <3>1. \A t \in T : f[t] = 0
      BY <1>1, <2>2 DEF Get
    <3> HIDE DEF f
    <3>2. SumFunctionOnSet(f, T) = SumFunctionOnSet(f, {})
      BY <3>1, SumZeros
    <3>3. Occurrences(T, e) = 0
      BY <3>2, SumEmpty DEF Occurrences, f
    <3> QED
      BY <2>2, <3>3 DEF Get
  <2> QED
    BY <2>1, <2>2
<1> QED
  BY <1>1, <1>2

\* A thread more adds its log.
LEMMA LogsAdd ==
  ASSUME NEW T, T \subseteq Thread, IsFiniteSet(T), \A t \in Thread : IsLog(log[t]),
         NEW t \in Thread, t \notin T
  PROVE  LogOf(T \cup {t}) = LogOf(T) (+) log[t]
<1> DEFINE U == T \cup {t}
           l == LogOf(U)
           r == LogOf(T) (+) log[t]
<1>1. U \subseteq Thread /\ IsFiniteSet(U)
  BY FS_AddElement
<1>2. /\ DOMAIN l = UNION {DOMAIN log[u] : u \in U}
      /\ \A e : Get(l, e, 0) = Occurrences(U, e)
  BY <1>1, LogsCounted
<1>3. /\ DOMAIN LogOf(T) = UNION {DOMAIN log[u] : u \in T}
      /\ \A e : Get(LogOf(T), e, 0) = Occurrences(T, e)
  BY LogsCounted
<1>4. DOMAIN r = DOMAIN LogOf(T) \cup DOMAIN log[t]
  BY DEF (+)
<1>5. DOMAIN l = DOMAIN r
  BY <1>2, <1>3, <1>4
<1>6. ASSUME NEW e PROVE Occurrences(U, e) = Occurrences(T, e) + Get(log[t], e, 0)
  <2> DEFINE f == [u \in U |-> Get(log[u], e, 0)]
             g == [u \in T |-> Get(log[u], e, 0)]
  <2>1. \A u \in U : Get(log[u], e, 0) \in Nat
    BY DEF Get, IsLog, IsABag
  <2>2. \A u \in T : g[u] \in Nat /\ f[u] = g[u]
    BY <2>1
  <2>3. \A u \in T \cup {t} : f[u] \in Nat
    BY <2>1
  <2>4. f[t] = Get(log[t], e, 0)
    OBVIOUS
  <2> HIDE DEF f, g
  <2>5. SumFunctionOnSet(f, T \cup {t}) = f[t] + SumFunctionOnSet(f, T)
    BY <2>3, SumAdd
  <2>6. SumFunctionOnSet(f, T) = SumFunctionOnSet(g, T)
    BY <2>2, SumSame
  <2>7. SumFunctionOnSet(g, T) \in Nat
    BY <2>2, SumTaken
  <2>8. Occurrences(U, e) = SumFunctionOnSet(f, T \cup {t}) /\ Occurrences(T, e) = SumFunctionOnSet(g, T)
    BY DEF Occurrences, f, g
  <2>9. f[t] \in Nat
    BY <2>3
  <2> QED
    BY <2>4, <2>5, <2>6, <2>7, <2>8, <2>9
<1>7. ASSUME NEW e \in DOMAIN l PROVE l[e] = r[e]
  <2>1. r[e] = Get(LogOf(T), e, 0) + Get(log[t], e, 0)
    <3>1. e \in DOMAIN r
      BY <1>5, <1>7
    <3> QED
      BY <3>1, <1>4 DEF (+), Get
  <2>2. l[e] = Get(l, e, 0)
    BY <1>7 DEF Get
  <2> HIDE DEF l, r, U
  <2> QED
    BY <1>2, <1>3, <1>6, <2>1, <2>2
<1>8. l = [e \in DOMAIN l |-> l[e]] /\ r = [e \in DOMAIN r |-> r[e]]
  BY DEF LogOf, (+)
<1> HIDE DEF l, r
<1>9. l = r
  BY <1>5, <1>7, <1>8
<1> QED
  BY <1>9 DEF l, r

\* No threads have counted nothing.
LEMMA NoLogs == LogOf({}) = EmptyBag
<1>1. DOMAIN LogOf({}) = {}
  BY DEF LogOf
<1>2. LogOf({}) = [e \in DOMAIN LogOf({}) |-> LogOf({})[e]]
  BY DEF LogOf
<1>3. EmptyBag = [e \in {} |-> 0]
  BY DEF EmptyBag, SetToBag
<1> QED
  BY <1>1, <1>2, <1>3

\* The log of several threads is a log.
LEMMA LogsTyped ==
  ASSUME NEW T, T \subseteq Thread, IsFiniteSet(T), \A t \in Thread : IsLog(log[t])
  PROVE  IsLog(LogOf(T))
<1> DEFINE G == {U \in SUBSET T : IsLog(LogOf(U))}
<1>1. {} \in G
  BY NoLogs, EmptyLog
<1>2. ASSUME NEW U \in SUBSET T, NEW t \in T, U \in G, t \notin U PROVE U \cup {t} \in G
  <2>1. IsFiniteSet(U) /\ U \subseteq Thread /\ t \in Thread
    BY FS_Subset
  <2>2. LogOf(U \cup {t}) = LogOf(U) (+) log[t]
    BY <1>2, <2>1, LogsAdd
  <2>3. IsLog(LogOf(U) (+) log[t])
    BY <1>2, <2>1, LogAdds
  <2> QED
    BY <2>2, <2>3
<1> HIDE DEF G
<1>3. T \in G
  BY <1>1, <1>2, SetInduction
<1> QED
  BY <1>3 DEF G

\* Logs that stay are together what they were.
LEMMA LogsKept ==
  ASSUME NEW T, \A t \in T : log'[t] = log[t]
  PROVE  [e \in UNION {DOMAIN log'[t] : t \in T} |-> SumFunction([t \in T |-> Get(log'[t], e, 0)])]
           = LogOf(T)
<1>1. UNION {DOMAIN log'[t] : t \in T} = UNION {DOMAIN log[t] : t \in T}
  OBVIOUS
<1>2. \A e : [t \in T |-> Get(log'[t], e, 0)] = [t \in T |-> Get(log[t], e, 0)]
  OBVIOUS
<1> QED
  BY <1>1, <1>2 DEF LogOf

\* Finitely many threads have merged.
MergedFinite == IsFiniteSet(merged_file)

\* What is inductive of MainExact, with ThreadExact.
MainInv == MergedFinite /\ MainExact

\* What a thread counts before it merges does not show in the tables of main.
LEMMA MainKept ==
  ASSUME TypeOK, MainInv, NEW t \in Thread, Alive(t), NEW event, Logged(t, event),
         UNCHANGED <<main_file_stat_table, main_syscall_table, merged_file, merged_sys>>
  PROVE  MainInv'
<1>1. \A u \in merged_file : log'[u] = log[u]
  BY DEF TypeOK, Logged, Alive
<1>2. \A u \in merged_sys : log'[u] = log[u]
  BY <1>1 DEF TypeOK
<1>3. LogOf(merged_file)' = LogOf(merged_file)
  BY <1>1, LogsKept DEF LogOf
<1>4. LogOf(merged_sys)' = LogOf(merged_sys)
  BY <1>2, LogsKept DEF LogOf
<1>5. MainExact'
  BY <1>3, <1>4 DEF MainInv, MainExact
<1> QED
  BY <1>5 DEF MainInv, MergedFinite

\* Every step keeps the tables of main exact: a merge adds the log of the thread.
LEMMA MainStep == BelowInitials /\ TypeOK /\ ThreadExact /\ MainInv /\ [Next]_vars => MainInv'
<1> SUFFICES ASSUME BelowInitials, TypeOK, ThreadExact, MainInv, [Next]_vars PROVE MainInv'
  OBVIOUS
<1>1. ASSUME NEW t \in Thread, NEW f \in File, NEW ns \in Ns,
             file_stat_incr_open(t, f, ns) \/ file_stat_incr_close(t, f, ns)
      PROVE  MainInv'
  <2>1. /\ Alive(t) /\ \E event : Logged(t, event)
        /\ UNCHANGED <<main_file_stat_table, main_syscall_table, merged_file, merged_sys>>
    BY <1>1 DEF file_stat_incr_open, file_stat_incr_close, Count, svars
  <2> QED
    BY <2>1, MainKept
<1>2. ASSUME NEW t \in Thread, NEW f \in File, NEW ns \in Ns, NEW b \in Bytes,
             file_stat_incr_read(t, f, ns, b) \/ file_stat_incr_write(t, f, ns, b)
      PROVE  MainInv'
  <2>1. /\ Alive(t) /\ \E event : Logged(t, event)
        /\ UNCHANGED <<main_file_stat_table, main_syscall_table, merged_file, merged_sys>>
    BY <1>2 DEF file_stat_incr_read, file_stat_incr_write, Count, svars
  <2> QED
    BY <2>1, MainKept
<1>3. ASSUME NEW t \in Thread, NEW c \in Sc, NEW ns \in Ns, syscall_stat_incr(t, c, ns)
      PROVE  MainInv'
  <2>1. /\ Alive(t) /\ \E event : Logged(t, event)
        /\ UNCHANGED <<main_file_stat_table, main_syscall_table, merged_file, merged_sys>>
    BY <1>3 DEF syscall_stat_incr, fvars
  <2> QED
    BY <2>1, MainKept
<1>4. /\ IsFiniteSet(merged_file) /\ merged_file \subseteq Thread
      /\ IsFiniteSet(merged_sys) /\ merged_sys \subseteq Thread
      /\ \A u \in Thread : IsLog(log[u])
  BY FS_Subset DEF TypeOK, MainInv, MergedFinite
<1>5. ASSUME NEW t \in Thread, file_state_merge(t) PROVE MainInv'
  <2> DEFINE a == LogOf(merged_file)
  <2>1. t \notin merged_file
    BY <1>5 DEF file_state_merge, Alive
  <2>2. IsLog(a) /\ IsLog(log[t])
    BY <1>4, LogsTyped
  <2>3. LogOf(merged_file \cup {t}) = a (+) log[t]
    BY <1>4, <2>1, LogsAdd
  <2>4. FilesOf(a (+) log[t]) = MergeFiles(FilesOf(a), FilesOf(log[t]))
    BY <2>2, FilesAdd
  <2>5. /\ main_file_stat_table' = MergeFiles(FilesOf(a), FilesOf(log[t]))
        /\ merged_file' = merged_file \cup {t}
        /\ UNCHANGED <<main_syscall_table, merged_sys, log>>
    BY <1>5 DEF file_state_merge, svars, MainInv, MainExact, ThreadExact
  <2>6. LogOf(merged_file)' = LogOf(merged_file \cup {t}) /\ LogOf(merged_sys)' = LogOf(merged_sys)
    BY <2>5 DEF LogOf
  <2>7. MainExact'
    BY <2>3, <2>4, <2>5, <2>6 DEF MainInv, MainExact
  <2>8. MergedFinite'
    BY <1>4, <2>5, FS_AddElement DEF MergedFinite
  <2> QED
    BY <2>7, <2>8 DEF MainInv
<1>6. ASSUME NEW t \in Thread, syscall_stat_merge(t) PROVE MainInv'
  <2> DEFINE a == LogOf(merged_sys)
  <2>1. t \notin merged_sys
    BY <1>6 DEF syscall_stat_merge
  <2>2. IsLog(a) /\ IsLog(log[t])
    BY <1>4, LogsTyped
  <2>3. LogOf(merged_sys \cup {t}) = a (+) log[t]
    BY <1>4, <2>1, LogsAdd
  <2>4. SyscallsOf(a (+) log[t]) = MergeSyscalls(SyscallsOf(a), SyscallsOf(log[t]))
    BY <2>2, SyscallsAdd
  <2>5. /\ main_syscall_table' = MergeSyscalls(SyscallsOf(a), SyscallsOf(log[t]))
        /\ merged_sys' = merged_sys \cup {t}
        /\ UNCHANGED <<main_file_stat_table, merged_file, log>>
    BY <1>6 DEF syscall_stat_merge, fvars, MainInv, MainExact, ThreadExact
  <2>6. LogOf(merged_file)' = LogOf(merged_file) /\ LogOf(merged_sys)' = LogOf(merged_sys \cup {t})
    BY <2>5 DEF LogOf
  <2>7. MainExact'
    BY <2>3, <2>4, <2>5, <2>6 DEF MainInv, MainExact
  <2> QED
    BY <2>5, <2>7 DEF MainInv, MergedFinite
<1>7. ASSUME UNCHANGED <<main_file_stat_table, main_syscall_table, merged_file, merged_sys, log>>
      PROVE  MainInv'
  BY <1>7 DEF MainInv, MergedFinite, MainExact, LogOf
<1>8. CASE print_stats_as_json
  BY <1>7, <1>8 DEF print_stats_as_json, fvars, svars
<1>9. CASE UNCHANGED vars
  BY <1>7, <1>9 DEF vars, fvars, svars
<1> QED
  BY <1>1, <1>2, <1>3, <1>5, <1>6, <1>8, <1>9 DEF Next, Counted

\* The tables of main are the statistics of all the syscalls of the threads merged
\* so far, however many threads there are and in whatever order they merge
\* (file_state_merge, syscall_stat_merge).
THEOREM MainCountsExactly == BelowInitials => (Spec => []MainExact)
<1> SUFFICES ASSUME BelowInitials PROVE Spec => []MainExact
  OBVIOUS
<1>1. Init => MainInv
  <2> SUFFICES ASSUME Init PROVE MainInv
    OBVIOUS
  <2>1. merged_file = {} /\ merged_sys = {}
    BY DEF Init
  <2>2. LogOf(merged_file) = EmptyBag /\ LogOf(merged_sys) = EmptyBag
    BY <2>1, NoLogs
  <2>3. MainExact
    BY <2>2, EmptyLog DEF MainExact, Init
  <2> QED
    BY <2>1, <2>3, FS_EmptySet DEF MainInv, MergedFinite
<1>2. TypeOK /\ ThreadExact /\ MainInv /\ [Next]_vars => MainInv'
  BY MainStep
<1>3. Spec => []TypeOK
  BY TypeCorrect
<1>4. Spec => []ThreadExact
  BY ThreadsCountExactly
<1>5. MainInv => MainExact
  BY DEF MainInv
<1> QED
  BY <1>1, <1>2, <1>3, <1>4, <1>5, PTL DEF Spec

-----------------------------------------------------------------------------
(* The block sizes.                                                        *)

\* The bytes a result stands for.
Positive(D) == [b \in D |-> IF b > 0 THEN b ELSE 0]

\* The block sizes of an entry account for its bytes.
Explained(s) ==
  /\ IsFiniteBag(s.blocks) /\ DOMAIN s.blocks \subseteq Int
  /\ s.total_b = Weight(s.blocks, Positive(Int))

\* So do those of every entry of a table, and of all tables.
FilesExplained(table) ==
  \A f \in DOMAIN table : Explained(table[f].read) /\ Explained(table[f].write)

AllExplained ==
  /\ FilesExplained(main_file_stat_table)
  /\ \A t \in Thread : FilesExplained(file_stat_table[t])

\* The bytes a result stands for are never negative.
LEMMA PositiveTyped == \A b \in Int : Positive(Int)[b] \in Nat
<1> SUFFICES ASSUME NEW b \in Int PROVE Positive(Int)[b] \in Nat
  OBVIOUS
<1>1. Positive(Int)[b] = IF b > 0 THEN b ELSE 0
  BY DEF Positive
<1> QED
  BY <1>1

\* Fresh statistics account for no bytes.
LEMMA FreshExplained == Explained(init_read_write)
<1>1. IsFiniteBag(EmptyBag) /\ DOMAIN EmptyBag = {}
  BY WeightOfNone
<1>2. Weight(EmptyBag, Positive(Int)) = 0
  BY WeightOfNone
<1> QED
  BY <1>1, <1>2 DEF Explained, init_read_write

\* A result more is accounted for (file_stat_incr_rw).
LEMMA CountExplained ==
  ASSUME NEW s, Explained(s), NEW ns \in Ns, NEW b \in Bytes
  PROVE  Explained(file_stat_incr_rw(s, ns, b))
<1> DEFINE r == file_stat_incr_rw(s, ns, b)
           v == Positive(Int)
           x == SetToBag({b})
<1>1. b \in Int /\ v[b] = IF b > 0 THEN b ELSE 0
  BY FileStatsAssumption DEF Positive
<1>2. DOMAIN x = {b}
  BY OneOf
<1>3. v[b] \in Nat
  BY <1>1, PositiveTyped
<1>4. IsFiniteBag(x) /\ Weight(x, v) = v[b]
  BY <1>3, WeightOfOne
<1>5. /\ IsFiniteBag(s.blocks) /\ DOMAIN s.blocks \subseteq Int
      /\ s.total_b = Weight(s.blocks, v)
  BY DEF Explained
<1>6. r.blocks = s.blocks (+) x /\ r.total_b = IF b > 0 THEN s.total_b + b ELSE s.total_b
  BY DEF file_stat_incr_rw
<1> HIDE DEF r, v, x
<1>7. IsFiniteBag(r.blocks) /\ DOMAIN r.blocks = DOMAIN s.blocks \cup {b}
  BY <1>2, <1>4, <1>5, <1>6, FiniteBagSum
<1>8. \A e \in DOMAIN s.blocks \cup DOMAIN x : v[e] \in Nat
  BY <1>1, <1>2, <1>5, PositiveTyped DEF v
<1>9. Weight(r.blocks, v) = Weight(s.blocks, v) + Weight(x, v) /\ Weight(s.blocks, v) \in Nat
  BY <1>4, <1>5, <1>6, <1>8, WeightAdds
<1>10. r.total_b = Weight(r.blocks, v)
  BY <1>1, <1>4, <1>5, <1>6, <1>9
<1> QED
  BY <1>1, <1>5, <1>7, <1>10 DEF Explained, r, v

\* The block sizes of merged statistics account for their bytes
\* (merge_read_write).
LEMMA MergeExplained ==
  ASSUME NEW s, NEW u, Explained(s), Explained(u)
  PROVE  Explained(merge_read_write(s, u))
<1> DEFINE r == merge_read_write(s, u)
           v == Positive(Int)
<1>1. r.blocks = s.blocks (+) u.blocks
  BY DEF merge_read_write, merge_blocks, Get, (+)
<1>2. r.total_b = s.total_b + u.total_b
  BY DEF merge_read_write
<1>3. /\ IsFiniteBag(s.blocks) /\ DOMAIN s.blocks \subseteq Int
      /\ s.total_b = Weight(s.blocks, v)
      /\ IsFiniteBag(u.blocks) /\ DOMAIN u.blocks \subseteq Int
      /\ u.total_b = Weight(u.blocks, v)
  BY DEF Explained
<1> HIDE DEF r, v
<1>4. IsFiniteBag(r.blocks) /\ DOMAIN r.blocks = DOMAIN s.blocks \cup DOMAIN u.blocks
  BY <1>1, <1>3, FiniteBagSum
<1>5. \A e \in DOMAIN s.blocks \cup DOMAIN u.blocks : v[e] \in Nat
  BY <1>3, PositiveTyped DEF v
<1>6. Weight(r.blocks, v) = Weight(s.blocks, v) + Weight(u.blocks, v)
  BY <1>1, <1>3, <1>5, WeightAdds
<1> QED
  BY <1>2, <1>3, <1>4, <1>6 DEF Explained, r, v

\* What file_stat_get_safe returns is accounted for.
LEMMA ExplainedGet ==
  ASSUME NEW table, FilesExplained(table), NEW f
  PROVE  /\ Explained(file_stat_get_safe(table, f).read)
         /\ Explained(file_stat_get_safe(table, f).write)
<1>1. CASE f \in DOMAIN table
  BY <1>1 DEF FilesExplained, file_stat_get_safe, Get
<1>2. CASE f \notin DOMAIN table
  BY <1>2, FreshExplained DEF file_stat_get_safe, Get, init_file_stat
<1> QED
  BY <1>1, <1>2

\* So is every entry of a merged table (file_state_merge).
LEMMA FilesMergeExplained ==
  ASSUME NEW M, NEW A, FilesExplained(M), FilesExplained(A)
  PROVE  FilesExplained(MergeFiles(M, A))
<1> SUFFICES ASSUME NEW f \in DOMAIN MergeFiles(M, A)
             PROVE  /\ Explained(MergeFiles(M, A)[f].read)
                    /\ Explained(MergeFiles(M, A)[f].write)
  BY DEF FilesExplained
<1> DEFINE s == file_stat_get_safe(M, f)
<1>1. Explained(s.read) /\ Explained(s.write)
  BY ExplainedGet
<1>2. CASE f \in DOMAIN A
  <2>1. MergeFiles(M, A)[f] = merge_file_stat(s, A[f])
    BY <1>2 DEF MergeFiles
  <2>2. Explained(A[f].read) /\ Explained(A[f].write)
    BY <1>2 DEF FilesExplained
  <2> HIDE DEF s
  <2>3. Explained(merge_read_write(s.read, A[f].read))
    BY <1>1, <2>2, MergeExplained
  <2>4. Explained(merge_read_write(s.write, A[f].write))
    BY <1>1, <2>2, MergeExplained
  <2> QED
    BY <2>1, <2>3, <2>4 DEF merge_file_stat
<1>3. CASE f \notin DOMAIN A
  <2>1. f \in DOMAIN M /\ MergeFiles(M, A)[f] = M[f]
    BY <1>3 DEF MergeFiles
  <2> QED
    BY <2>1 DEF FilesExplained
<1> QED
  BY <1>2, <1>3

\* A thread that puts such an entry keeps the invariant.
LEMMA CountsExplained ==
  ASSUME TypeOK, AllExplained, NEW t \in Thread, NEW f, NEW entry, Count(t, f, entry),
         Explained(entry.read), Explained(entry.write)
  PROVE  AllExplained'
<1>1. DOMAIN file_stat_table = Thread
  BY DEF TypeOK
<1>2. /\ file_stat_table' = [file_stat_table EXCEPT ![t] = Put(file_stat_table[t], f, entry)]
      /\ main_file_stat_table' = main_file_stat_table
  BY DEF Count
<1>3. FilesExplained(Put(file_stat_table[t], f, entry))
  BY DEF AllExplained, FilesExplained, Put
<1>4. \A u \in Thread : FilesExplained(file_stat_table'[u])
  BY <1>1, <1>2, <1>3 DEF AllExplained
<1> QED
  BY <1>2, <1>4 DEF AllExplained

\* Every step keeps it.
LEMMA ExplainedStep == TypeOK /\ AllExplained /\ [Next]_vars => AllExplained'
<1> SUFFICES ASSUME TypeOK, AllExplained, [Next]_vars PROVE AllExplained'
  OBVIOUS
<1> DEFINE S(t, f) == file_stat_get_safe(file_stat_table[t], f)
<1>1. \A t \in Thread : \A f : Explained(S(t, f).read) /\ Explained(S(t, f).write)
  BY ExplainedGet DEF AllExplained
<1>2. \A t \in Thread, f \in File : IsFileStat(S(t, f))
  BY FreshFileStat DEF TypeOK, IsFileTable, file_stat_get_safe, Get
<1>3. ASSUME NEW t \in Thread, NEW f \in File, NEW ns \in Ns,
             file_stat_incr_open(t, f, ns) \/ file_stat_incr_close(t, f, ns)
      PROVE  AllExplained'
  <2> DEFINE s == S(t, f)
             o == [s EXCEPT !.open = incr_open_close(s.open, ns)]
             c == [s EXCEPT !.close = incr_open_close(s.close, ns)]
  <2>1. IsFileStat(s)
    BY <1>2
  <2>2. Explained(s.read) /\ Explained(s.write)
    BY <1>1
  <2>3. Count(t, f, o) \/ Count(t, f, c)
    BY <1>3 DEF file_stat_incr_open, file_stat_incr_close
  <2> HIDE DEF s
  <2>4. o.read = s.read /\ o.write = s.write /\ c.read = s.read /\ c.write = s.write
    BY <2>1 DEF IsFileStat
  <2> HIDE DEF o, c
  <2> QED
    BY <2>2, <2>3, <2>4, CountsExplained
<1>4. ASSUME NEW t \in Thread, NEW f \in File, NEW ns \in Ns, NEW b \in Bytes,
             file_stat_incr_read(t, f, ns, b)
      PROVE  AllExplained'
  <2> DEFINE s == S(t, f)
             e == [s EXCEPT !.read = file_stat_incr_rw(s.read, ns, b)]
  <2>1. IsFileStat(s)
    BY <1>2
  <2>2. Explained(s.read) /\ Explained(s.write)
    BY <1>1
  <2>3. Count(t, f, e)
    BY <1>4 DEF file_stat_incr_read
  <2> HIDE DEF s
  <2>4. e.read = file_stat_incr_rw(s.read, ns, b) /\ e.write = s.write
    BY <2>1 DEF IsFileStat
  <2>5. Explained(file_stat_incr_rw(s.read, ns, b))
    BY <2>2, CountExplained
  <2> HIDE DEF e
  <2> QED
    BY <2>2, <2>3, <2>4, <2>5, CountsExplained
<1>5. ASSUME NEW t \in Thread, NEW f \in File, NEW ns \in Ns, NEW b \in Bytes,
             file_stat_incr_write(t, f, ns, b)
      PROVE  AllExplained'
  <2> DEFINE s == S(t, f)
             e == [s EXCEPT !.write = file_stat_incr_rw(s.write, ns, b)]
  <2>1. IsFileStat(s)
    BY <1>2
  <2>2. Explained(s.read) /\ Explained(s.write)
    BY <1>1
  <2>3. Count(t, f, e)
    BY <1>5 DEF file_stat_incr_write
  <2> HIDE DEF s
  <2>4. e.write = file_stat_incr_rw(s.write, ns, b) /\ e.read = s.read
    BY <2>1 DEF IsFileStat
  <2>5. Explained(file_stat_incr_rw(s.write, ns, b))
    BY <2>2, CountExplained
  <2> HIDE DEF e
  <2> QED
    BY <2>2, <2>3, <2>4, <2>5, CountsExplained
<1>6. ASSUME UNCHANGED <<file_stat_table, main_file_stat_table>> PROVE AllExplained'
  BY <1>6 DEF AllExplained
<1>7. ASSUME NEW t \in Thread, NEW c \in Sc, NEW ns \in Ns, syscall_stat_incr(t, c, ns)
      PROVE  AllExplained'
  BY <1>6, <1>7 DEF syscall_stat_incr, fvars
<1>8. ASSUME NEW t \in Thread, file_state_merge(t) PROVE AllExplained'
  <2>1. /\ main_file_stat_table' = MergeFiles(main_file_stat_table, file_stat_table[t])
        /\ file_stat_table' = file_stat_table
    BY <1>8 DEF file_state_merge
  <2>2. FilesExplained(MergeFiles(main_file_stat_table, file_stat_table[t]))
    BY FilesMergeExplained DEF AllExplained
  <2> QED
    BY <2>1, <2>2 DEF AllExplained
<1>9. ASSUME NEW t \in Thread, syscall_stat_merge(t) PROVE AllExplained'
  BY <1>6, <1>9 DEF syscall_stat_merge, fvars
<1>10. CASE print_stats_as_json
  BY <1>6, <1>10 DEF print_stats_as_json, fvars
<1>11. CASE UNCHANGED vars
  BY <1>6, <1>11 DEF vars, fvars
<1> QED
  BY <1>3, <1>4, <1>5, <1>7, <1>8, <1>9, <1>10, <1>11 DEF Next, Counted

\* An entry that is accounted for has the total of the property.
LEMMA ExplainedTotal ==
  ASSUME NEW s, Explained(s)
  PROVE  s.total_b = Total(s.blocks, LAMBDA b : IF b > 0 THEN b ELSE 0)
<1>1. \A b \in DOMAIN s.blocks : Positive(Int)[b] = IF b > 0 THEN b ELSE 0
  BY DEF Positive, Explained
<1>2. [b \in DOMAIN s.blocks |-> s.blocks[b] * (IF b > 0 THEN b ELSE 0)]
        = [b \in DOMAIN s.blocks |-> s.blocks[b] * Positive(Int)[b]]
  BY <1>1
<1> QED
  BY <1>2 DEF Explained, Total, Weight

\* The block sizes main prints account for the bytes it prints, whatever the
\* constants are: a failed call is among the blocks and adds no bytes
\* (file_stat_incr_rw, merge_blocks).
THEOREM BlocksAlwaysExplain == Spec => []BlocksExplainBytes
<1>1. Init => AllExplained
  <2>1. FilesExplained(file_stat_create)
    BY FreshExplained DEF FilesExplained, file_stat_create, init_file_stat
  <2> QED
    BY <2>1 DEF Init, AllExplained
<1>2. AllExplained => BlocksExplainBytes
  <2> SUFFICES ASSUME AllExplained, NEW f \in DOMAIN main_file_stat_table, NEW op \in {"read", "write"}
               PROVE  LET s == main_file_stat_table[f][op] IN
                      s.total_b = Total(s.blocks, LAMBDA b : IF b > 0 THEN b ELSE 0)
    BY DEF BlocksExplainBytes
  <2>1. Explained(main_file_stat_table[f][op])
    BY DEF AllExplained, FilesExplained
  <2> QED
    BY <2>1, ExplainedTotal
<1> QED
  BY <1>1, <1>2, TypeCorrect, ExplainedStep, PTL DEF Spec

-----------------------------------------------------------------------------
(* The names of syscalls.                                                  *)

\* NamesOf unfolds by its definition.
LEMMA NamesUnfolded ==
  \A i \in 0 .. Len(Rows) :
    NamesOf[i] = IF i = 0 THEN <<>> ELSE AddRow(NamesOf[i - 1], Rows[i])
<1> DEFINE L == Len(Rows)
           Upto(F, n) == F = [i \in 0 .. n |-> IF i = 0 THEN <<>> ELSE AddRow(F[i - 1], Rows[i])]
           G == {n \in Nat : \E F : Upto(F, n)}
<1>1. L \in Nat
  BY FileStatsAssumption
<1> HIDE DEF L
<1>2. 0 \in G
  <2>1. Upto([i \in 0 .. 0 |-> <<>>], 0)
    OBVIOUS
  <2> QED
    BY <2>1
<1>3. ASSUME NEW n \in Nat, n \in G PROVE n + 1 \in G
  <2>1. PICK F : Upto(F, n)
    BY <1>3
  <2> DEFINE H == [i \in 0 .. n + 1 |-> IF i = 0 THEN <<>> ELSE AddRow(F[i - 1], Rows[i])]
  <2>2. \A i \in 0 .. n : i \in 0 .. n + 1 /\ H[i] = F[i]
    BY <2>1
  <2>3. \A i \in 0 .. n + 1 : i # 0 => i - 1 \in 0 .. n
    OBVIOUS
  <2>4. \A i \in 0 .. n + 1 : H[i] = IF i = 0 THEN <<>> ELSE AddRow(H[i - 1], Rows[i])
    BY <2>2, <2>3
  <2>5. H = [i \in 0 .. n + 1 |-> H[i]]
    OBVIOUS
  <2> HIDE DEF H
  <2>6. Upto(H, n + 1)
    BY <2>4, <2>5
  <2> HIDE DEF Upto
  <2> QED
    BY <2>6
<1> HIDE DEF G
<1>4. \A n \in Nat : n \in G
  BY <1>2, <1>3, NatSetInduction
<1>5. \E F : Upto(F, L)
  BY <1>1, <1>4 DEF G
<1>6. Upto(NamesOf, L)
  BY <1>5 DEF NamesOf, L
<1> QED
  BY <1>6 DEF L

\* What the array may hold.
Names == {UNDEFINED_SYSCALL} \cup {Rows[i].name : i \in DOMAIN Rows}

\* What the array holds after i rows: all numbers up to that of row i, named as
\* the rows have it.
Named(names, i) ==
  /\ names \in Seq(Names)
  /\ Len(names) = IF i = 0 THEN 0 ELSE Rows[i].nr + 1
  /\ \A k \in 1 .. Len(names) :
       \/ \E j \in 1 .. i : Rows[j].nr = k - 1 /\ names[k] = Rows[j].name
       \/ (\A j \in 1 .. i : Rows[j].nr # k - 1) /\ names[k] = UNDEFINED_SYSCALL

\* A row more leaves the names there are, fills the gap and adds its own.
LEMMA RowNamed ==
  ASSUME NEW i \in 1 .. Len(Rows), NEW names, Named(names, i - 1)
  PROVE  Named(AddRow(names, Rows[i]), i)
<1> DEFINE nr == Rows[i].nr
           m == nr - Len(names)
           fill == [k \in 1 .. m |-> UNDEFINED_SYSCALL]
           last == <<Rows[i].name>>
           r == names \o fill \o last
<1>1. /\ DOMAIN Rows = 1 .. Len(Rows) /\ Len(Rows) \in Nat
      /\ \A j \in 1 .. Len(Rows) : Rows[j].nr \in Nat
      /\ \A j \in 1 .. i - 1 : j \in 1 .. Len(Rows) /\ Rows[j].nr < nr
  <2>1. DOMAIN Rows = 1 .. Len(Rows) /\ Len(Rows) \in Nat
    BY FileStatsAssumption
  <2>2. \A j \in 1 .. i - 1 : j \in 1 .. Len(Rows) /\ j < i
    BY <2>1
  <2> QED
    BY <2>1, <2>2, FileStatsAssumption
<1>2. names \in Seq(Names) /\ Len(names) \in Nat
  BY DEF Named
<1>3. Len(names) <= nr /\ m \in Nat /\ nr \in Nat
  <2>1. nr \in Nat
    BY <1>1
  <2>2. CASE i = 1
    BY <1>2, <2>1, <2>2 DEF Named
  <2>3. CASE i # 1
    <3>1. i - 1 \in 1 .. i - 1
      BY <2>3
    <3>2. Rows[i - 1].nr < nr /\ Rows[i - 1].nr \in Nat
      BY <1>1, <3>1
    <3>3. Len(names) = Rows[i - 1].nr + 1
      BY <2>3 DEF Named
    <3> HIDE DEF nr
    <3> QED
      BY <2>1, <3>2, <3>3
  <2> QED
    BY <2>2, <2>3
<1>4. UNDEFINED_SYSCALL \in Names /\ Rows[i].name \in Names
  BY <1>1 DEF Names
<1> HIDE DEF nr, m
<1>5. fill \in Seq(Names) /\ Len(fill) = m /\ \A k \in 1 .. m : fill[k] = UNDEFINED_SYSCALL
  BY <1>3, <1>4
<1>6. last \in Seq(Names) /\ Len(last) = 1 /\ last[1] = Rows[i].name
  BY <1>4
<1> HIDE DEF fill, last
<1>7. /\ r \in Seq(Names) /\ Len(r) = Len(names) + m + 1
      /\ \A k \in 1 .. Len(names) : r[k] = names[k]
      /\ \A k \in 1 .. m : r[Len(names) + k] = UNDEFINED_SYSCALL
      /\ r[Len(names) + m + 1] = Rows[i].name
  <2> DEFINE q == names \o fill
  <2>1. /\ q \in Seq(Names) /\ Len(q) = Len(names) + m
        /\ \A k \in 1 .. Len(names) : q[k] = names[k]
        /\ \A k \in 1 .. m : q[Len(names) + k] = fill[k]
    BY <1>2, <1>3, <1>5
  <2> HIDE DEF q
  <2>2. /\ q \o last \in Seq(Names) /\ Len(q \o last) = Len(names) + m + 1
        /\ \A k \in 1 .. Len(names) + m : (q \o last)[k] = q[k]
        /\ (q \o last)[Len(names) + m + 1] = Rows[i].name
    <3>1. Len(names) + m \in Nat /\ Len(q) = Len(names) + m /\ q \in Seq(Names)
      BY <1>2, <1>3, <2>1
    <3> DEFINE len == Len(names) + m
    <3> HIDE DEF len
    <3>2. len \in Nat /\ Len(q) = len /\ q \in Seq(Names)
      BY <3>1 DEF len
    <3>3. /\ q \o last \in Seq(Names)
          /\ Len(q \o last) = Len(q) + Len(last)
          /\ \A k \in 1 .. Len(q) + Len(last) :
               (q \o last)[k] = IF k <= Len(q) THEN q[k] ELSE last[k - Len(q)]
      BY <1>6, <3>2, ConcatProperties, Zenon
    <3>4. Len(q) = len /\ Len(last) = 1 /\ (len + 1) - len = 1
      BY <1>6, <3>2
    <3>5. Len(q \o last) = len + 1
      BY <3>3, <3>4
    <3>6. \A k \in 1 .. len : k \in 1 .. len + 1 /\ k <= len
      BY <3>2
    <3>7. \A k \in 1 .. len : (q \o last)[k] = q[k]
      BY <3>3, <3>4, <3>6
    <3>8. len + 1 \in 1 .. len + 1 /\ ~(len + 1 <= len)
      BY <3>2
    <3>9. (q \o last)[len + 1] = last[1]
      BY <3>3, <3>4, <3>8
    <3> QED
      BY <1>6, <3>3, <3>5, <3>7, <3>9 DEF len
  <2>3. /\ \A k \in 1 .. Len(names) : k \in 1 .. Len(names) + m
        /\ \A k \in 1 .. m : Len(names) + k \in 1 .. Len(names) + m
    BY <1>2, <1>3
  <2>4. r = q \o last
    BY DEF q
  <2> HIDE DEF r
  <2> QED
    BY <1>5, <2>1, <2>2, <2>3, <2>4
<1>8. Len(names) + m + 1 = nr + 1
  BY <1>2, <1>3 DEF m
<1> HIDE DEF r
<1>9. ASSUME NEW k \in 1 .. nr + 1
      PROVE  \/ \E j \in 1 .. i : Rows[j].nr = k - 1 /\ r[k] = Rows[j].name
             \/ (\A j \in 1 .. i : Rows[j].nr # k - 1) /\ r[k] = UNDEFINED_SYSCALL
  <2>0. /\ i \in 1 .. i /\ nr = Rows[i].nr
        /\ \A j \in 1 .. i : j = i \/ j \in 1 .. i - 1
        /\ \A j \in 1 .. i - 1 : j \in 1 .. i
    BY DEF nr
  <2>1. CASE k \in 1 .. Len(names)
    <3>1. r[k] = names[k] /\ k - 1 # nr
      BY <1>2, <1>3, <1>7, <2>1
    <3>2. \/ \E j \in 1 .. i - 1 : Rows[j].nr = k - 1 /\ names[k] = Rows[j].name
          \/ (\A j \in 1 .. i - 1 : Rows[j].nr # k - 1) /\ names[k] = UNDEFINED_SYSCALL
      BY <2>1 DEF Named
    <3> QED
      BY <2>0, <3>1, <3>2
  <2>2. CASE k = nr + 1
    <3>1. r[k] = Rows[i].name
      BY <1>7, <1>8, <2>2
    <3>2. nr = k - 1
      BY <1>3, <2>2
    <3> QED
      BY <2>0, <3>1, <3>2
  <2>3. CASE k \notin 1 .. Len(names) /\ k # nr + 1
    <3>1. k - Len(names) \in 1 .. m /\ Len(names) + (k - Len(names)) = k
      BY <1>2, <1>3, <1>8, <2>3
    <3>2. r[k] = UNDEFINED_SYSCALL
      BY <1>7, <3>1
    <3>3. \A j \in 1 .. i - 1 : Rows[j].nr < Len(names)
      <4> SUFFICES ASSUME NEW j \in 1 .. i - 1 PROVE Rows[j].nr < Len(names)
        OBVIOUS
      <4>1. i - 1 \in 1 .. Len(Rows) /\ i - 1 # 0 /\ j \in 1 .. Len(Rows) /\ j <= i - 1
        BY <1>1
      <4>2. Rows[j].nr <= Rows[i - 1].nr
        <5>1. Rows[j].nr \in Nat /\ Rows[i - 1].nr \in Nat
          BY <1>1, <4>1
        <5>2. CASE j = i - 1
          BY <5>1, <5>2
        <5>3. CASE j < i - 1
          <6>1. Rows[j].nr < Rows[i - 1].nr
            BY <1>1, <4>1, <5>3, FileStatsAssumption
          <6> QED
            BY <5>1, <6>1
        <5> QED
          BY <4>1, <5>2, <5>3
      <4>3. Len(names) = Rows[i - 1].nr + 1
        BY <4>1 DEF Named
      <4> QED
        BY <1>1, <4>1, <4>2, <4>3
    <3>4. k - 1 >= Len(names) /\ k - 1 # nr
      BY <1>2, <1>3, <2>3
    <3>5. \A j \in 1 .. i - 1 : Rows[j].nr # k - 1
      <4> TAKE j \in 1 .. i - 1
      <4>1. Rows[j].nr < Len(names) /\ Rows[j].nr \in Nat
        BY <1>1, <3>3
      <4> QED
        BY <1>2, <3>4, <4>1
    <3> QED
      BY <2>0, <3>2, <3>4, <3>5
  <2> QED
    BY <2>1, <2>2, <2>3
<1>10. Len(r) = nr + 1
  BY <1>7, <1>8
<1>11. Named(r, i)
  BY <1>7, <1>9, <1>10 DEF Named, nr
<1> QED
  BY <1>11 DEF r, AddRow, fill, last, m, nr

\* So after every row the array holds what it should.
LEMMA NamesBuilt == \A i \in 0 .. Len(Rows) : Named(NamesOf[i], i)
<1> DEFINE G == {i \in Nat : i <= Len(Rows) => Named(NamesOf[i], i)}
<1>0. Len(Rows) \in Nat
  BY FileStatsAssumption
<1>1. 0 \in G
  <2>1. NamesOf[0] = <<>>
    BY <1>0, NamesUnfolded
  <2>2. <<>> \in Seq(Names) /\ Len(<<>>) = 0
    OBVIOUS
  <2>3. \A k : k \notin 1 .. 0
    OBVIOUS
  <2>4. Named(<<>>, 0)
    BY <2>2, <2>3 DEF Named
  <2> QED
    BY <2>1, <2>4
<1>2. ASSUME NEW i \in Nat, i \in G PROVE i + 1 \in G
  <2> SUFFICES ASSUME i + 1 <= Len(Rows) PROVE Named(NamesOf[i + 1], i + 1)
    OBVIOUS
  <2>1. Named(NamesOf[i], i)
    BY <1>0, <1>2
  <2>2. i + 1 \in 0 .. Len(Rows) /\ i + 1 # 0 /\ (i + 1) - 1 = i /\ i + 1 \in 1 .. Len(Rows)
    BY <1>0
  <2>3. NamesOf[i + 1] = AddRow(NamesOf[i], Rows[i + 1])
    BY <2>2, NamesUnfolded
  <2>4. Named(AddRow(NamesOf[i], Rows[i + 1]), i + 1)
    BY <2>1, <2>2, RowNamed
  <2> QED
    BY <2>3, <2>4
<1> HIDE DEF G
<1>3. \A i \in Nat : i \in G
  BY <1>1, <1>2, NatSetInduction
<1> QED
  BY <1>0, <1>3 DEF G

\* Every syscall below the last row is named as the table of the kernel names it,
\* whatever gaps the table has (syscall_parser.sh).
THEOREM NamesAreExact == BelowLast => NamesExact
<1> SUFFICES ASSUME BelowLast, NEW c \in Sc PROVE NameOf(c) \in RowNames(c)
  BY DEF NamesExact
<1> DEFINE n == Len(Rows) - 1
           names == NamesOf[n]
           rows == {row \in Values(Rows) : row.nr = c}
<1>1. /\ Len(Rows) \in Nat /\ DOMAIN Rows = 1 .. Len(Rows)
      /\ n \in Nat /\ n # 0 /\ n \in 0 .. Len(Rows) /\ n \in 1 .. Len(Rows)
  BY FileStatsAssumption DEF BelowLast
<1>2. Rows[n].nr \in Nat /\ c \in 0 .. Rows[n].nr
  BY <1>1, FileStatsAssumption DEF BelowLast
<1>3. Named(names, n)
  BY <1>1, NamesBuilt
<1>4. NameOf(c) = names[c + 1]
  BY DEF NameOf, syscall_names
<1>5. Values(Rows) = {Rows[j] : j \in 1 .. Len(Rows)}
  BY <1>1 DEF Values
<1> HIDE DEF names
<1>6. c + 1 \in 1 .. Len(names) /\ (c + 1) - 1 = c
  BY <1>1, <1>2, <1>3 DEF Named
<1>7. CASE \E j \in 1 .. n : Rows[j].nr = c /\ names[c + 1] = Rows[j].name
  <2>1. PICK j \in 1 .. n : Rows[j].nr = c /\ names[c + 1] = Rows[j].name
    BY <1>7
  <2>2. j \in 1 .. Len(Rows)
    BY <1>1
  <2>3. Rows[j] \in rows
    BY <1>5, <2>1, <2>2
  <2> QED
    BY <1>4, <2>1, <2>3 DEF RowNames
<1>8. CASE (\A j \in 1 .. n : Rows[j].nr # c) /\ names[c + 1] = UNDEFINED_SYSCALL
  <2>1. \A j \in 1 .. Len(Rows) : Rows[j].nr # c
    <3> TAKE j \in 1 .. Len(Rows)
    <3>1. CASE j \in 1 .. n
      BY <1>8, <3>1
    <3>2. CASE j \notin 1 .. n
      <4>1. n < j
        BY <1>1, <3>2
      <4>2. Rows[n].nr < Rows[j].nr /\ Rows[j].nr \in Nat
        BY <1>1, <4>1, FileStatsAssumption
      <4> QED
        BY <1>2, <4>2
    <3> QED
      BY <3>1, <3>2
  <2>2. rows = {}
    BY <1>5, <2>1
  <2> QED
    BY <1>4, <1>8, <2>2 DEF RowNames
<1>9. \/ \E j \in 1 .. n : Rows[j].nr = c /\ names[c + 1] = Rows[j].name
      \/ (\A j \in 1 .. n : Rows[j].nr # c) /\ names[c + 1] = UNDEFINED_SYSCALL
  BY <1>3, <1>6 DEF Named
<1> QED
  BY <1>7, <1>8, <1>9

-----------------------------------------------------------------------------
(* The document.  Read as the README says, it gives back the tables it was  *)
(* written from, whatever order the hash tables were walked in.            *)

\* The pairs of size and number are the table of block sizes.
LEMMA BlocksReadBack ==
  ASSUME NEW b, IsABag(b)
  PROVE  LET pairs == Values(builder_add_blocks(b)) IN
         b = [k \in {e[1] : e \in pairs} |-> (CHOOSE e \in pairs : e[1] = k)[2]]
<1> DEFINE pairs == Values(builder_add_blocks(b))
           At(k) == CHOOSE e \in pairs : e[1] = k
<1>1. pairs = {<<k, b[k]>> : k \in DOMAIN b}
  BY DEF Values, builder_add_blocks
<1> HIDE DEF pairs
<1>2. {e[1] : e \in pairs} = DOMAIN b
  <2>1. \A k \in DOMAIN b : <<k, b[k]>> \in pairs /\ <<k, b[k]>>[1] = k
    BY <1>1
  <2>2. \A e \in pairs : e[1] \in DOMAIN b
    BY <1>1
  <2> QED
    BY <2>1, <2>2
<1>3. ASSUME NEW k \in DOMAIN b PROVE At(k)[2] = b[k]
  <2>1. \E e \in pairs : e[1] = k
    BY <1>2
  <2>2. At(k) \in pairs /\ At(k)[1] = k
    BY <2>1
  <2> HIDE DEF At
  <2> QED
    BY <1>1, <2>2
<1>4. b = [k \in DOMAIN b |-> b[k]]
  BY DEF IsABag
<1> HIDE DEF At
<1>5. b = [k \in {e[1] : e \in pairs} |-> At(k)[2]]
  BY <1>2, <1>3, <1>4
<1> QED
  BY <1>5 DEF pairs, At

\* Statistics of read or write are read back as they were written.
LEMMA ReadWriteReadBack ==
  ASSUME NEW s, IsReadWrite(s)
  PROVE  ReadWriteRead(builder_add_read_write(s), builder_add_blocks(s.blocks)) = s
<1> DEFINE pairs == Values(builder_add_blocks(s.blocks))
           b == [k \in {e[1] : e \in pairs} |-> (CHOOSE e \in pairs : e[1] = k)[2]]
<1>1. s.blocks = b
  BY BlocksReadBack DEF IsReadWrite
<1>2. ReadWriteRead(builder_add_read_write(s), builder_add_blocks(s.blocks))
        = [total_b |-> s.total_b, total_ns |-> s.total_ns, min_bps |-> s.min_bps,
           max_bps |-> s.max_bps, blocks |-> b]
  BY DEF ReadWriteRead, builder_add_read_write
<1> HIDE DEF b
<1> QED
  BY <1>1, <1>2 DEF IsReadWrite

\* What is written of a table of files gives back the table
\* (builder_add_file_stats).
THEOREM FilesReadBack ==
  ASSUME NEW T, IsFileTable(T)
  PROVE  FilesRead(builder_add_file_stats(T)) = T
<1> DEFINE objects == builder_add_file_stats(T)
           At(f) == CHOOSE o \in Values(objects) : o.filename = f
           Read(o) == [open |-> OpenCloseRead(o.open), close |-> OpenCloseRead(o.close),
                       read |-> ReadWriteRead(o.read, o.read_blocks),
                       write |-> ReadWriteRead(o.write, o.write_blocks)]
<1>1. DOMAIN objects = DOMAIN T /\ \A f \in DOMAIN T : objects[f].filename = f
  BY DEF builder_add_file_stats
<1>2. Values(objects) = {objects[f] : f \in DOMAIN T}
  BY <1>1 DEF Values
<1>3. ASSUME NEW f \in DOMAIN T PROVE Read(objects[f]) = T[f]
  <2>1. IsFileStat(T[f])
    BY DEF IsFileTable
  <2>2. /\ objects[f].open = builder_add_open_close(T[f].open)
        /\ objects[f].close = builder_add_open_close(T[f].close)
        /\ objects[f].read = builder_add_read_write(T[f].read)
        /\ objects[f].read_blocks = builder_add_blocks(T[f].read.blocks)
        /\ objects[f].write = builder_add_read_write(T[f].write)
        /\ objects[f].write_blocks = builder_add_blocks(T[f].write.blocks)
    BY DEF builder_add_file_stats
  <2>3. \A s \in OpenClose : OpenCloseRead(builder_add_open_close(s)) = s
    BY DEF OpenClose, OpenCloseRead, builder_add_open_close
  <2>4. /\ OpenCloseRead(objects[f].open) = T[f].open
        /\ OpenCloseRead(objects[f].close) = T[f].close
    BY <2>1, <2>2, <2>3 DEF IsFileStat
  <2>5. /\ ReadWriteRead(objects[f].read, objects[f].read_blocks) = T[f].read
        /\ ReadWriteRead(objects[f].write, objects[f].write_blocks) = T[f].write
    BY <2>1, <2>2, ReadWriteReadBack DEF IsFileStat
  <2> HIDE DEF objects
  <2>6. Read(objects[f]) = [open |-> T[f].open, close |-> T[f].close,
                            read |-> T[f].read, write |-> T[f].write]
    BY <2>4, <2>5
  <2> HIDE DEF Read
  <2> QED
    BY <2>1, <2>6 DEF IsFileStat
<1>4. FilesRead(objects) = [f \in {o.filename : o \in Values(objects)} |-> Read(At(f))]
  BY DEF FilesRead
<1>5. T = [f \in DOMAIN T |-> T[f]]
  BY DEF IsFileTable
<1> HIDE DEF objects, Read
<1>6. {o.filename : o \in Values(objects)} = DOMAIN T
  <2>1. \A o \in Values(objects) : o.filename \in DOMAIN T
    BY <1>1, <1>2
  <2>2. \A f \in DOMAIN T : objects[f] \in Values(objects) /\ objects[f].filename = f
    BY <1>1, <1>2
  <2> QED
    BY <2>1, <2>2
<1>7. ASSUME NEW f \in DOMAIN T PROVE At(f) = objects[f]
  <2>1. \E o \in Values(objects) : o.filename = f
    BY <1>1, <1>2
  <2>2. At(f) \in Values(objects) /\ At(f).filename = f
    BY <2>1
  <2> HIDE DEF At
  <2> QED
    BY <1>1, <1>2, <2>2
<1> HIDE DEF At
<1>8. FilesRead(objects) = T
  BY <1>3, <1>4, <1>5, <1>6, <1>7
<1> QED
  BY <1>8 DEF objects

\* Once written, the document is what the tables of main hold: no thread is left
\* that could still count or merge (main_tracer joins them all first).
DocumentKept ==
  \/ json \in {<<>>, <<"error">>}
  \/ /\ merged_sys = Thread
     /\ json = <<"document", builder_add_file_stats(main_file_stat_table),
                             builder_add_syscall_stats(main_syscall_table)>>

\* Every step keeps the document.
LEMMA DocumentStep == TypeOK /\ DocumentKept /\ [Next]_vars => DocumentKept'
<1> SUFFICES ASSUME TypeOK, DocumentKept, [Next]_vars PROVE DocumentKept'
  OBVIOUS
<1> USE DEF DocumentKept
<1>1. ASSUME NEW t \in Thread, Alive(t), UNCHANGED json PROVE DocumentKept'
  <2>1. merged_sys # Thread
    BY <1>1 DEF TypeOK, Alive
  <2> QED
    BY <1>1, <2>1
<1>2. ASSUME NEW t \in Thread, NEW f \in File, NEW ns \in Ns,
             file_stat_incr_open(t, f, ns) \/ file_stat_incr_close(t, f, ns)
      PROVE  DocumentKept'
  <2>1. Alive(t) /\ UNCHANGED json
    BY <1>2 DEF file_stat_incr_open, file_stat_incr_close, Count
  <2> QED
    BY <1>1, <2>1
<1>3. ASSUME NEW t \in Thread, NEW f \in File, NEW ns \in Ns, NEW b \in Bytes,
             file_stat_incr_read(t, f, ns, b) \/ file_stat_incr_write(t, f, ns, b)
      PROVE  DocumentKept'
  <2>1. Alive(t) /\ UNCHANGED json
    BY <1>3 DEF file_stat_incr_read, file_stat_incr_write, Count
  <2> QED
    BY <1>1, <2>1
<1>4. ASSUME NEW t \in Thread, NEW c \in Sc, NEW ns \in Ns, syscall_stat_incr(t, c, ns)
      PROVE  DocumentKept'
  BY <1>1, <1>4 DEF syscall_stat_incr
<1>5. ASSUME NEW t \in Thread, file_state_merge(t) PROVE DocumentKept'
  BY <1>1, <1>5 DEF file_state_merge
<1>6. ASSUME NEW t \in Thread, syscall_stat_merge(t) PROVE DocumentKept'
  <2>1. merged_sys # Thread /\ UNCHANGED json
    BY <1>6 DEF syscall_stat_merge
  <2> QED
    BY <2>1
<1>7. CASE print_stats_as_json
  BY <1>7 DEF print_stats_as_json, fvars, svars
<1>8. CASE UNCHANGED vars
  BY <1>8 DEF vars, fvars, svars
<1> QED
  BY <1>2, <1>3, <1>4, <1>5, <1>6, <1>7, <1>8 DEF Next, Counted

\* A document written from exact tables, with exact names, is exact.
LEMMA DocumentExact ==
  ASSUME NamesExact, TypeOK, DocumentKept, MainExact
  PROVE  JsonExact
<1> SUFFICES ASSUME json # <<>>, json[1] = "document" PROVE JsonExact
  BY DEF JsonExact
<1> DEFINE stats == SyscallsOf(LogOf(Thread))
<1>1. /\ merged_sys = Thread
      /\ json = <<"document", builder_add_file_stats(main_file_stat_table),
                              builder_add_syscall_stats(main_syscall_table)>>
  BY DEF DocumentKept
<1>2. merged_file = Thread
  BY <1>1 DEF TypeOK
<1>3. main_file_stat_table = FilesOf(LogOf(Thread)) /\ main_syscall_table = stats
  BY <1>1, <1>2 DEF MainExact
<1> HIDE DEF stats
<1>4. FilesRead(json[2]) = FilesOf(LogOf(Thread))
  <2>1. FilesRead(builder_add_file_stats(main_file_stat_table)) = main_file_stat_table
    BY FilesReadBack DEF TypeOK
  <2>2. json[2] = builder_add_file_stats(main_file_stat_table)
    BY <1>1
  <2> QED
    BY <1>3, <2>1, <2>2
<1>5. json[3] = [c \in DOMAIN stats |-> [syscall |-> NameOf(c), count |-> stats[c].count,
                                        total_ns |-> stats[c].total_ns]]
  BY <1>1, <1>3 DEF builder_add_syscall_stats
<1>6. DOMAIN stats \subseteq Sc
  BY <1>3 DEF TypeOK, IsSyscallTable
<1>7. \A c \in DOMAIN stats : NameOf(c) \in RowNames(c)
  BY <1>6 DEF NamesExact
<1>8. DOMAIN json[3] = DOMAIN stats
  BY <1>5
<1>9. \A c \in DOMAIN json[3] :
         json[3][c] \in [syscall : RowNames(c), count : {stats[c].count},
                         total_ns : {stats[c].total_ns}]
  BY <1>5, <1>7, <1>8
<1> QED
  BY <1>4, <1>8, <1>9 DEF JsonExact, stats

\* A document that is written holds the statistics of all the syscalls of all the
\* threads and names every other syscall as the kernel's table does: the tables of
\* main are exact by then, writing them loses nothing and comes after the last
\* merge (print_stats_as_json).
THEOREM JsonCorrect == BelowInitials /\ BelowLast => (Spec => []JsonExact)
<1> SUFFICES ASSUME BelowInitials, BelowLast PROVE Spec => []JsonExact
  OBVIOUS
<1>1. Init => DocumentKept
  BY DEF Init, DocumentKept
<1>2. NamesExact
  BY NamesAreExact
<1>3. TypeOK /\ DocumentKept /\ MainExact => JsonExact
  BY <1>2, DocumentExact
<1>4. Spec => []TypeOK
  BY TypeCorrect
<1>5. Spec => []MainExact
  BY MainCountsExactly
<1>6. Spec => []DocumentKept
  BY <1>1, <1>4, DocumentStep, PTL DEF Spec
<1> QED
  BY <1>3, <1>4, <1>5, <1>6, PTL
=============================================================================
