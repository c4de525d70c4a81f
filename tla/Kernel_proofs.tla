--------------------------- MODULE Kernel_proofs ---------------------------
(***************************************************************************)
(* Proofs about Kernel, for every set of tasks, number of priorities, tick *)
(* length and bound.  First, what the queue operators of TaskQueue return. *)
(* Then KernelInv, which is inductive, and the properties of Kernel that   *)
(* follow from it.  Last, that Kernel implements PreemptiveScheduler.      *)
(***************************************************************************)
EXTENDS Kernel, FiniteSetTheorems, SequenceTheorems, WellFoundedInduction, TLAPS

(***************************************************************************)
(* Queues.  Ranks: the k-th smallest index of a finite set I of indices is *)
(* the i in I with k elements of I up to i.                                *)
(***************************************************************************)

Rank(I, i) == Cardinality(I \cap (1..i))

(* The rank of an index is a position in 1..|I|. *)
LEMMA RankType ==
  ASSUME NEW n \in Nat, NEW I \in SUBSET (1..n)
  PROVE  /\ IsFiniteSet(I) /\ Cardinality(I) \in Nat
         /\ \A i \in I : Rank(I, i) \in 1..Cardinality(I)
<1>1. IsFiniteSet(I) /\ Cardinality(I) \in Nat
  <2>1. IsFiniteSet(1..n)
    BY FS_Interval, 1 \in Int, n \in Int
  <2> QED BY <2>1, FS_Subset, FS_CardinalityType
<1>2. ASSUME NEW i \in I PROVE Rank(I, i) \in 1..Cardinality(I)
  <2>1. /\ IsFiniteSet(I \cap (1..i))
        /\ Cardinality(I \cap (1..i)) <= Cardinality(I)
    BY <1>1, FS_Subset
  <2>2. Cardinality(I \cap (1..i)) \in Nat
    BY <2>1, FS_CardinalityType
  <2>3. i \in I \cap (1..i)
    BY <1>2
  <2>4. Cardinality(I \cap (1..i)) # 0
    BY <2>1, <2>3, FS_EmptySet
  <2> QED BY <1>1, <2>1, <2>2, <2>4 DEF Rank
<1> QED BY <1>1, <1>2

(* A larger index has a larger rank. *)
LEMMA RankMonotonic ==
  ASSUME NEW n \in Nat, NEW I \in SUBSET (1..n), NEW i \in I, NEW j \in I, i < j
  PROVE  Rank(I, i) < Rank(I, j)
<1> DEFINE A == I \cap (1..i)
           B == I \cap (1..j)
<1>1. IsFiniteSet(I)
  BY RankType
<1>2. IsFiniteSet(A) /\ IsFiniteSet(B)
  BY <1>1, FS_Subset
<1>3. A \in SUBSET B
  OBVIOUS
<1>4. Cardinality(A) <= Cardinality(B) /\ (Cardinality(B) = Cardinality(A) => B = A)
  <2> HIDE DEF A, B
  <2> QED BY <1>2, <1>3, FS_Subset
<1>5. j \in B /\ j \notin A
  OBVIOUS
<1>6. Cardinality(A) \in Nat /\ Cardinality(B) \in Nat
  <2> HIDE DEF A, B
  <2> QED BY <1>2, FS_CardinalityType
<1>7. Cardinality(A) < Cardinality(B)
  <2> HIDE DEF A, B
  <2> QED BY <1>4, <1>5, <1>6
<1> QED BY <1>7 DEF Rank

(* Every position has its index: an injection between finite sets of the   *)
(* same size is onto.                                                      *)
LEMMA RankOnto ==
  ASSUME NEW n \in Nat, NEW I \in SUBSET (1..n), NEW k \in 1..Cardinality(I)
  PROVE  \E i \in I : Rank(I, i) = k
<1> DEFINE K == 1..Cardinality(I)
           f == [i \in I |-> Rank(I, i)]
<1>1. IsFiniteSet(I) /\ Cardinality(I) \in Nat /\ \A i \in I : Rank(I, i) \in K
  BY RankType
<1>2. f \in [I -> K]
  BY <1>1
<1>3. ASSUME NEW a \in I, NEW b \in I, f[a] = f[b] PROVE a = b
  <2>1. a \in Int /\ b \in Int
    OBVIOUS
  <2>2. Rank(I, a) = Rank(I, b) /\ Rank(I, a) \in Int
    BY <1>1, <1>3
  <2>3. (a < b => Rank(I, a) < Rank(I, b)) /\ (b < a => Rank(I, b) < Rank(I, a))
    BY RankMonotonic
  <2> QED BY <2>1, <2>2, <2>3
<1>4. f \in Injection(I, K)
  BY <1>2, <1>3 DEF Injection, IsInjective
<1>5. IsFiniteSet(K) /\ Cardinality(K) = Cardinality(I)
  BY <1>1, FS_Interval
<1>6. f \in Surjection(I, K)
  <2> HIDE DEF f, K
  <2> QED BY <1>1, <1>4, <1>5, FS_Injection
<1>7. \E i \in I : f[i] = k
  <2>1. \A y \in K : \E i \in I : f[i] = y
    <3> HIDE DEF f, K
    <3> QED BY <1>6 DEF Surjection
  <2> QED BY <2>1
<1> QED BY <1>7

(* Entries picks the entries of q that are in U, each as often as q holds  *)
(* it: it stays a sequence of the same kind, loses nothing, invents        *)
(* nothing and duplicates nothing.                                         *)
THEOREM EntriesProperties ==
  ASSUME NEW S, NEW q \in Seq(S), NEW U
  PROVE  /\ Entries(q, U) \in Seq(S)
         /\ Range(Entries(q, U)) = Range(q) \cap U
         /\ NoDuplicates(q) => NoDuplicates(Entries(q, U))
<1> DEFINE I == {i \in 1..Len(q) : q[i] \in U}
           at(k) == CHOOSE i \in I : Rank(I, i) = k
           e == Entries(q, U)
<1>1. Len(q) \in Nat /\ I \in SUBSET (1..Len(q)) /\ DOMAIN q = 1..Len(q)
      /\ \A i \in 1..Len(q) : q[i] \in S
  BY LenProperties, ElementOfSeq
<1>2. Cardinality(I) \in Nat
  <2> HIDE DEF I
  <2> QED BY <1>1, RankType
<1>3. e = [k \in 1..Cardinality(I) |-> q[at(k)]]
  BY DEF Entries, Rank
<1>4. ASSUME NEW k \in 1..Cardinality(I)
      PROVE  at(k) \in I /\ Rank(I, at(k)) = k
  <2>1. \E i \in I : Rank(I, i) = k
    <3> HIDE DEF I
    <3> QED BY <1>1, RankOnto
  <2> HIDE DEF I
  <2> QED BY <2>1
<1>5. \A k \in 1..Cardinality(I) : q[at(k)] \in S
  BY <1>1, <1>4
<1>6. e \in Seq(S) /\ Len(e) = Cardinality(I) /\ DOMAIN e = 1..Cardinality(I)
  <2> HIDE DEF I, at, e
  <2>1. [k \in 1..Cardinality(I) |-> q[at(k)]] \in Seq(S)
    BY <1>2, <1>5, IsASeq
  <2> QED BY <1>2, <1>3, <2>1, LenProperties
<1>7. Range(e) = Range(q) \cap U
  <2>1. ASSUME NEW x \in Range(e) PROVE x \in Range(q) \cap U
    <3>1. PICK k \in 1..Cardinality(I) : x = e[k]
      BY <1>6, <2>1 DEF Range
    <3>2. x = q[at(k)] /\ at(k) \in I
      BY <1>3, <1>4, <3>1
    <3> QED BY <1>1, <3>2 DEF Range
  <2>2. ASSUME NEW x \in Range(q) \cap U PROVE x \in Range(e)
    <3>1. PICK i \in I : x = q[i]
      BY <1>1, <2>2 DEF Range
    <3>2. Rank(I, i) \in 1..Cardinality(I)
      <4> HIDE DEF I
      <4> QED BY <1>1, RankType
    <3>3. at(Rank(I, i)) = i
      <4>1. at(Rank(I, i)) \in I /\ Rank(I, at(Rank(I, i))) = Rank(I, i)
        BY <1>4, <3>2
      <4>2. /\ at(Rank(I, i)) < i => Rank(I, at(Rank(I, i))) < Rank(I, i)
            /\ i < at(Rank(I, i)) => Rank(I, i) < Rank(I, at(Rank(I, i)))
        <5> DEFINE j == at(Rank(I, i))
        <5>1. j \in I
          BY <4>1
        <5> HIDE DEF I, at, j
        <5>2. (j < i => Rank(I, j) < Rank(I, i)) /\ (i < j => Rank(I, i) < Rank(I, j))
          BY <1>1, <5>1, RankMonotonic
        <5> QED BY <5>2 DEF j
      <4>3. at(Rank(I, i)) \in Int /\ i \in Int /\ Rank(I, i) \in Int
        <5> HIDE DEF at
        <5> QED BY <3>2, <4>1
      <4> HIDE DEF I, at
      <4> QED BY <4>1, <4>2, <4>3
    <3>4. e[Rank(I, i)] = x
      BY <1>3, <3>1, <3>2, <3>3
    <3> QED BY <1>6, <3>2, <3>4 DEF Range
  <2> QED BY <2>1, <2>2
<1>8. ASSUME NoDuplicates(q) PROVE NoDuplicates(e)
  <2> SUFFICES ASSUME NEW k \in 1..Cardinality(I), NEW l \in 1..Cardinality(I), e[k] = e[l]
               PROVE  k = l
    BY <1>6 DEF NoDuplicates
  <2>1. q[at(k)] = q[at(l)]
    BY <1>3
  <2>2. at(k) = at(l)
    BY <1>1, <1>4, <1>8, <2>1 DEF NoDuplicates
  <2> QED BY <1>4, <2>2
<1> QED BY <1>6, <1>7, <1>8

(* Adding links one more TCB; it must not be linked already, or the queue  *)
(* would hold it twice.                                                    *)
THEOREM AddEntryProperties ==
  ASSUME NEW S, NEW q \in Seq(S), NEW t \in S
  PROVE  /\ tqueue_add_entry(q, t) \in Seq(S)
         /\ Range(tqueue_add_entry(q, t)) = Range(q) \cup {t}
         /\ NoDuplicates(q) /\ t \notin Range(q) => NoDuplicates(tqueue_add_entry(q, t))
<1> DEFINE a == Append(q, t)
<1>1. /\ a \in Seq(S) /\ Len(a) = Len(q) + 1 /\ Len(q) \in Nat
      /\ \A i \in 1..Len(q) : a[i] = q[i]
      /\ a[Len(q) + 1] = t
      /\ DOMAIN a = 1..(Len(q) + 1) /\ DOMAIN q = 1..Len(q)
  BY AppendProperties, LenProperties
<1>2. Range(a) = Range(q) \cup {t}
  <2> HIDE DEF a
  <2>1. Range(a) = {a[i] : i \in 1..(Len(q) + 1)} /\ Range(q) = {q[i] : i \in 1..Len(q)}
    BY <1>1 DEF Range
  <2>2. 1..(Len(q) + 1) = 1..Len(q) \cup {Len(q) + 1}
    BY <1>1
  <2> QED BY <1>1, <2>1, <2>2
<1>3. ASSUME NoDuplicates(q), t \notin Range(q) PROVE NoDuplicates(a)
  <2> HIDE DEF a
  <2>1. \A i \in 1..Len(q) : q[i] # t
    BY <1>1, <1>3 DEF Range
  <2> QED BY <1>1, <1>3, <2>1 DEF NoDuplicates
<1> QED BY <1>1, <1>2, <1>3 DEF tqueue_add_entry

(* Removing the top unlinks exactly the first TCB. *)
THEOREM RemoveTopProperties ==
  ASSUME NEW S, NEW q \in Seq(S)
  PROVE  /\ tqueue_remove_top(q) \in Seq(S)
         /\ NoDuplicates(q) => NoDuplicates(tqueue_remove_top(q))
         /\ NoDuplicates(q) /\ q # <<>> => Range(tqueue_remove_top(q)) = Range(q) \ {Head(q)}
<1>1. CASE q = <<>>
  BY <1>1 DEF tqueue_remove_top
<1>2. CASE q # <<>>
  <2> DEFINE r == Tail(q)
  <2>1. /\ r \in Seq(S) /\ Len(r) = Len(q) - 1 /\ Len(q) \in Nat /\ Len(q) > 0
        /\ \A i \in 1..Len(r) : r[i] = q[i + 1]
        /\ DOMAIN r = 1..Len(r) /\ DOMAIN q = 1..Len(q) /\ Head(q) = q[1]
    BY <1>2, HeadTailProperties, LenProperties, EmptySeq
  <2>2. ASSUME NoDuplicates(q) PROVE NoDuplicates(r)
    <3> HIDE DEF r
    <3> SUFFICES ASSUME NEW i \in 1..Len(r), NEW j \in 1..Len(r), r[i] = r[j] PROVE i = j
      BY DEF NoDuplicates
    <3>1. q[i + 1] = q[j + 1] /\ i + 1 \in 1..Len(q) /\ j + 1 \in 1..Len(q)
      BY <2>1
    <3>2. i + 1 = j + 1
      BY <2>2, <3>1 DEF NoDuplicates
    <3> QED BY <2>1, <3>2
  <2>3. ASSUME NoDuplicates(q) PROVE Range(r) = Range(q) \ {Head(q)}
    <3> HIDE DEF r
    <3>1. ASSUME NEW x \in Range(r) PROVE x \in Range(q) \ {Head(q)}
      <4>1. PICK i \in 1..Len(r) : x = q[i + 1]
        BY <2>1, <3>1 DEF Range
      <4>2. i + 1 \in 1..Len(q) /\ 1 \in 1..Len(q) /\ i + 1 # 1
        BY <2>1
      <4> QED BY <2>1, <2>3, <4>1, <4>2 DEF Range, NoDuplicates
    <3>2. ASSUME NEW x \in Range(q) \ {Head(q)} PROVE x \in Range(r)
      <4>1. PICK i \in 1..Len(q) : x = q[i]
        BY <2>1, <3>2 DEF Range
      <4>2. i - 1 \in 1..Len(r) /\ r[i - 1] = x
        BY <2>1, <3>2, <4>1
      <4> QED BY <2>1, <4>2 DEF Range
    <3> QED BY <3>1, <3>2
  <2> QED BY <1>2, <2>1, <2>2, <2>3 DEF tqueue_remove_top
<1> QED BY <1>1, <1>2

(* Removing an entry unlinks exactly that TCB. *)
THEOREM RemoveEntryProperties ==
  ASSUME NEW S, NEW q \in Seq(S), NEW t
  PROVE  /\ tqueue_remove_entry(q, t) \in Seq(S)
         /\ Range(tqueue_remove_entry(q, t)) = Range(q) \ {t}
         /\ NoDuplicates(q) => NoDuplicates(tqueue_remove_entry(q, t))
BY EntriesProperties DEF tqueue_remove_entry

(* Queues without a common TCB can be chained. *)
THEOREM ConcatQueueProperties ==
  ASSUME NEW S, NEW q \in Seq(S), NEW r \in Seq(S)
  PROVE  /\ q \o r \in Seq(S)
         /\ Range(q \o r) = Range(q) \cup Range(r)
         /\ NoDuplicates(q) /\ NoDuplicates(r) /\ Range(q) \cap Range(r) = {}
              => NoDuplicates(q \o r)
<1> DEFINE c == q \o r
<1>1. /\ c \in Seq(S) /\ Len(c) = Len(q) + Len(r) /\ Len(q) \in Nat /\ Len(r) \in Nat
      /\ \A i \in 1..(Len(q) + Len(r)) : c[i] = IF i <= Len(q) THEN q[i] ELSE r[i - Len(q)]
      /\ DOMAIN q = 1..Len(q) /\ DOMAIN r = 1..Len(r)
  BY ConcatProperties, LenProperties
<1>2. ASSUME NoDuplicates(q), NoDuplicates(r), Range(q) \cap Range(r) = {}
      PROVE  NoDuplicates(c)
  <2> HIDE DEF c
  <2> SUFFICES ASSUME NEW i \in 1..Len(c), NEW j \in 1..Len(c), c[i] = c[j] PROVE i = j
    BY DEF NoDuplicates
  <2>1. \A k \in 1..Len(c) : /\ k <= Len(q) => c[k] = q[k] /\ k \in 1..Len(q)
                             /\ ~(k <= Len(q)) => c[k] = r[k - Len(q)] /\ k - Len(q) \in 1..Len(r)
    BY <1>1
  <2>2. CASE i <= Len(q) /\ j <= Len(q)
    BY <1>2, <2>1, <2>2 DEF NoDuplicates
  <2>3. CASE ~(i <= Len(q)) /\ ~(j <= Len(q))
    <3>1. i - Len(q) = j - Len(q)
      BY <1>2, <2>1, <2>3 DEF NoDuplicates
    <3> QED BY <1>1, <3>1
  <2>4. CASE (i <= Len(q)) # (j <= Len(q))
    <3>1. \A k \in 1..Len(q), l \in 1..Len(r) : q[k] # r[l]
      BY <1>1, <1>2 DEF Range
    <3> QED BY <2>1, <2>4, <3>1
  <2> QED BY <2>2, <2>3, <2>4
<1> QED BY <1>1, <1>2, RangeConcatenation

(* A non-empty set of natural numbers has a least element. *)
LEMMA LeastElement ==
  ASSUME NEW U \in SUBSET Nat, U # {}
  PROVE  \E p \in U : \A o \in U : p <= o
<1>1. \E p \in U : \A o \in U : <<o, p>> \notin OpToRel(<, Nat)
  BY NatLessThanWellFounded, WFMin
<1>2. PICK p \in U : \A o \in U : <<o, p>> \notin OpToRel(<, Nat)
  BY <1>1
<1>3. \A o \in U : o \in Nat /\ p \in Nat /\ (o < p => <<o, p>> \in OpToRel(<, Nat))
  BY DEF OpToRel
<1>4. \A o \in U : o \in Nat /\ p \in Nat /\ ~(o < p)
  BY <1>2, <1>3
<1> QED BY <1>4

(* So what holds of 0, and of n + 1 with n, holds of every number.         *)
LEMMA SetInduction ==
  ASSUME NEW U \in SUBSET Nat, 0 \in U, \A n \in U : n + 1 \in U
  PROVE  U = Nat
<1> SUFFICES ASSUME Nat \ U # {} PROVE FALSE
  OBVIOUS
<1>1. Nat \ U \in SUBSET Nat
  OBVIOUS
<1>2. PICK m \in Nat \ U : \A o \in Nat \ U : m <= o
  <2> DEFINE V == Nat \ U
  <2> HIDE DEF V
  <2>1. \E p \in V : \A o \in V : p <= o
    BY <1>1, LeastElement DEF V
  <2> QED BY <2>1 DEF V
<1>3. m - 1 \in Nat /\ m - 1 \in U /\ (m - 1) + 1 = m
  BY <1>2
<1> QED BY <1>2, <1>3

(* The set of the first k numbers that an increasing function selects.     *)
Increasing(f, n) == \A i, j \in 1..n : i < j => f[i] < f[j]

LEMMA IncreasingInjection ==
  ASSUME NEW n \in Nat, NEW f, \A i \in 1..n : f[i] \in Nat, Increasing(f, n)
  PROVE  \A i, j \in 1..n : /\ i < j <=> f[i] < f[j]
                            /\ i = j <=> f[i] = f[j]
                            /\ i <= j <=> f[i] <= f[j]
BY DEF Increasing

(* f lists the n members of a set I of numbers up to m in increasing order. *)
Lists(f, n, I, m) ==
  /\ I \in SUBSET (1..m) /\ \A i \in 1..n : f[i] \in 1..m
  /\ Increasing(f, n)
  /\ \A i \in 1..m : i \in I <=> \E k \in 1..n : f[k] = i

(* The k-th selected number has k selected ones up to it. *)
LEMMA IncreasingRank ==
  ASSUME NEW n \in Nat, NEW m \in Nat, NEW f, NEW I, Lists(f, n, I, m), NEW k \in 1..n
  PROVE  Rank(I, f[k]) = k
<1> USE DEF Lists
<1> DEFINE A == 1..k
           B == I \cap (1..f[k])
           g == [i \in A |-> f[i]]
<1>1. \A i, j \in 1..n : (i = j <=> f[i] = f[j]) /\ (i <= j <=> f[i] <= f[j])
  <2>1. \A i \in 1..n : f[i] \in Nat
    OBVIOUS
  <2> QED BY <2>1, IncreasingInjection
<1>2. g \in Bijection(A, B)
  <2>1. A \subseteq 1..n
    OBVIOUS
  <2>2. \A i \in A : f[i] \in B
    BY <1>1, <2>1
  <2>3. \A i, j \in A : g[i] = g[j] => i = j
    BY <1>1, <2>1
  <2>4. \A b \in B : \E i \in A : g[i] = b
    <3> SUFFICES ASSUME NEW b \in B PROVE \E i \in A : g[i] = b
      OBVIOUS
    <3>1. PICK i \in 1..n : f[i] = b
      OBVIOUS
    <3>2. i \in A
      BY <1>1, <3>1
    <3> QED BY <3>1, <3>2
  <2>5. g \in [A -> B]
    BY <2>2
  <2> HIDE DEF A, B, g
  <2> QED BY <2>3, <2>4, <2>5 DEF Bijection, Injection, Surjection, IsInjective
<1>3. IsFiniteSet(A) /\ Cardinality(A) = k
  BY FS_Interval
<1>4. Cardinality(B) = k
  <2> HIDE DEF A, B, g
  <2> QED BY <1>2, <1>3, FS_Bijection DEF ExistsBijection
<1> QED BY <1>4 DEF Rank

(* f gives the indices of the n entries of q that are in U, in order.      *)
Selects(f, n, q, U) ==
  /\ \A k \in 1..n : f[k] \in 1..Len(q)
  /\ Increasing(f, n)
  /\ \A i \in 1..Len(q) : q[i] \in U <=> \E k \in 1..n : f[k] = i

(* Entries does. *)
LEMMA EntriesIndices ==
  ASSUME NEW S, NEW q \in Seq(S), NEW U
  PROVE  \E f : /\ Selects(f, Len(Entries(q, U)), q, U)
                /\ \A k \in 1..Len(Entries(q, U)) : Entries(q, U)[k] = q[f[k]]
<1> DEFINE I == {i \in 1..Len(q) : q[i] \in U}
           n == Cardinality(I)
           at(k) == CHOOSE i \in I : Rank(I, i) = k
           e == Entries(q, U)
           f == [k \in 1..n |-> at(k)]
<1>1. Len(q) \in Nat /\ I \in SUBSET (1..Len(q))
  BY LenProperties
<1>2. e = [k \in 1..n |-> q[at(k)]]
  BY DEF Entries, Rank
<1>3. n \in Nat /\ \A i \in I : Rank(I, i) \in 1..n
  <2> HIDE DEF I
  <2> QED BY <1>1, RankType
<1>4. e \in Seq(S) /\ Len(e) = n
  <2>1. e \in Seq(S)
    BY EntriesProperties
  <2>2. DOMAIN e = 1..n
    BY <1>2
  <2> HIDE DEF e, n
  <2> QED BY <1>3, <2>1, <2>2, LenProperties
<1>5. ASSUME NEW k \in 1..n PROVE at(k) \in I /\ Rank(I, at(k)) = k
  <2>1. \E i \in I : Rank(I, i) = k
    <3> HIDE DEF I
    <3> QED BY <1>1, RankOnto
  <2> HIDE DEF I
  <2> QED BY <2>1
<1> HIDE DEF at, n
<1>6. \A k \in 1..n : f[k] = at(k) /\ at(k) \in 1..Len(q)
  BY <1>5
<1> HIDE DEF f
<1>7. \A i, j \in I : i < j => Rank(I, i) < Rank(I, j)
  <2> HIDE DEF I
  <2> QED BY <1>1, RankMonotonic
<1>8. Increasing(f, n)
  <2> SUFFICES ASSUME NEW k \in 1..n, NEW l \in 1..n, k < l PROVE f[k] < f[l]
    BY DEF Increasing
  <2> DEFINE x == at(k)  y == at(l)
  <2>1. x \in I /\ y \in I /\ Rank(I, x) = k /\ Rank(I, y) = l /\ x \in Nat /\ y \in Nat
    <3> HIDE DEF I
    <3>1. x \in I /\ y \in I /\ Rank(I, x) = k /\ Rank(I, y) = l
      BY <1>5
    <3> HIDE DEF x, y
    <3> QED BY <1>1, <3>1
  <2> HIDE DEF x, y, I
  <2>2. ~(y < x) /\ x # y
    BY <1>7, <2>1
  <2>3. x < y
    BY <2>1, <2>2
  <2> QED BY <1>6, <2>3 DEF x, y
<1>9. ASSUME NEW i \in 1..Len(q), q[i] \in U PROVE \E k \in 1..n : f[k] = i
  <2> DEFINE k == Rank(I, i)
  <2>1. i \in I /\ k \in 1..n
    BY <1>3, <1>9
  <2>2. at(k) \in I /\ Rank(I, at(k)) = Rank(I, i)
    BY <1>5, <2>1
  <2>3. at(k) = i
    BY <1>1, <1>3, <1>7, <2>1, <2>2
  <2> QED BY <1>6, <2>1, <2>3
<1>10. \A k \in 1..n : e[k] = q[f[k]] /\ q[f[k]] \in U
  BY <1>2, <1>5, <1>6
<1>11. Selects(f, n, q, U)
  BY <1>6, <1>8, <1>9, <1>10 DEF Selects
<1> QED BY <1>4, <1>10, <1>11

(* And what does is Entries. *)
LEMMA EntriesUnique ==
  ASSUME NEW S, NEW q \in Seq(S), NEW U, NEW n \in Nat,
         NEW f, Selects(f, n, q, U)
  PROVE  Len(Entries(q, U)) = n /\ \A k \in 1..n : Entries(q, U)[k] = q[f[k]]
<1> DEFINE I == {i \in 1..Len(q) : q[i] \in U}
           at(k) == CHOOSE i \in I : Rank(I, i) = k
<1>1. Len(q) \in Nat /\ I \in SUBSET (1..Len(q)) /\ \A i \in 1..Len(q) : i \in I <=> q[i] \in U
  BY LenProperties
<1>2. Entries(q, U) = [k \in 1..Cardinality(I) |-> q[at(k)]]
  BY DEF Entries, Rank
<1>3. /\ \A i \in 1..Len(q) : i \in I <=> \E k \in 1..n : f[k] = i
      /\ \A k \in 1..n : f[k] \in 1..Len(q)
      /\ Increasing(f, n)
  BY <1>1 DEF Selects
<1>4. ASSUME NEW k \in 1..n PROVE f[k] \in I /\ Rank(I, f[k]) = k
  <2>1. f[k] \in I
    BY <1>3
  <2> DEFINE m == Len(q)
  <2>2. m \in Nat /\ Lists(f, n, I, m)
    BY <1>1, <1>3 DEF Lists
  <2> HIDE DEF I, m
  <2>3. Rank(I, f[k]) = k
    BY <2>2, IncreasingRank
  <2> QED BY <2>1, <2>3
<1>5. Cardinality(I) = n
  <2>1. ExistsBijection(1..n, I)
    <3> DEFINE g == [k \in 1..n |-> f[k]]
    <3>1. g \in [1..n -> I] /\ \A k \in 1..n : g[k] = f[k]
      BY <1>4
    <3>2. \A b \in I : \E k \in 1..n : f[k] = b
      BY <1>1, <1>3
    <3>3. \A i, j \in 1..n : f[i] = f[j] => i = j
      <4>1. \A i \in 1..n : f[i] \in Nat
        BY <1>1, <1>3
      <4> QED BY <1>3, <4>1, IncreasingInjection
    <3> HIDE DEF I, g
    <3>4. \A i, j \in 1..n : g[i] = g[j] => i = j
      BY <3>1, <3>3
    <3>5. \A b \in I : \E k \in 1..n : g[k] = b
      BY <3>1, <3>2
    <3> QED BY <3>1, <3>4, <3>5 DEF ExistsBijection, Bijection, Injection, Surjection, IsInjective
  <2>2. IsFiniteSet(1..n) /\ Cardinality(1..n) = n
    BY FS_Interval
  <2> HIDE DEF I
  <2> QED BY <2>1, <2>2, FS_Bijection DEF ExistsBijection
<1>6. ASSUME NEW k \in 1..n PROVE at(k) = f[k]
  <2>1. \A i, j \in I : i < j => Rank(I, i) < Rank(I, j)
    <3> HIDE DEF I
    <3> QED BY <1>1, RankMonotonic
  <2>2. at(k) \in I /\ Rank(I, at(k)) = k
    <3> HIDE DEF I
    <3> QED BY <1>4
  <2> DEFINE x == at(k)
  <2>3. x \in I /\ Rank(I, x) = k /\ x \in Nat /\ f[k] \in Nat
    BY <1>1, <1>3, <2>2
  <2> HIDE DEF I, x
  <2>4. ~(x < f[k]) /\ ~(f[k] < x)
    BY <1>4, <2>1, <2>3
  <2>5. x = f[k]
    BY <2>3, <2>4
  <2> QED BY <2>5 DEF x
<1> HIDE DEF at, I
<1>7. /\ DOMAIN Entries(q, U) = 1..n
      /\ \A k \in 1..n : Entries(q, U)[k] = q[f[k]]
  BY <1>2, <1>5, <1>6
<1>8. Entries(q, U) \in Seq(S)
  BY EntriesProperties
<1> QED BY <1>7, <1>8, LenProperties

(* Selecting twice is selecting once what is in both sets. *)
LEMMA EntriesOfEntries ==
  ASSUME NEW S, NEW q \in Seq(S), NEW U, NEW V
  PROVE  Entries(Entries(q, U), V) = Entries(q, U \cap V)
<1> DEFINE e == Entries(q, U)
           n == Len(e)
           d == Entries(e, V)
           m == Len(d)
<1>1. e \in Seq(S) /\ d \in Seq(S) /\ n \in Nat /\ m \in Nat /\ Len(q) \in Nat
  BY EntriesProperties, LenProperties
<1>2. PICK f : Selects(f, n, q, U) /\ \A k \in 1..n : e[k] = q[f[k]]
  BY EntriesIndices
<1> HIDE DEF e, n
<1>3. PICK g : Selects(g, m, e, V) /\ \A l \in 1..m : d[l] = e[g[l]]
  BY <1>1, EntriesIndices DEF n
<1> DEFINE h == [l \in 1..m |-> f[g[l]]]
<1> HIDE DEF d, m
<1>4. /\ \A l \in 1..m : h[l] \in 1..Len(q) /\ g[l] \in 1..n /\ h[l] = f[g[l]]
      /\ \A i \in 1..Len(q) : q[i] \in U <=> \E k \in 1..n : f[k] = i
      /\ \A k \in 1..n : e[k] \in V <=> \E l \in 1..m : g[l] = k
  BY <1>2, <1>3 DEF Selects, n
<1>5. Increasing(h, m)
  BY <1>2, <1>3, <1>4 DEF Increasing, Selects
<1>6. ASSUME NEW i \in 1..Len(q)
      PROVE  q[i] \in U \cap V <=> \E l \in 1..m : h[l] = i
  <2>1. ASSUME q[i] \in U, q[i] \in V PROVE \E l \in 1..m : h[l] = i
    <3>1. PICK k \in 1..n : f[k] = i
      BY <1>4, <2>1
    <3>2. e[k] \in V
      BY <1>2, <2>1, <3>1
    <3>3. PICK l \in 1..m : g[l] = k
      BY <1>4, <3>2
    <3> QED BY <1>4, <3>1, <3>3
  <2>2. ASSUME NEW l \in 1..m, h[l] = i PROVE q[i] \in U /\ q[i] \in V
    <3>1. f[g[l]] = i /\ g[l] \in 1..n
      BY <1>4, <2>2
    <3>2. q[i] \in U /\ e[g[l]] = q[i]
      BY <1>2, <1>4, <3>1
    <3>3. e[g[l]] \in V
      BY <1>4, <3>1
    <3> QED BY <3>2, <3>3
  <2> QED BY <2>1, <2>2
<1> HIDE DEF h
<1>7. /\ Len(Entries(q, U \cap V)) = m
      /\ \A l \in 1..m : Entries(q, U \cap V)[l] = q[h[l]]
  <2>1. Selects(h, m, q, U \cap V)
    BY <1>4, <1>5, <1>6 DEF Selects
  <2> DEFINE W == U \cap V
  <2>2. Selects(h, m, q, W) /\ m \in Nat
    BY <1>1, <2>1
  <2> HIDE DEF W
  <2>3. Len(Entries(q, W)) = m /\ \A k \in 1..m : Entries(q, W)[k] = q[h[k]]
    BY <2>2, EntriesUnique
  <2> QED BY <2>3 DEF W
<1>8. \A l \in 1..m : d[l] = q[h[l]]
  BY <1>2, <1>3, <1>4
<1>9. Entries(q, U \cap V) \in Seq(S)
  BY EntriesProperties
<1>10. d = Entries(q, U \cap V)
  BY <1>1, <1>7, <1>8, <1>9, SeqEqual DEF m
<1> QED BY <1>10 DEF d, e

(* The first entry selected is the first one in U. *)
LEMMA FirstEntry ==
  ASSUME NEW S, NEW q \in Seq(S), NEW U
  PROVE  /\ Entries(q, U) = <<>> <=> Range(q) \cap U = {}
         /\ Entries(q, U) # <<>> =>
              \E i \in 1..Len(q) : /\ Head(Entries(q, U)) = q[i] /\ q[i] \in U
                                   /\ \A j \in 1..(i - 1) : q[j] \notin U
<1> DEFINE e == Entries(q, U)
<1>1. e \in Seq(S) /\ Range(e) = Range(q) \cap U
  BY EntriesProperties
<1>2. PICK f : Selects(f, Len(e), q, U) /\ \A k \in 1..Len(e) : e[k] = q[f[k]]
  BY EntriesIndices
<1> HIDE DEF e
<1>3. Len(e) \in Nat /\ DOMAIN e = 1..Len(e) /\ Len(q) \in Nat /\ (e = <<>> <=> Len(e) = 0)
  BY <1>1, LenProperties, EmptySeq
<1>4. e = <<>> <=> Range(e) = {}
  <2>1. e # <<>> => e[1] \in Range(e)
    BY <1>3 DEF Range
  <2>2. e = <<>> => Range(e) = {}
    BY DEF Range
  <2> QED BY <2>1, <2>2
<1>5. ASSUME e # <<>>
      PROVE \E i \in 1..Len(q) : /\ Head(e) = q[i] /\ q[i] \in U
                                 /\ \A j \in 1..(i - 1) : q[j] \notin U
  <2>1. 1 \in 1..Len(e) /\ Head(e) = e[1]
    BY <1>1, <1>3, <1>5, HeadTailProperties
  <2>2. f[1] \in 1..Len(q) /\ q[f[1]] \in U /\ Head(e) = q[f[1]]
    BY <1>2, <2>1 DEF Selects
  <2>3. ASSUME NEW j \in 1..(f[1] - 1), q[j] \in U PROVE FALSE
    <3>1. j \in 1..Len(q) /\ j < f[1]
      BY <1>3, <2>2
    <3>2. PICK k \in 1..Len(e) : f[k] = j
      BY <1>2, <2>3, <3>1 DEF Selects
    <3>3. k = 1 \/ f[1] < f[k]
      BY <1>2, <1>3, <2>1 DEF Increasing, Selects
    <3> QED BY <2>2, <3>1, <3>2, <3>3
  <2> QED BY <2>2, <2>3
<1> QED BY <1>1, <1>4, <1>5 DEF e

(* Only the entries that are in the queue matter. *)
LEMMA EntriesSame ==
  ASSUME NEW S, NEW q \in Seq(S), NEW U, NEW V, \A x \in Range(q) : x \in U <=> x \in V
  PROVE  Entries(q, U) = Entries(q, V)
<1>1. \A i \in 1..Len(q) : q[i] \in Range(q)
  BY LenProperties DEF Range
<1> DEFINE I(X) == {i \in 1..Len(q) : q[i] \in X}
           F(K) == [k \in 1..Cardinality(K) |->
                      q[CHOOSE i \in K : Cardinality(K \cap (1..i)) = k]]
<1>2. I(U) = I(V)
  BY <1>1
<1>3. Entries(q, U) = F(I(U)) /\ Entries(q, V) = F(I(V))
  BY DEF Entries
<1> HIDE DEF F, I
<1> QED BY <1>2, <1>3

(* A new entry comes last. *)
LEMMA EntriesOfAppend ==
  ASSUME NEW S, NEW q \in Seq(S), NEW t \in S, NEW U
  PROVE  Entries(Append(q, t), U) = IF t \in U THEN Append(Entries(q, U), t)
                                    ELSE Entries(q, U)
<1> DEFINE a == Append(q, t)
           e == Entries(q, U)
           n == Len(e)
<1>1. /\ e \in Seq(S) /\ n \in Nat /\ a \in Seq(S) /\ Len(q) \in Nat /\ Len(a) = Len(q) + 1
      /\ a[Len(q) + 1] = t /\ \A i \in 1..Len(q) : a[i] = q[i]
  BY EntriesProperties, LenProperties, AppendProperties
<1>2. PICK f : Selects(f, n, q, U) /\ \A k \in 1..n : e[k] = q[f[k]]
  BY EntriesIndices
<1> HIDE DEF a, e, n
<1>3. /\ \A k \in 1..n : f[k] \in 1..Len(q)
      /\ Increasing(f, n)
      /\ \A i \in 1..Len(q) : q[i] \in U <=> \E k \in 1..n : f[k] = i
  BY <1>2 DEF Selects
<1>4. \A i \in 1..Len(a) : i = Len(q) + 1 \/ i \in 1..Len(q)
  BY <1>1
<1>5. CASE t \notin U
  <2>1. \A i \in 1..Len(a) : a[i] \in U <=> \E k \in 1..n : f[k] = i
    BY <1>1, <1>3, <1>4, <1>5
  <2>2. Selects(f, n, a, U)
    BY <1>1, <1>3, <2>1 DEF Selects
  <2>3. Len(Entries(a, U)) = n /\ \A k \in 1..n : Entries(a, U)[k] = a[f[k]]
    BY <1>1, <2>2, EntriesUnique
  <2>4. \A k \in 1..n : Entries(a, U)[k] = e[k]
    <3>1. \A k \in 1..n : a[f[k]] = q[f[k]]
      BY <1>1, <1>3
    <3>2. \A k \in 1..n : e[k] = q[f[k]]
      BY <1>2
    <3> QED BY <2>3, <3>1, <3>2
  <2>5. Entries(a, U) \in Seq(S)
    BY <1>1, EntriesProperties
  <2> DEFINE d == Entries(a, U)
  <2>6. Len(d) = Len(e) /\ \A k \in 1..Len(e) : d[k] = e[k]
    BY <2>3, <2>4 DEF n
  <2> HIDE DEF d
  <2>7. d = e
    BY <1>1, <2>5, <2>6, SeqEqual DEF d
  <2> QED BY <1>5, <2>7 DEF a, d, e
<1>6. CASE t \in U
  <2> DEFINE m == n + 1
             g == [k \in 1..m |-> IF k = m THEN Len(q) + 1 ELSE f[k]]
             b == Append(e, t)
  <2>1. /\ b \in Seq(S) /\ Len(b) = m /\ b[m] = t /\ \A k \in 1..n : b[k] = e[k]
        /\ m \in Nat /\ m \in 1..m /\ \A k \in 1..m : k = m \/ (k \in 1..n /\ k # m)
        /\ \A k \in 1..n : k \in 1..m
    <3>1. /\ b \in Seq(S) /\ Len(b) = Len(e) + 1 /\ b[Len(e) + 1] = t
          /\ \A k \in 1..Len(e) : b[k] = e[k]
      BY <1>1, AppendProperties
    <3>2. m = Len(e) + 1 /\ n = Len(e)
      BY DEF n
    <3>3. m \in Nat /\ n \in Nat /\ m = n + 1
      BY <1>1
    <3> HIDE DEF b, m
    <3>4. m \in 1..m /\ \A k \in 1..m : k = m \/ (k \in 1..n /\ k # m)
      BY <3>3
    <3>5. \A k \in 1..n : k \in 1..m
      BY <3>3
    <3> QED BY <3>1, <3>2, <3>3, <3>4, <3>5
  <2>2. /\ g[m] = Len(q) + 1 /\ \A k \in 1..n : g[k] = f[k]
        /\ \A k \in 1..m : g[k] \in 1..Len(a)
    BY <1>1, <1>3, <2>1
  <2> HIDE DEF g, b
  <2>3. Increasing(g, m)
    <3> SUFFICES ASSUME NEW i \in 1..m, NEW j \in 1..m, i < j PROVE g[i] < g[j]
      BY DEF Increasing
    <3>1. i \in 1..n /\ g[i] = f[i] /\ f[i] < Len(q) + 1
      BY <1>1, <1>3, <2>1, <2>2
    <3>2. CASE j = m
      BY <2>2, <3>1, <3>2
    <3>3. CASE j \in 1..n
      <4>1. f[i] < f[j] /\ g[j] = f[j]
        BY <1>3, <2>2, <3>1, <3>3 DEF Increasing
      <4> QED BY <3>1, <4>1
    <3> QED BY <2>1, <3>2, <3>3
  <2> HIDE DEF m
  <2>4. ASSUME NEW i \in 1..Len(a) PROVE a[i] \in U <=> \E k \in 1..m : g[k] = i
    <3>1. CASE i = Len(q) + 1
      BY <1>1, <1>6, <2>1, <2>2, <3>1
    <3>2. CASE i \in 1..Len(q)
      <4>1. a[i] \in U <=> \E k \in 1..n : f[k] = i
        BY <1>1, <1>3, <3>2
      <4>2. i # Len(q) + 1
        BY <1>1, <3>2
      <4> QED BY <2>1, <2>2, <4>1, <4>2
    <3> QED BY <1>4, <3>1, <3>2
  <2>5. Selects(g, m, a, U) /\ m \in Nat
    BY <2>1, <2>2, <2>3, <2>4 DEF Selects
  <2>6. Len(Entries(a, U)) = m /\ \A k \in 1..m : Entries(a, U)[k] = a[g[k]]
    BY <1>1, <2>5, EntriesUnique
  <2>7. \A k \in 1..m : Entries(a, U)[k] = b[k]
    <3>1. \A k \in 1..n : a[g[k]] = q[f[k]] /\ f[k] \in 1..Len(q)
      BY <1>1, <1>3, <2>2
    <3>2. \A k \in 1..n : e[k] = q[f[k]]
      BY <1>2
    <3>3. a[g[m]] = b[m] /\ \A k \in 1..n : a[g[k]] = b[k]
      BY <1>1, <2>1, <2>2, <3>1, <3>2
    <3>4. \A k \in 1..m : a[g[k]] = b[k]
      BY <2>1, <3>3
    <3> QED BY <2>6, <3>4
  <2>8. Entries(a, U) \in Seq(S)
    BY <1>1, EntriesProperties
  <2>9. Entries(a, U) = b
    BY <2>1, <2>6, <2>7, <2>8, SeqEqual
  <2> QED BY <1>6, <2>9 DEF a, b, e
<1> QED BY <1>5, <1>6

(***************************************************************************)
(* The kernel core.                                                        *)
(***************************************************************************)

Queues == [Pri -> Seq(Task)]

(* A non-empty set of priorities has a highest one. *)
LEMMA HighestPriProperties ==
  ASSUME NEW rq \in Queues, \E p \in Pri : rq[p] # <<>>
  PROVE  /\ HighestPri(rq) \in Pri
         /\ rq[HighestPri(rq)] # <<>>
         /\ \A o \in 1..(HighestPri(rq) - 1) : rq[o] = <<>>
<1> DEFINE U == {p \in Pri : rq[p] # <<>>}
<1>1. U \subseteq Nat /\ U # {}
  BY KernelAssumption DEF Pri
<1>2. PICK p \in U : \A o \in U : p <= o
  <2> HIDE DEF U
  <2> QED BY <1>1, LeastElement
<1>3. \A o \in U : ~(o < p)
  BY <1>1, <1>2
<1>4. \A o \in 1..(p - 1) : rq[o] = <<>>
  <2> SUFFICES ASSUME NEW o \in 1..(p - 1) PROVE rq[o] = <<>>
    OBVIOUS
  <2>1. o \in Pri /\ o < p
    BY KernelAssumption DEF Pri
  <2> QED BY <1>3, <2>1
<1> QED BY <1>3, <1>4 DEF HighestPri

(* The task the scheduler selects is the first of a ready queue; it        *)
(* selects none only when all are empty.                                   *)
LEMMA TopTaskProperties ==
  ASSUME NEW rq \in Queues
  PROVE  \/ TopTask(rq) = NONE /\ \A p \in Pri : rq[p] = <<>>
         \/ \E p \in Pri : /\ rq[p] # <<>> /\ TopTask(rq) = Head(rq[p])
                           /\ TopTask(rq) \in Range(rq[p]) /\ TopTask(rq) \in Task
<1>1. CASE \A p \in Pri : rq[p] = <<>>
  BY <1>1 DEF TopTask
<1>2. CASE \E p \in Pri : rq[p] # <<>>
  <2> DEFINE p == HighestPri(rq)
  <2>1. p \in Pri /\ rq[p] # <<>> /\ TopTask(rq) = Head(rq[p])
    BY <1>2, HighestPriProperties DEF TopTask
  <2> HIDE DEF p
  <2>2. rq[p] \in Seq(Task)
    BY <2>1 DEF Queues
  <2>3. Head(rq[p]) = rq[p][1] /\ Len(rq[p]) \in Nat \ {0} /\ Head(rq[p]) \in Task
        /\ DOMAIN rq[p] = 1..Len(rq[p])
    BY <2>1, <2>2, EmptySeq, HeadTailProperties, LenProperties
  <2>4. Head(rq[p]) \in Range(rq[p])
    BY <2>3 DEF Range
  <2> QED BY <2>1, <2>3, <2>4
<1> QED BY <1>1, <1>2

COROLLARY TopTaskType ==
  ASSUME NEW rq \in Queues
  PROVE  TopTask(rq) \in Task \cup {NONE}
BY TopTaskProperties

(* The running task is the first of the ready queue of its priority, which *)
(* is what the calls that wait rely on when they unlink that queue's top.  *)
LEMMA RunningIsHead ==
  ASSUME KernelInv, InTask
  PROVE  /\ cur_task \in Task /\ state[cur_task] = "READY"
         /\ cur_task = TopTask(ready_queue)
         /\ ready_queue[itskpri[cur_task]] # <<>>
         /\ Head(ready_queue[itskpri[cur_task]]) = cur_task
<1>1. cur_task \in Task /\ cur_task = TopTask(ready_queue) /\ ready_queue \in Queues
  BY DEF KernelInv, TypeOK, NoLostDispatch, InTask, Executing, Queues
<1>2. PICK p \in Pri : /\ ready_queue[p] # <<>> /\ cur_task = Head(ready_queue[p])
                       /\ cur_task \in Range(ready_queue[p])
  BY <1>1, TopTaskProperties, KernelAssumption
<1>3. state[cur_task] = "READY" /\ itskpri[cur_task] = p
  BY <1>1, <1>2 DEF KernelInv, QueueIntegrity
<1> QED BY <1>1, <1>2, <1>3

(* What any number of calls of scheduler() leave behind when the ready     *)
(* queues do not change after the last one.                                *)
Scheduled ==
  /\ sche_task' = TopTask(ready_queue')
  /\ pendsv' \in BOOLEAN
  /\ pendsv \/ (sche_task' # cur_task /\ disp = "off") => pendsv'

LEMMA SchedulerSchedules ==
  ASSUME pendsv \in BOOLEAN, scheduler
  PROVE  Scheduled
BY DEF scheduler, Scheduled, disp_running

(* After scheduler() no dispatch is lost. *)
LEMMA SchedulerNoLostDispatch ==
  ASSUME Scheduled, UNCHANGED <<cur_task, disp>>
  PROVE  NoLostDispatch'
BY DEF Scheduled, NoLostDispatch, disp_running

LEMMA SchedulerType ==
  ASSUME TypeOK, Scheduled, ready_queue' \in Queues
  PROVE  sche_task' \in Task \cup {NONE} /\ pendsv' \in BOOLEAN
BY TopTaskType DEF Scheduled, TypeOK, disp_running

(* A running task that waits moves from the top of its ready queue to the  *)
(* end of the wait queue, and nothing else is unlinked.                    *)
LEMMA SuspendPreserves ==
  ASSUME KernelInv, InTask,
         NEW fct \in Waifct \ {"NON"}, NEW tim \in Nat \cup {TMO_FEVR},
         fct = "SLP" => wupcnt[cur_task] = 0,
         Suspend(fct, tim), UNCHANGED <<itskpri, wupcnt, cpuVars>>
  PROVE  KernelInv'
<1> DEFINE t == cur_task
           pri == itskpri[cur_task]
<1>1. /\ t \in Task /\ state[t] = "READY" /\ pri \in Pri
      /\ ready_queue[pri] # <<>> /\ Head(ready_queue[pri]) = t
  BY RunningIsHead DEF KernelInv, TypeOK
<1>2. /\ ready_queue[pri] \in Seq(Task) /\ NoDuplicates(ready_queue[pri])
      /\ wait_queue \in Seq(Task) /\ NoDuplicates(wait_queue) /\ t \notin Range(wait_queue)
  BY <1>1 DEF KernelInv, TypeOK, QueueIntegrity
<1>3. /\ tqueue_remove_top(ready_queue[pri]) \in Seq(Task)
      /\ NoDuplicates(tqueue_remove_top(ready_queue[pri]))
      /\ Range(tqueue_remove_top(ready_queue[pri])) = Range(ready_queue[pri]) \ {t}
  BY <1>1, <1>2, RemoveTopProperties
<1>4. /\ wait_queue' \in Seq(Task) /\ NoDuplicates(wait_queue')
      /\ Range(wait_queue') = Range(wait_queue) \cup {t}
  <2>1. wait_queue' = tqueue_add_entry(wait_queue, t)
    BY DEF Suspend, StartWait
  <2> DEFINE q == tqueue_add_entry(wait_queue, t)
  <2>2. q \in Seq(Task) /\ Range(q) = Range(wait_queue) \cup {t} /\ NoDuplicates(q)
    <3>1. t \in Task /\ wait_queue \in Seq(Task) /\ NoDuplicates(wait_queue) /\ t \notin Range(wait_queue)
      BY <1>1, <1>2
    <3> HIDE DEF t
    <3> QED BY <3>1, AddEntryProperties
  <2> HIDE DEF q
  <2> QED BY <2>1, <2>2 DEF q
<1>5. /\ ready_queue' = [ready_queue EXCEPT ![pri] = tqueue_remove_top(ready_queue[pri])]
      /\ ready_queue \in Queues
  BY DEF Suspend, StartWait, KernelInv, TypeOK, Queues
<1>6. ready_queue' \in Queues
  BY <1>1, <1>3, <1>5 DEF Queues
<1>7. TypeOK'
  <2>1. sche_task' \in Task \cup {NONE} /\ pendsv' \in BOOLEAN
    BY <1>6, SchedulerSchedules, SchedulerType DEF Suspend, StartWait, KernelInv, TypeOK
  <2>2. ready_queue' \in [Pri -> Seq(Task)]
    BY <1>6 DEF Queues
  <2>3. fct \in Waifct
    OBVIOUS
  <2> QED BY <1>1, <1>4, <2>1, <2>2, <2>3
          DEF Suspend, StartWait, KernelInv, TypeOK, cpuVars, State
<1>8. QueueIntegrity'
  <2>1. \A u \in Task : state'[u] = IF u = t THEN "WAIT" ELSE state[u]
    BY DEF Suspend, StartWait, KernelInv, TypeOK
  <2>2. \A p \in Pri : ready_queue'[p] = IF p = pri THEN tqueue_remove_top(ready_queue[pri])
                                         ELSE ready_queue[p]
    BY <1>5 DEF Queues
  <2> HIDE DEF t, pri
  <2>3. \A p \in Pri : NoDuplicates(ready_queue'[p])
    BY <1>3, <2>2 DEF KernelInv, QueueIntegrity
  <2>4. \A u \in Task : u \in Range(wait_queue') <=> state'[u] = "WAIT"
    BY <1>4, <2>1 DEF KernelInv, QueueIntegrity
  <2>5. \A u \in Task, p \in Pri :
          u \in Range(ready_queue'[p]) <=> state'[u] = "READY" /\ itskpri'[u] = p
    <3>1. \A u \in Task, p \in Pri :
            u \in Range(ready_queue[p]) <=> state[u] = "READY" /\ itskpri[u] = p
      BY DEF KernelInv, QueueIntegrity
    <3>2. itskpri' = itskpri /\ pri = itskpri[t]
      BY DEF t, pri
    <3> QED BY <1>3, <2>1, <2>2, <3>1, <3>2
  <2> QED BY <1>4, <2>3, <2>4, <2>5 DEF QueueIntegrity
<1>9. NoLostDispatch'
  BY SchedulerSchedules, SchedulerNoLostDispatch DEF Suspend, StartWait, cpuVars, KernelInv, TypeOK
<1>11. NoSleepOnCountedWakeup'
  BY <1>1 DEF Suspend, StartWait, KernelInv, NoSleepOnCountedWakeup, TypeOK
<1>12. ProcessorInv'
  BY <1>1 DEF Suspend, StartWait, KernelInv, ProcessorInv, TypeOK, cpuVars, InTask
<1> QED BY <1>7, <1>8, <1>9, <1>11, <1>12 DEF KernelInv

(* Ending the waits of any set of waiting tasks links each of them to the  *)
(* ready queue of its priority, once.                                      *)
LEMMA AwakenPreserves ==
  ASSUME KernelInv, NEW S \in SUBSET Range(wait_queue), NEW err,
         \A t \in S : err[t] \in {"E_OK", "E_TMOUT"},
         Awaken(S, err), Scheduled, waitim' \in [Task -> Nat \cup {TMO_FEVR}],
         UNCHANGED <<itskpri, wupcnt, cpuVars>>
  PROVE  KernelInv'
<1> DEFINE Joining(p) == {t \in S : itskpri[t] = p}
<1>1. /\ wait_queue \in Seq(Task) /\ NoDuplicates(wait_queue) /\ ready_queue \in Queues
      /\ \A t \in Task : t \in Range(wait_queue) <=> state[t] = "WAIT"
      /\ Range(wait_queue) \in SUBSET Task
  BY RangeOfSeq DEF KernelInv, TypeOK, QueueIntegrity, Queues
<1>2. \A t \in S : t \in Task /\ state[t] = "WAIT"
  BY <1>1
<1>3. /\ wait_queue' \in Seq(Task) /\ NoDuplicates(wait_queue')
      /\ Range(wait_queue') = Range(wait_queue) \ S
  BY <1>1, EntriesProperties DEF Awaken, EndWait, Readied, ReadyAfter
<1>4. \A p \in Pri : /\ Entries(wait_queue, Joining(p)) \in Seq(Task)
                     /\ NoDuplicates(Entries(wait_queue, Joining(p)))
                     /\ Range(Entries(wait_queue, Joining(p))) = Joining(p)
  <2> TAKE p \in Pri
  <2> DEFINE J == Joining(p)
             e == Entries(wait_queue, J)
  <2>1. J \subseteq Range(wait_queue)
    OBVIOUS
  <2> HIDE DEF J
  <2>2. e \in Seq(Task) /\ NoDuplicates(e) /\ Range(e) = Range(wait_queue) \cap J
    BY <1>1, EntriesProperties
  <2>3. Range(wait_queue) \cap J = J
    BY <2>1
  <2> QED BY <2>2, <2>3 DEF J
<1>5. \A p \in Pri : ready_queue'[p] = ready_queue[p] \o Entries(wait_queue, Joining(p))
  BY DEF Awaken, EndWait, Readied, ReadyAfter
<1>6. \A p \in Pri : /\ ready_queue[p] \in Seq(Task) /\ NoDuplicates(ready_queue[p])
                     /\ Range(ready_queue[p]) \cap Joining(p) = {}
  BY <1>1, <1>2 DEF KernelInv, QueueIntegrity, Queues
<1>7. \A p \in Pri : /\ ready_queue'[p] \in Seq(Task) /\ NoDuplicates(ready_queue'[p])
                     /\ Range(ready_queue'[p]) = Range(ready_queue[p]) \cup Joining(p)
  <2> TAKE p \in Pri
  <2> DEFINE e == Entries(wait_queue, Joining(p))
  <2>1. /\ e \in Seq(Task) /\ NoDuplicates(e) /\ Range(e) = Joining(p)
        /\ ready_queue'[p] = ready_queue[p] \o e
        /\ ready_queue[p] \in Seq(Task) /\ NoDuplicates(ready_queue[p])
        /\ Range(ready_queue[p]) \cap Range(e) = {}
    BY <1>4, <1>5, <1>6
  <2> HIDE DEF Joining, e
  <2>2. /\ ready_queue[p] \o e \in Seq(Task) /\ NoDuplicates(ready_queue[p] \o e)
        /\ Range(ready_queue[p] \o e) = Range(ready_queue[p]) \cup Range(e)
    BY <2>1, ConcatQueueProperties
  <2> QED BY <2>1, <2>2
<1>8. ready_queue' \in Queues
  <2>1. ready_queue' = [p \in Pri |-> ready_queue'[p]]
    BY DEF Awaken, EndWait, Readied, ReadyAfter
  <2> QED BY <1>7, <2>1 DEF Queues
<1>9. TypeOK'
  <2>1. sche_task' \in Task \cup {NONE} /\ pendsv' \in BOOLEAN
    BY <1>8, SchedulerType DEF KernelInv
  <2>2. ready_queue' \in [Pri -> Seq(Task)]
    BY <1>8 DEF Queues
  <2>3. state' \in [Task -> State]
    BY DEF Awaken, EndWait, Readied, ReadyAfter, KernelInv, TypeOK, State
  <2>4. waifct' \in [Task -> Waifct]
    BY DEF Awaken, EndWait, Readied, ReadyAfter, KernelInv, TypeOK, Waifct
  <2>5. waierr' \in [Task -> {"E_OK", "E_TMOUT"}]
    BY DEF Awaken, EndWait, Readied, ReadyAfter, KernelInv, TypeOK
  <2> QED BY <1>3, <2>1, <2>2, <2>3, <2>4, <2>5 DEF KernelInv, TypeOK, cpuVars
<1>10. \A t \in Task : /\ state'[t] = IF t \in S THEN "READY" ELSE state[t]
                       /\ waifct'[t] = IF t \in S THEN "NON" ELSE waifct[t]
  BY DEF Awaken, EndWait, Readied, ReadyAfter
<1>11. QueueIntegrity'
  <2>1. \A t \in Task : t \in Range(wait_queue') <=> state'[t] = "WAIT"
    BY <1>1, <1>3, <1>10
  <2>2. \A t \in Task, p \in Pri :
          t \in Range(ready_queue'[p]) <=> state'[t] = "READY" /\ itskpri'[t] = p
    <3>1. \A t \in Task, p \in Pri :
            t \in Range(ready_queue[p]) <=> state[t] = "READY" /\ itskpri[t] = p
      BY DEF KernelInv, QueueIntegrity
    <3> QED BY <1>2, <1>7, <1>10, <3>1
  <2> QED BY <1>3, <1>7, <2>1, <2>2 DEF QueueIntegrity
<1>12. NoLostDispatch'
  BY SchedulerNoLostDispatch DEF cpuVars
<1>14. NoSleepOnCountedWakeup'
  BY <1>10 DEF KernelInv, NoSleepOnCountedWakeup
<1>15. ProcessorInv'
  <2>1. \A t \in Task : waifct'[t] = "NON" <=> state'[t] # "WAIT"
    BY <1>10 DEF KernelInv, ProcessorInv
  <2>2. cur_task # NONE => cur_task \in Task
    BY DEF KernelInv, TypeOK
  <2>3. UNCHANGED <<context, cur_task, disp, pc>>
    BY DEF cpuVars
  <2>4. \A t \in Task : state'[t] \in {"READY", "WAIT"} => state[t] \in {"READY", "WAIT"}
    BY <1>2, <1>10
  <2> QED BY <1>2, <1>10, <2>1, <2>2, <2>3, <2>4 DEF KernelInv, ProcessorInv
<1> QED BY <1>9, <1>11, <1>12, <1>14, <1>15 DEF KernelInv

(* The same when scheduler() is called once, after the last of them. *)
LEMMA ReleasePreserves ==
  ASSUME KernelInv, NEW S \in SUBSET Range(wait_queue), NEW err,
         \A t \in S : err[t] \in {"E_OK", "E_TMOUT"},
         Release(S, err), waitim' \in [Task -> Nat \cup {TMO_FEVR}],
         UNCHANGED <<itskpri, wupcnt, cpuVars>>
  PROVE  KernelInv'
BY AwakenPreserves, SchedulerSchedules DEF Release, KernelInv, TypeOK

(***************************************************************************)
(* One lemma for each action of the kernel.                                *)
(***************************************************************************)
LEMMA CreatePreserves ==
  ASSUME KernelInv, NEW t \in Task, tk_cre_tsk(t)
  PROVE  KernelInv'
<1>1. /\ state[t] = "NONEXIST" /\ state' = [state EXCEPT ![t] = "DORMANT"]
      /\ itskpri' = [itskpri EXCEPT ![t] = BasePri[t]] /\ BasePri[t] \in Pri
      /\ UNCHANGED <<waifct, waitim, waierr, wupcnt, queueVars, cpuVars, sche_task, pendsv>>
      /\ UNCHANGED <<ready_queue, wait_queue, context, cur_task, disp, pc>>
  BY KernelAssumption DEF tk_cre_tsk, queueVars, cpuVars
<1>2. TypeOK'
  BY <1>1 DEF KernelInv, TypeOK, State
<1>3. QueueIntegrity'
  <2>1. \A u \in Task : u # t => state'[u] = state[u] /\ itskpri'[u] = itskpri[u]
    BY <1>1 DEF KernelInv, TypeOK
  <2>2. state'[t] = "DORMANT"
    BY <1>1 DEF KernelInv, TypeOK
  <2> QED BY <1>1, <2>1, <2>2 DEF KernelInv, QueueIntegrity
<1>4. NoLostDispatch'
  BY <1>1 DEF KernelInv, NoLostDispatch
<1>6. NoSleepOnCountedWakeup'
  BY <1>1 DEF KernelInv, NoSleepOnCountedWakeup
<1>7. ProcessorInv'
  BY <1>1 DEF KernelInv, ProcessorInv, TypeOK
<1> QED BY <1>2, <1>3, <1>4, <1>6, <1>7 DEF KernelInv

LEMMA StartPreserves ==
  ASSUME KernelInv, NEW t \in Task, tk_sta_tsk(t)
  PROVE  KernelInv'
<1> DEFINE pri == itskpri[t]
           q == tqueue_add_entry(ready_queue[pri], t)
<1>1. /\ state[t] = "DORMANT" /\ state' = [state EXCEPT ![t] = "READY"] /\ pri \in Pri
      /\ context' = [context EXCEPT ![t] = "entry"] /\ scheduler
      /\ ready_queue' = [ready_queue EXCEPT ![pri] = q] /\ ready_queue \in Queues
      /\ UNCHANGED <<itskpri, waifct, waitim, waierr, wupcnt, wait_queue, cur_task, disp, pc>>
  BY DEF tk_sta_tsk, KernelInv, TypeOK, Queues
<1>2. q \in Seq(Task) /\ NoDuplicates(q) /\ Range(q) = Range(ready_queue[pri]) \cup {t}
  <2>1. /\ ready_queue[pri] \in Seq(Task) /\ NoDuplicates(ready_queue[pri])
        /\ t \notin Range(ready_queue[pri])
    BY <1>1 DEF KernelInv, QueueIntegrity, Queues
  <2> HIDE DEF pri
  <2> QED BY <2>1, AddEntryProperties
<1>3. ready_queue' \in Queues
  BY <1>1, <1>2 DEF Queues
<1>4. TypeOK'
  <2>1. sche_task' \in Task \cup {NONE} /\ pendsv' \in BOOLEAN
    BY <1>1, <1>3, SchedulerSchedules, SchedulerType DEF KernelInv, TypeOK
  <2>2. ready_queue' \in [Pri -> Seq(Task)]
    BY <1>3 DEF Queues
  <2> QED BY <1>1, <2>1, <2>2 DEF KernelInv, TypeOK, State
<1>5. QueueIntegrity'
  <2>1. \A u \in Task : state'[u] = IF u = t THEN "READY" ELSE state[u]
    BY <1>1 DEF KernelInv, TypeOK
  <2>2. \A p \in Pri : ready_queue'[p] = IF p = pri THEN q ELSE ready_queue[p]
    BY <1>1 DEF Queues
  <2>3. \A u \in Task, p \in Pri :
          u \in Range(ready_queue[p]) <=> state[u] = "READY" /\ itskpri[u] = p
    BY DEF KernelInv, QueueIntegrity
  <2>4. itskpri' = itskpri /\ pri = itskpri[t]
    BY <1>1
  <2> HIDE DEF pri, q
  <2>5. \A u \in Task, p \in Pri :
          u \in Range(ready_queue'[p]) <=> state'[u] = "READY" /\ itskpri'[u] = p
    BY <1>1, <1>2, <2>1, <2>2, <2>3, <2>4
  <2>6. \A p \in Pri : NoDuplicates(ready_queue'[p])
    BY <1>2, <2>2 DEF KernelInv, QueueIntegrity
  <2> QED BY <1>1, <2>1, <2>5, <2>6 DEF KernelInv, QueueIntegrity
<1>6. NoLostDispatch'
  BY <1>1, SchedulerSchedules, SchedulerNoLostDispatch DEF KernelInv, TypeOK
<1>8. NoSleepOnCountedWakeup'
  BY <1>1 DEF KernelInv, NoSleepOnCountedWakeup
<1>9. ProcessorInv'
  BY <1>1 DEF KernelInv, ProcessorInv, TypeOK
<1> QED BY <1>4, <1>5, <1>6, <1>8, <1>9 DEF KernelInv

LEMMA ExitPreserves ==
  ASSUME KernelInv, tk_ext_tsk
  PROVE  KernelInv'
<1> DEFINE t == cur_task
           pri == itskpri[t]
           q == tqueue_remove_entry(ready_queue[pri], t)
<1>1. /\ t \in Task /\ state[t] = "READY" /\ pri \in Pri
      /\ state' = [state EXCEPT ![t] = "DORMANT"]
      /\ ready_queue' = [ready_queue EXCEPT ![pri] = q] /\ ready_queue \in Queues
      /\ pc = "body" /\ pc' = "exited" /\ disp = "off" /\ scheduler
      /\ UNCHANGED <<itskpri, waifct, waitim, waierr, wupcnt, wait_queue, context, cur_task, disp>>
  BY RunningIsHead DEF tk_ext_tsk, KernelInv, TypeOK, Queues, InTask, Executing
<1>2. q \in Seq(Task) /\ NoDuplicates(q) /\ Range(q) = Range(ready_queue[pri]) \ {t}
  <2>1. ready_queue[pri] \in Seq(Task) /\ NoDuplicates(ready_queue[pri])
    BY <1>1 DEF KernelInv, QueueIntegrity, Queues
  <2> HIDE DEF pri, t
  <2> QED BY <2>1, RemoveEntryProperties
<1>3. ready_queue' \in Queues
  BY <1>1, <1>2 DEF Queues
<1>4. TypeOK'
  <2>1. sche_task' \in Task \cup {NONE} /\ pendsv' \in BOOLEAN
    BY <1>1, <1>3, SchedulerSchedules, SchedulerType DEF KernelInv, TypeOK
  <2>2. ready_queue' \in [Pri -> Seq(Task)]
    BY <1>3 DEF Queues
  <2> QED BY <1>1, <2>1, <2>2 DEF KernelInv, TypeOK, State
<1>5. QueueIntegrity'
  <2>1. \A u \in Task : state'[u] = IF u = t THEN "DORMANT" ELSE state[u]
    BY <1>1 DEF KernelInv, TypeOK
  <2>2. \A p \in Pri : ready_queue'[p] = IF p = pri THEN q ELSE ready_queue[p]
    BY <1>1 DEF Queues
  <2>3. \A u \in Task, p \in Pri :
          u \in Range(ready_queue[p]) <=> state[u] = "READY" /\ itskpri[u] = p
    BY DEF KernelInv, QueueIntegrity
  <2>4. itskpri' = itskpri /\ pri = itskpri[t]
    BY <1>1
  <2> HIDE DEF pri, q, t
  <2>5. \A u \in Task, p \in Pri :
          u \in Range(ready_queue'[p]) <=> state'[u] = "READY" /\ itskpri'[u] = p
    BY <1>1, <1>2, <2>1, <2>2, <2>3, <2>4
  <2>6. \A p \in Pri : NoDuplicates(ready_queue'[p])
    BY <1>2, <2>2 DEF KernelInv, QueueIntegrity
  <2> QED BY <1>1, <2>1, <2>5, <2>6 DEF KernelInv, QueueIntegrity
<1>6. NoLostDispatch'
  BY <1>1, SchedulerSchedules, SchedulerNoLostDispatch DEF KernelInv, TypeOK
<1>8. NoSleepOnCountedWakeup'
  BY <1>1 DEF KernelInv, NoSleepOnCountedWakeup
<1>9. ProcessorInv'
  BY <1>1 DEF KernelInv, ProcessorInv, TypeOK
<1> QED BY <1>4, <1>5, <1>6, <1>8, <1>9 DEF KernelInv

LEMMA DelayPreserves ==
  ASSUME KernelInv, NEW d \in Delays, tk_dly_tsk(d)
  PROVE  KernelInv'
<1>1. d + TimerPeriod \in Nat \cup {TMO_FEVR} /\ "DLY" \in Waifct \ {"NON"}
  BY KernelAssumption, TimerAssumption DEF Waifct
<1> QED BY <1>1, SuspendPreserves DEF tk_dly_tsk

LEMMA SleepPreserves ==
  ASSUME KernelInv, NEW tmout \in SleepTimes, tk_slp_tsk(tmout)
  PROVE  KernelInv'
<1>1. CASE wupcnt[cur_task] > 0
  <2>1. cur_task \in Task
    BY RunningIsHead DEF tk_slp_tsk
  <2>2. /\ wupcnt' = [wupcnt EXCEPT ![cur_task] = @ - 1]
        /\ UNCHANGED <<state, itskpri, waifct, waitim, waierr, queueVars, cpuVars, sche_task, pendsv>>
    BY <1>1, <2>1 DEF tk_slp_tsk, KernelInv, TypeOK
  <2>3. wupcnt' \in [Task -> 0..MaxWup]
    BY <1>1, <2>1, <2>2, KernelAssumption DEF KernelInv, TypeOK
  <2>4. TypeOK'
    BY <2>2, <2>3 DEF KernelInv, TypeOK, queueVars, cpuVars
  <2>5. NoSleepOnCountedWakeup'
    BY <2>1, <2>2, <1>1 DEF KernelInv, NoSleepOnCountedWakeup, TypeOK
  <2> QED BY <2>2, <2>4, <2>5 DEF KernelInv, QueueIntegrity, NoLostDispatch, ProcessorInv,
                 queueVars, cpuVars
<1>2. CASE ~(wupcnt[cur_task] > 0)
  <2>1. WaitTime(tmout) \in Nat \cup {TMO_FEVR} /\ "SLP" \in Waifct \ {"NON"}
    BY KernelAssumption, TimerAssumption DEF Waifct, WaitTime, TMO_FEVR
  <2>2. /\ InTask /\ wupcnt[cur_task] = 0 /\ Suspend("SLP", WaitTime(tmout))
        /\ UNCHANGED <<itskpri, wupcnt, cpuVars>>
    BY <1>2 DEF tk_slp_tsk
  <2> QED BY <2>1, <2>2, SuspendPreserves
<1> QED BY <1>1, <1>2

LEMMA WakeupPreserves ==
  ASSUME KernelInv, NEW t \in Task, tk_wup_tsk(t)
  PROVE  KernelInv'
<1>1. CASE state[t] = "WAIT" /\ waifct[t] = "SLP"
  <2>1. /\ Release({t}, waierr) /\ waitim' = [waitim EXCEPT ![t] = 0]
        /\ UNCHANGED <<itskpri, wupcnt, cpuVars>>
    BY <1>1 DEF tk_wup_tsk
  <2>2. {t} \in SUBSET Range(wait_queue)
    BY <1>1 DEF KernelInv, QueueIntegrity
  <2>3. waitim' \in [Task -> Nat \cup {TMO_FEVR}] /\ waierr[t] \in {"E_OK", "E_TMOUT"}
    BY <2>1 DEF KernelInv, TypeOK
  <2> QED BY <2>1, <2>2, <2>3, ReleasePreserves
<1>2. CASE ~(state[t] = "WAIT" /\ waifct[t] = "SLP")
  <2>1. /\ wupcnt' = [wupcnt EXCEPT ![t] = @ + 1] /\ wupcnt[t] < MaxWup
        /\ waifct[t] # "SLP"
        /\ UNCHANGED <<state, itskpri, waifct, waitim, waierr, queueVars, cpuVars, sche_task, pendsv>>
    BY <1>2 DEF tk_wup_tsk, KernelInv, ProcessorInv
  <2>2. wupcnt' \in [Task -> 0..MaxWup]
    BY <2>1, KernelAssumption DEF KernelInv, TypeOK
  <2>3. TypeOK'
    BY <2>1, <2>2 DEF KernelInv, TypeOK, queueVars, cpuVars
  <2>4. NoSleepOnCountedWakeup'
    BY <2>1 DEF KernelInv, NoSleepOnCountedWakeup, TypeOK
  <2> QED BY <2>1, <2>3, <2>4 DEF KernelInv, QueueIntegrity, NoLostDispatch, ProcessorInv,
                 queueVars, cpuVars
<1> QED BY <1>1, <1>2

LEMMA TickPreserves ==
  ASSUME KernelInv, systimer_handler
  PROVE  KernelInv'
<1> DEFINE S == {t \in Range(wait_queue) : Expired(t)}
           err == [t \in Task |-> IF waifct[t] = "DLY" THEN "E_OK" ELSE "E_TMOUT"]
<1>1. Release(S, err) /\ UNCHANGED <<itskpri, wupcnt, cpuVars>> /\ Elapse
  BY DEF systimer_handler
<1>2. S \in SUBSET Range(wait_queue) /\ Range(wait_queue) \in SUBSET Task
  BY RangeOfSeq DEF KernelInv, TypeOK
<1>3. \A t \in S : err[t] \in {"E_OK", "E_TMOUT"}
  BY <1>2
<1>4. waitim' \in [Task -> Nat \cup {TMO_FEVR}]
  <2>1. ASSUME NEW t \in Task
        PROVE  (IF t \notin Range(wait_queue) \/ ~Finite(t) THEN waitim[t]
                ELSE IF Expired(t) THEN 0 ELSE waitim[t] - TimerPeriod)
                 \in Nat \cup {TMO_FEVR}
    <3>1. waitim[t] \in Nat \cup {TMO_FEVR} /\ TimerPeriod \in Nat
      BY TimerAssumption DEF KernelInv, TypeOK
    <3> QED BY <3>1 DEF Finite, Expired
  <2> QED BY <1>1, <2>1 DEF Elapse
<1> HIDE DEF S, err
<1> QED BY <1>1, <1>2, <1>3, <1>4, ReleasePreserves

(* PendSV is taken: the request turns into an active dispatcher. *)
LEMMA PendsvEntryPreserves ==
  ASSUME KernelInv, pendsv_entry
  PROVE  KernelInv'
<1>1. /\ disp = "off" /\ disp' = "entry" /\ pendsv' = FALSE
      /\ UNCHANGED <<state, itskpri, waifct, waitim, waierr, wupcnt, ready_queue, wait_queue,
                     context, cur_task, sche_task, pc>>
  BY DEF pendsv_entry, tcbVars, queueVars
<1>2. TypeOK'
  BY <1>1 DEF KernelInv, TypeOK
<1>3. QueueIntegrity'
  BY <1>1 DEF KernelInv, QueueIntegrity
<1>4. NoLostDispatch' /\ NoSleepOnCountedWakeup'
  BY <1>1 DEF KernelInv, NoLostDispatch, NoSleepOnCountedWakeup
<1>5. ProcessorInv'
  BY <1>1 DEF KernelInv, ProcessorInv
<1> QED BY <1>2, <1>3, <1>4, <1>5 DEF KernelInv

(* Resuming the selected task, from a frame that was made or saved. *)
LEMMA ResumePreserves ==
  ASSUME KernelInv, sche_task # NONE,
         context' \in [Task -> {"none", "entry", "body", "exited"}],
         \A t \in Task : state[t] \in {"READY", "WAIT"} => context'[t] # "none",
         Resume(sche_task), UNCHANGED <<tcbVars, queueVars, sche_task, pendsv>>
  PROVE  KernelInv'
<1>1. UNCHANGED <<state, itskpri, waifct, waitim, waierr, wupcnt, ready_queue, wait_queue,
                  sche_task, pendsv>>
  BY DEF tcbVars, queueVars
<1>2. sche_task \in Task /\ state[sche_task] = "READY"
  <2>1. ready_queue \in Queues /\ sche_task = TopTask(ready_queue)
    BY DEF KernelInv, TypeOK, NoLostDispatch, Queues
  <2>2. PICK p \in Pri : sche_task \in Range(ready_queue[p]) /\ sche_task \in Task
    BY <2>1, TopTaskProperties
  <2> QED BY <2>2 DEF KernelInv, QueueIntegrity
<1>3. cur_task' = sche_task /\ disp' = "off" /\ pc' \in {"body", "exited"}
  BY <1>2 DEF Resume
<1>4. TypeOK'
  BY <1>1, <1>2, <1>3 DEF KernelInv, TypeOK
<1>5. QueueIntegrity'
  BY <1>1 DEF KernelInv, QueueIntegrity
<1>6. NoLostDispatch' /\ NoSleepOnCountedWakeup'
  BY <1>1, <1>3 DEF KernelInv, NoLostDispatch, NoSleepOnCountedWakeup
<1>7. ProcessorInv'
  BY <1>1, <1>2, <1>3, KernelAssumption DEF KernelInv, ProcessorInv
<1> QED BY <1>4, <1>5, <1>6, <1>7 DEF KernelInv

LEMMA DispatchPreserves ==
  ASSUME KernelInv, dispatch_entry
  PROVE  KernelInv'
<1>1. /\ disp = "entry" /\ pc \in {"main", "body", "exited"}
      /\ cur_task = NONE <=> pc = "main"
      /\ UNCHANGED <<state, itskpri, waifct, waitim, waierr, wupcnt, ready_queue, wait_queue,
                     sche_task, pendsv>>
      /\ context' = IF cur_task = NONE THEN context ELSE [context EXCEPT ![cur_task] = pc]
  BY DEF dispatch_entry, KernelInv, ProcessorInv, TypeOK, tcbVars, queueVars
<1>2. context' \in [Task -> {"none", "entry", "body", "exited"}]
  BY <1>1 DEF KernelInv, TypeOK
<1>3. \A t \in Task : state[t] \in {"READY", "WAIT"} => context'[t] # "none"
  <2> SUFFICES ASSUME NEW t \in Task, state[t] \in {"READY", "WAIT"}
               PROVE  context'[t] # "none"
    OBVIOUS
  <2>1. CASE t = cur_task
    BY <1>1, <2>1, KernelAssumption DEF KernelInv, ProcessorInv, TypeOK
  <2>2. CASE t # cur_task
    BY <1>1, <2>2 DEF KernelInv, ProcessorInv, TypeOK
  <2> QED BY <2>1, <2>2
<1>4. CASE sche_task # NONE
  <2>1. Resume(sche_task) /\ UNCHANGED <<tcbVars, queueVars, sche_task, pendsv>>
    BY <1>4 DEF dispatch_entry
  <2> QED BY <1>2, <1>3, <1>4, <2>1, ResumePreserves
<1>5. CASE sche_task = NONE
  <2>1. cur_task' = NONE /\ disp' = "idle" /\ pc' = "none"
    BY <1>5 DEF dispatch_entry
  <2>2. TypeOK'
    BY <1>1, <1>2, <2>1 DEF KernelInv, TypeOK
  <2>3. QueueIntegrity'
    BY <1>1 DEF KernelInv, QueueIntegrity
  <2>4. NoLostDispatch' /\ NoSleepOnCountedWakeup'
    BY <1>1, <2>1, <1>5 DEF KernelInv, NoLostDispatch, NoSleepOnCountedWakeup
  <2>5. ProcessorInv'
    BY <1>1, <1>3, <2>1 DEF KernelInv, ProcessorInv
  <2> QED BY <2>2, <2>3, <2>4, <2>5 DEF KernelInv
<1> QED BY <1>4, <1>5

LEMMA IdleExitPreserves ==
  ASSUME KernelInv, idle_exit
  PROVE  KernelInv'
<1>1. disp = "idle" /\ cur_task = NONE /\ sche_task # NONE /\ context' = context
      /\ Resume(sche_task) /\ UNCHANGED <<tcbVars, queueVars, sche_task, pendsv>>
  BY DEF idle_exit, KernelInv, ProcessorInv
<1>2. \A t \in Task : state[t] \in {"READY", "WAIT"} => context'[t] # "none"
  BY <1>1, KernelAssumption DEF KernelInv, ProcessorInv
<1>3. context' \in [Task -> {"none", "entry", "body", "exited"}]
  BY <1>1 DEF KernelInv, TypeOK
<1> QED BY <1>1, <1>2, <1>3, ResumePreserves

(***************************************************************************)
(* What the kernel does to the waits that other modules add.               *)
(***************************************************************************)

(* It begins none, and leaves those that go on as they are. *)
LEMMA KernelBeginsNoOtherWait ==
  ASSUME KernelInv, KernelNext, NEW f \in WaitFactor, NEW t \in Task, waifct'[t] = f
  PROVE  waifct[t] = f /\ waierr'[t] = waierr[t]
<1>1. f \notin {"NON", "DLY", "SLP"}
  BY KernelAssumption
<1>2. waifct \in [Task -> Waifct] /\ waierr \in [Task -> {"E_OK", "E_TMOUT"}]
  BY DEF KernelInv, TypeOK
<1>3. CASE TaskCall
  BY <1>1, <1>2, <1>3 DEF TaskCall, tk_ext_tsk, tk_dly_tsk, tk_slp_tsk, Suspend, StartWait
<1>4. CASE AnyContextCall
  BY <1>1, <1>2, <1>4 DEF AnyContextCall, tk_cre_tsk, tk_sta_tsk, tk_wup_tsk, Release, Awaken,
                          EndWait
<1>5. CASE systimer_handler
  BY <1>1, <1>2, <1>5 DEF systimer_handler, Release, Awaken, EndWait
<1>6. CASE Dispatcher
  BY <1>6 DEF Dispatcher, pendsv_entry, dispatch_entry, idle_exit, tcbVars
<1> QED BY <1>3, <1>4, <1>5, <1>6 DEF KernelNext

(* It ends them only by time-outs. *)
LEMMA KernelEndsByTimeout ==
  ASSUME KernelInv, KernelNext, NEW t \in Task, waifct[t] \in WaitFactor
  PROVE  state'[t] = "WAIT" \/ (state'[t] = "READY" /\ waierr'[t] = "E_TMOUT")
<1>1. waifct[t] \notin {"NON", "DLY", "SLP"}
  BY KernelAssumption
<1>2. state[t] = "WAIT" /\ state \in [Task -> State]
  BY <1>1 DEF KernelInv, ProcessorInv, TypeOK
<1>3. CASE TaskCall
  <2>1. InTask => cur_task \in Task /\ state[cur_task] = "READY"
    BY RunningIsHead
  <2> QED BY <1>2, <1>3, <2>1
          DEF TaskCall, tk_ext_tsk, tk_dly_tsk, tk_slp_tsk, Suspend, StartWait
<1>4. CASE AnyContextCall
  <2>1. PICK u \in Task : tk_cre_tsk(u) \/ tk_sta_tsk(u) \/ tk_wup_tsk(u)
    BY <1>4 DEF AnyContextCall
  <2> QED BY <1>1, <1>2, <2>1 DEF tk_cre_tsk, tk_sta_tsk, tk_wup_tsk, Release, Awaken, Readied
<1>5. CASE systimer_handler
  BY <1>1, <1>2, <1>5 DEF systimer_handler, Release, Awaken, EndWait, Readied
<1>6. CASE Dispatcher
  BY <1>2, <1>6 DEF Dispatcher, pendsv_entry, dispatch_entry, idle_exit, tcbVars
<1> QED BY <1>3, <1>4, <1>5, <1>6 DEF KernelNext

(* Waits that other modules add go on, in their order, in every step of    *)
(* the kernel but the tick.                                                *)
LEMMA OtherWaitsGoOn ==
  ASSUME KernelInv, KernelNext, ~systimer_handler, NEW U \in SUBSET Task,
         \A t \in U : waifct[t] \notin {"NON", "DLY", "SLP"}
  PROVE  /\ Entries(wait_queue', U) = Entries(wait_queue, U)
         /\ \A t \in U : waifct'[t] = waifct[t]
<1>1. wait_queue \in Seq(Task) /\ waifct \in [Task -> Waifct]
  BY DEF KernelInv, TypeOK
<1>2. CASE UNCHANGED <<wait_queue, waifct>>
  BY <1>2
<1>3. ASSUME InTask, NEW fct, NEW tim, StartWait(fct, tim)
      PROVE  /\ Entries(wait_queue', U) = Entries(wait_queue, U)
             /\ \A t \in U : waifct'[t] = waifct[t]
  <2>1. cur_task \in Task /\ state[cur_task] = "READY"
    BY <1>3, RunningIsHead
  <2>2. cur_task \notin U
    BY <2>1 DEF KernelInv, ProcessorInv
  <2>3. wait_queue' = Append(wait_queue, cur_task)
        /\ waifct' = [waifct EXCEPT ![cur_task] = fct]
    BY <1>3 DEF StartWait, tqueue_add_entry
  <2> QED BY <1>1, <2>1, <2>2, <2>3, EntriesOfAppend
<1>4. ASSUME NEW t \in Task, waifct[t] = "SLP", EndWait({t}, waierr)
      PROVE  /\ Entries(wait_queue', U) = Entries(wait_queue, U)
             /\ \A u \in U : waifct'[u] = waifct[u]
  <2> DEFINE V == Range(wait_queue) \ {t}
  <2>1. t \notin U
    BY <1>4
  <2>2. wait_queue' = Entries(wait_queue, V)
        /\ waifct' = [u \in Task |-> IF u \in {t} THEN "NON" ELSE waifct[u]]
    BY <1>4 DEF EndWait
  <2>3. Entries(wait_queue', U) = Entries(wait_queue, V \cap U)
    <3> HIDE DEF V
    <3> QED BY <1>1, <2>2, EntriesOfEntries
  <2>4. Entries(wait_queue, V \cap U) = Entries(wait_queue, U)
    <3> DEFINE W == V \cap U
    <3>1. \A x \in Range(wait_queue) : x \in W <=> x \in U
      BY <2>1
    <3> HIDE DEF W
    <3>2. Entries(wait_queue, W) = Entries(wait_queue, U)
      BY <1>1, <3>1, EntriesSame
    <3> QED BY <3>2 DEF W
  <2> QED BY <1>4, <2>1, <2>2, <2>3, <2>4
<1>5. CASE TaskCall
  BY <1>2, <1>3, <1>5 DEF TaskCall, tk_ext_tsk, tk_dly_tsk, tk_slp_tsk, Suspend, queueVars
<1>6. CASE AnyContextCall
  BY <1>2, <1>4, <1>6 DEF AnyContextCall, tk_cre_tsk, tk_sta_tsk, tk_wup_tsk, Release, Awaken,
                          queueVars
<1>7. CASE Dispatcher
  BY <1>2, <1>7 DEF Dispatcher, pendsv_entry, dispatch_entry, idle_exit, tcbVars, queueVars
<1> QED BY <1>5, <1>6, <1>7 DEF KernelNext

(***************************************************************************)
(* The theorems.                                                           *)
(***************************************************************************)
LEMMA KernelInitInv == KernelInit => KernelInv
<1> SUFFICES ASSUME KernelInit PROVE KernelInv
  OBVIOUS
<1>1. /\ <<>> \in Seq(Task) /\ Range(<<>>) = {} /\ NoDuplicates(<<>>)
  BY EmptySeq DEF Range, NoDuplicates
<1>2. TypeOK
  <2>1. ready_queue \in [Pri -> Seq(Task)] /\ wait_queue \in Seq(Task)
    BY <1>1 DEF KernelInit
  <2>2. /\ state \in [Task -> State] /\ waifct \in [Task -> Waifct]
        /\ itskpri \in [Task -> Pri] /\ wupcnt \in [Task -> 0..MaxWup]
    BY KernelAssumption DEF KernelInit, State, Waifct
  <2> QED BY <2>1, <2>2 DEF KernelInit, TypeOK
<1>3. QueueIntegrity
  BY <1>1 DEF KernelInit, QueueIntegrity
<1>4. NoLostDispatch
  BY DEF KernelInit, NoLostDispatch, TopTask
<1>5. NoSleepOnCountedWakeup /\ ProcessorInv
  BY KernelAssumption DEF KernelInit, NoSleepOnCountedWakeup, ProcessorInv
<1> QED BY <1>2, <1>3, <1>4, <1>5 DEF KernelInv

LEMMA KernelStutter ==
  ASSUME KernelInv, UNCHANGED kernelVars
  PROVE  KernelInv'
BY DEF KernelInv, kernelVars, tcbVars, queueVars, cpuVars, TypeOK, QueueIntegrity,
       NoLostDispatch, NoSleepOnCountedWakeup, ProcessorInv

LEMMA KernelNextInv ==
  ASSUME KernelInv, KernelNext
  PROVE  KernelInv'
<1>1. CASE TaskCall
  BY <1>1, ExitPreserves, DelayPreserves, SleepPreserves DEF TaskCall
<1>2. CASE AnyContextCall
  BY <1>2, CreatePreserves, StartPreserves, WakeupPreserves DEF AnyContextCall
<1>3. CASE systimer_handler
  BY <1>3, TickPreserves
<1>4. CASE Dispatcher
  BY <1>4, PendsvEntryPreserves, DispatchPreserves, IdleExitPreserves DEF Dispatcher
<1> QED BY <1>1, <1>2, <1>3, <1>4 DEF KernelNext

(* KernelInv is an invariant of the kernel. *)
THEOREM KernelInvariant == KernelSpec => []KernelInv
<1>1. KernelInv /\ [KernelNext]_kernelVars => KernelInv'
  BY KernelNextInv, KernelStutter
<1> QED BY <1>1, KernelInitInv, PTL DEF KernelSpec

(* Every variable keeps its type. *)
THEOREM TypeCorrect == KernelSpec => []TypeOK
<1>1. KernelInv => TypeOK
  BY DEF KernelInv
<1> QED BY <1>1, KernelInvariant, PTL

(* Every TCB is linked exactly where its state says. *)
THEOREM QueuesAreIntact == KernelSpec => []QueueIntegrity
<1>1. KernelInv => QueueIntegrity
  BY DEF KernelInv
<1> QED BY <1>1, KernelInvariant, PTL

(* Only the top task executes. *)
THEOREM TopTaskRuns == KernelSpec => []RunsTopTask
<1>1. KernelInv => RunsTopTask
  BY DEF KernelInv, NoLostDispatch, RunsTopTask, Executing
<1> QED BY <1>1, KernelInvariant, PTL

(* A task switch that is due is always requested or in progress. *)
THEOREM DispatchIsNeverLost == KernelSpec => []NoLostDispatch
<1>1. KernelInv => NoLostDispatch
  BY DEF KernelInv
<1> QED BY <1>1, KernelInvariant, PTL

(* A step that leaves the processor and the frames alone, and makes no     *)
(* task alive that was not, makes no task lost.                            *)
LEMMA NoneLostByCall ==
  ASSUME UNCHANGED <<context, cur_task, pc>>, NEW t \in Task,
         state'[t] \in {"READY", "WAIT"} => state[t] \in {"READY", "WAIT"}
  PROVE  Lost(t)' => Lost(t)
BY DEF Lost, Resumes

(* A switch only moves to the processor, and from it, where a thread goes  *)
(* on, but for a fresh frame: that one enters the body.                    *)
LEMMA NoneLostBySwitch ==
  ASSUME KernelInv, dispatch_entry \/ idle_exit, NEW t \in Task
  PROVE  Lost(t)' => Lost(t)
<1>1. /\ state' = state /\ context \in [Task -> {"none", "entry", "body", "exited"}]
      /\ NONE \notin Task /\ cur_task \in Task \cup {NONE}
  BY KernelAssumption DEF dispatch_entry, idle_exit, tcbVars, KernelInv, TypeOK
<1>2. context'[t] = Resumes(t)
  <2>1. CASE dispatch_entry
    BY <1>1, <2>1 DEF dispatch_entry, Resumes
  <2>2. CASE idle_exit
    <3>1. cur_task = NONE /\ context' = context
      BY <2>2 DEF idle_exit, KernelInv, ProcessorInv
    <3> QED BY <1>1, <3>1 DEF Resumes
  <2> QED BY <2>1, <2>2
<1>3. t = cur_task' => pc' = IF context'[t] = "entry" THEN "body" ELSE context'[t]
  BY <1>1 DEF dispatch_entry, idle_exit, Resume
<1> QED BY <1>1, <1>2, <1>3 DEF Lost, Resumes

(* A task that ended goes on behind tk_ext_tsk only when it is started     *)
(* again before the processor has been switched away from it.              *)
THEOREM ExitIsFinal == KernelSpec => NoResurrection
<1>1. ASSUME KernelInv, KernelNext, NEW t \in Task, Lost(t)'
      PROVE  Lost(t) \/ InExit(t)
  <2>1. state \in [Task -> State] /\ context \in [Task -> {"none", "entry", "body", "exited"}]
    BY <1>1 DEF KernelInv, TypeOK
  <2>2. ASSUME InTask PROVE cur_task \in Task /\ state[cur_task] = "READY"
    BY <1>1, <2>2, RunningIsHead
  <2>3. CASE tk_ext_tsk
    <3>1. /\ state' = [state EXCEPT ![cur_task] = "DORMANT"]
          /\ UNCHANGED <<context, cur_task>> /\ cur_task \in Task
      BY <2>2, <2>3 DEF tk_ext_tsk
    <3> QED BY <1>1, <2>1, <3>1 DEF Lost, Resumes
  <2>4. ASSUME InTask, NEW fct, NEW tim, Suspend(fct, tim), UNCHANGED cpuVars
        PROVE  Lost(t)
    <3>1. state' = [state EXCEPT ![cur_task] = "WAIT"] /\ UNCHANGED <<context, cur_task, pc>>
      BY <2>4 DEF Suspend, StartWait, cpuVars
    <3>2. state'[t] \in {"READY", "WAIT"} => state[t] \in {"READY", "WAIT"}
      BY <2>1, <2>2, <2>4, <3>1
    <3> QED BY <1>1, <3>1, <3>2, NoneLostByCall
  <2>5. ASSUME UNCHANGED <<state, cpuVars>> PROVE Lost(t)
    BY <1>1, <2>5, NoneLostByCall DEF cpuVars
  <2>6. ASSUME NEW u \in Task, tk_cre_tsk(u) PROVE Lost(t)
    <3>1. state' = [state EXCEPT ![u] = "DORMANT"] /\ UNCHANGED <<context, cur_task, pc>>
      BY <2>6 DEF tk_cre_tsk, cpuVars
    <3>2. state'[t] \in {"READY", "WAIT"} => state[t] \in {"READY", "WAIT"}
      BY <2>1, <3>1
    <3> QED BY <1>1, <3>1, <3>2, NoneLostByCall
  <2>7. ASSUME NEW u \in Task, tk_sta_tsk(u) PROVE Lost(t) \/ InExit(t)
    <3>1. /\ state[u] = "DORMANT" /\ state' = [state EXCEPT ![u] = "READY"]
          /\ context' = [context EXCEPT ![u] = "entry"] /\ UNCHANGED <<cur_task, pc>>
      BY <2>7 DEF tk_sta_tsk
    <3> QED BY <1>1, <2>1, <3>1 DEF Lost, Resumes, InExit
  <2>8. ASSUME NEW S, S \subseteq Range(wait_queue), NEW err, Release(S, err), UNCHANGED cpuVars
        PROVE  Lost(t)
    <3>1. state' = Readied(S) /\ UNCHANGED <<context, cur_task, pc>>
      BY <2>8 DEF Release, Awaken, cpuVars
    <3>2. t \in S => state[t] = "WAIT"
      BY <1>1, <2>8 DEF KernelInv, QueueIntegrity
    <3>3. state'[t] \in {"READY", "WAIT"} => state[t] \in {"READY", "WAIT"}
      BY <3>1, <3>2 DEF Readied
    <3> QED BY <1>1, <3>1, <3>3, NoneLostByCall
  <2>9. ASSUME NEW u \in Task, tk_wup_tsk(u) PROVE Lost(t)
    <3>1. CASE state[u] = "WAIT" /\ Release({u}, waierr) /\ UNCHANGED cpuVars
      <4>1. {u} \subseteq Range(wait_queue)
        BY <1>1, <3>1 DEF KernelInv, QueueIntegrity
      <4> QED BY <2>8, <3>1, <4>1
    <3>2. CASE UNCHANGED <<state, cpuVars>>
      BY <2>5, <3>2
    <3> QED BY <2>9, <3>1, <3>2 DEF tk_wup_tsk
  <2>10. CASE systimer_handler
    <3> DEFINE S == {u \in Range(wait_queue) : Expired(u)}
               err == [u \in Task |-> IF waifct[u] = "DLY" THEN "E_OK" ELSE "E_TMOUT"]
    <3>1. Release(S, err) /\ UNCHANGED cpuVars /\ S \subseteq Range(wait_queue)
      BY <2>10 DEF systimer_handler
    <3> HIDE DEF S, err
    <3> QED BY <2>8, <3>1
  <2>11. CASE pendsv_entry
    BY <1>1, <2>11, NoneLostByCall DEF pendsv_entry, tcbVars
  <2>12. CASE dispatch_entry \/ idle_exit
    BY <1>1, <2>12, NoneLostBySwitch
  <2>13. ASSUME NEW tmout \in SleepTimes, tk_slp_tsk(tmout) PROVE Lost(t)
    <3>1. CASE UNCHANGED <<state, cpuVars>>
      BY <2>5, <3>1
    <3>2. CASE Suspend("SLP", WaitTime(tmout)) /\ UNCHANGED cpuVars
      BY <2>4, <2>13, <3>2 DEF tk_slp_tsk
    <3> QED BY <2>13, <3>1, <3>2 DEF tk_slp_tsk
  <2> QED BY <1>1, <2>3, <2>4, <2>6, <2>7, <2>9, <2>10, <2>11, <2>12, <2>13
          DEF KernelNext, TaskCall, AnyContextCall, Dispatcher, tk_dly_tsk
<1>2. KernelInv /\ [KernelNext]_kernelVars =>
        [\A t \in Task : Lost(t)' => Lost(t) \/ InExit(t)]_kernelVars
  BY <1>1
<1> QED BY <1>2, KernelInvariant, PTL DEF KernelSpec, NoResurrection

(* No wakeup request is lost to a task that goes to sleep. *)
THEOREM WakeupsAreKept == KernelSpec => []NoSleepOnCountedWakeup
<1>1. KernelInv => NoSleepOnCountedWakeup
  BY DEF KernelInv
<1> QED BY <1>1, KernelInvariant, PTL

(***************************************************************************)
(* Preemptive scheduling: the initial state and every step of Kernel are   *)
(* those of PreemptiveScheduler under the mapping of the instance Ideal,   *)
(* or leave its variables alone.                                           *)
(***************************************************************************)

(***************************************************************************)
(* The two modules say the same of queues.                                 *)
(***************************************************************************)
LEMMA SameFirst ==
  ASSUME NEW rq \in Queues
  PROVE  Ideal!First(rq) = TopTask(rq)
<1> DEFINE used == {p \in 1..MaxPri : rq[p] # <<>>}
<1>1. CASE used = {}
  BY <1>1 DEF Ideal!First, TopTask, Pri
<1>2. CASE used # {}
  <2>1. \E p \in Pri : rq[p] # <<>>
    BY <1>2 DEF Pri
  <2> DEFINE h == HighestPri(rq)
  <2>2. h \in Pri /\ rq[h] # <<>> /\ \A o \in 1..(h - 1) : rq[o] = <<>>
    BY <2>1, HighestPriProperties
  <2> HIDE DEF h
  <2>3. h \in used /\ \A p \in used : h <= p
    BY <2>2, KernelAssumption DEF Pri
  <2>4. \A m \in used : (\A p \in used : m <= p) => m = h
    BY <2>3, KernelAssumption
  <2>5. (CHOOSE m \in used : \A p \in used : m <= p) = h
    BY <2>3, <2>4
  <2>6. Ideal!First(rq) = Head(rq[CHOOSE m \in used : \A p \in used : m <= p])
    BY <1>2 DEF Ideal!First, Ideal!Min
  <2>7. TopTask(rq) = Head(rq[h])
    BY <2>1 DEF TopTask, h
  <2> QED BY <2>5, <2>6, <2>7
<1> QED BY <1>1, <1>2

(* Removing the first entry, as such or by its name, leaves the tail.      *)
LEMMA RemoveHeadIsTail ==
  ASSUME NEW S, NEW q \in Seq(S), q # <<>>, NoDuplicates(q)
  PROVE  tqueue_remove_entry(q, Head(q)) = Tail(q)
<1> DEFINE n == Len(q)
           I == {i \in 1..n : q[i] \in Range(q) \ {Head(q)}}
           at(k) == CHOOSE i \in I : Rank(I, i) = k
<1>1. n \in Nat \ {0} /\ DOMAIN q = 1..n /\ Head(q) = q[1]
  BY LenProperties, EmptySeq
<1>2. I = 2..n
  BY <1>1 DEF NoDuplicates, Range
<1>3. Cardinality(I) = n - 1
  <2> HIDE DEF I, n
  <2> QED BY <1>1, <1>2, FS_Interval
<1>4. \A i \in I : Rank(I, i) = i - 1
  <2> TAKE i \in I
  <2>1. i \in 2..n /\ I \cap (1..i) = 2..i
    BY <1>1, <1>2
  <2>2. Cardinality(2..i) = i - 1
    <3> HIDE DEF I, n
    <3> QED BY <1>1, <2>1, FS_Interval
  <2> HIDE DEF I
  <2> QED BY <2>1, <2>2 DEF Rank
<1>5. \A k \in 1..(n - 1) : at(k) = k + 1
  <2> TAKE k \in 1..(n - 1)
  <2>1. k + 1 \in I /\ Rank(I, k + 1) = k
    <3> HIDE DEF I, n
    <3> QED BY <1>1, <1>2, <1>4
  <2>2. \A i \in I : Rank(I, i) = k => i = k + 1
    <3> HIDE DEF I, n
    <3> QED BY <1>1, <1>2, <1>4
  <2> HIDE DEF I, n
  <2> QED BY <2>1, <2>2
<1>6. tqueue_remove_entry(q, Head(q)) = [k \in 1..Cardinality(I) |-> q[at(k)]]
  BY DEF tqueue_remove_entry, Entries, Rank
<1>7. tqueue_remove_entry(q, Head(q)) = [k \in 1..(n - 1) |-> q[k + 1]]
  <2> DEFINE f == [k \in 1..(n - 1) |-> q[at(k)]]
             g == [k \in 1..(n - 1) |-> q[k + 1]]
  <2>1. \A k \in 1..(n - 1) : f[k] = g[k]
    <3> HIDE DEF I, n, at
    <3> QED BY <1>5
  <2>2. f = g
    <3> HIDE DEF I, n
    <3> QED BY <2>1
  <2>3. tqueue_remove_entry(q, Head(q)) = f
    <3> HIDE DEF n, I, at
    <3> QED BY <1>3, <1>6
  <2> HIDE DEF f, n
  <2> QED BY <2>2, <2>3
<1>8. Tail(q) = [k \in 1..(n - 1) |-> q[k + 1]]
  <2> DEFINE g == [k \in 1..(n - 1) |-> q[k + 1]]
  <2>1. Tail(q) \in Seq(S) /\ Len(Tail(q)) = n - 1
        /\ \A k \in 1..(n - 1) : Tail(q)[k] = q[k + 1]
    BY HeadTailProperties
  <2>2. g \in Seq(S) /\ Len(g) = n - 1
    <3>1. \A k \in 1..(n - 1) : q[k + 1] \in S
      BY <1>1, ElementOfSeq
    <3> HIDE DEF n
    <3>2. n - 1 \in Nat
      BY <1>1
    <3> QED BY <3>1, <3>2, IsASeq, LenProperties
  <2>3. \A k \in 1..(n - 1) : g[k] = Tail(q)[k]
    <3> HIDE DEF n
    <3> QED BY <2>1
  <2> HIDE DEF g, n
  <2>4. Tail(q) = g
    BY <2>1, <2>2, <2>3, SeqEqual
  <2> QED BY <2>4 DEF g
<1> QED BY <1>7, <1>8

(* A queue is a prefix of itself with something behind it. *)
LEMMA ConcatPrefix ==
  ASSUME NEW S, NEW q \in Seq(S), NEW r \in Seq(S)
  PROVE  /\ Ideal!IsPrefix(q, q \o r)
         /\ \A i \in Len(q) + 1 .. Len(q \o r) : (q \o r)[i] \in Range(r)
<1>1. /\ Len(q) \in Nat /\ Len(r) \in Nat /\ Len(q \o r) = Len(q) + Len(r)
      /\ \A i \in 1..Len(q) : (q \o r)[i] = q[i]
      /\ \A i \in Len(q) + 1 .. Len(q \o r) : (q \o r)[i] = r[i - Len(q)]
  BY LenProperties, ConcatProperties
<1>2. SubSeq(q, 1, Len(q)) = SubSeq(q \o r, 1, Len(q))
  BY <1>1
<1>3. \A i \in Len(q) + 1 .. Len(q \o r) : i - Len(q) \in DOMAIN r
  BY <1>1, LenProperties
<1> QED BY <1>1, <1>2, <1>3 DEF Ideal!IsPrefix, Range

(***************************************************************************)
(* The ways in which the queues change.                                    *)
(***************************************************************************)

(* Tasks that were in no ready queue join the ends, and scheduler() runs.  *)
LEMMA ArriveStep ==
  ASSUME KernelInv, NEW added \in Queues,
         ready_queue' = [p \in Pri |-> ready_queue[p] \o added[p]],
         \A p \in Pri : \A t \in Range(added[p]) : t \in Task /\ state[t] # "READY",
         Scheduled, pendsv' => pendsv \/ sche_task' # cur_task,
         UNCHANGED <<cur_task, disp, pc>>
  PROVE  Ideal!Arrive
<1>1. ready_queue \in Queues /\ Pri = 1..MaxPri
  BY DEF KernelInv, TypeOK, Queues, Pri
<1>2. ready_queue' \in Queues
  <2>1. \A p \in Pri : ready_queue[p] \o added[p] \in Seq(Task)
    BY <1>1, ConcatProperties DEF Queues
  <2> QED BY <2>1 DEF Queues
<1>3. \A t \in Ideal!Queued(ready_queue) : t \in Task /\ state[t] = "READY"
  <2> SUFFICES ASSUME NEW p \in Pri, NEW t \in Range(ready_queue[p])
               PROVE  t \in Task /\ state[t] = "READY"
    BY <1>1 DEF Ideal!Queued, Ideal!ToSet, Range
  <2>1. t \in Task
    BY <1>1, RangeOfSeq DEF Queues
  <2> QED BY <2>1 DEF KernelInv, QueueIntegrity
<1>4. ASSUME NEW p \in Pri
      PROVE  /\ Ideal!IsPrefix(ready_queue[p], ready_queue'[p])
             /\ \A i \in Len(ready_queue[p]) + 1 .. Len(ready_queue'[p]) :
                  ready_queue'[p][i] \notin Ideal!Queued(ready_queue)
  <2>1. ready_queue'[p] = ready_queue[p] \o added[p]
    OBVIOUS
  <2>2. ready_queue[p] \in Seq(Task) /\ added[p] \in Seq(Task)
    BY <1>1 DEF Queues
  <2>3. /\ Ideal!IsPrefix(ready_queue[p], ready_queue[p] \o added[p])
        /\ \A i \in Len(ready_queue[p]) + 1 .. Len(ready_queue[p] \o added[p]) :
             (ready_queue[p] \o added[p])[i] \in Range(added[p])
    BY <2>2, ConcatPrefix
  <2> QED BY <1>3, <2>1, <2>3
<1>5. Running' = IF Running = Ideal!First(ready_queue') THEN Running ELSE NONE
  <2>1. Ideal!First(ready_queue') = TopTask(ready_queue') /\ sche_task' = TopTask(ready_queue')
    BY <1>2, SameFirst DEF Scheduled
  <2>2. CASE Executing
    <3>1. Running = cur_task /\ disp = "off" /\ ~pendsv
      BY <2>2 DEF Running, Executing
    <3>2. pendsv' <=> sche_task' # cur_task
      BY <3>1 DEF Scheduled
    <3>3. Executing' <=> sche_task' = cur_task
      BY <2>2, <3>2 DEF Executing
    <3> QED BY <2>1, <3>1, <3>3 DEF Running
  <2>3. CASE ~Executing
    <3>1. ~Executing'
      BY <2>3 DEF Scheduled, Executing, KernelInv, TypeOK
    <3> QED BY <2>3, <3>1 DEF Running
  <2> QED BY <2>2, <2>3
<1> QED BY <1>1, <1>4, <1>5 DEF Ideal!Arrive, Running

(* RunningIsHead in the next state. *)
LEMMA RunningIsReadyNext ==
  ASSUME KernelInv', Executing', cur_task' # NONE
  PROVE  state'[cur_task'] = "READY"
<1>1. cur_task' \in Task /\ cur_task' = TopTask(ready_queue') /\ ready_queue' \in Queues
  BY DEF KernelInv, TypeOK, NoLostDispatch, Executing, Queues
<1>2. PICK p \in Pri : cur_task' \in Range(ready_queue'[p])
  BY <1>1, TopTaskProperties, KernelAssumption
<1> QED BY <1>1, <1>2 DEF KernelInv, QueueIntegrity

(* The running task leaves, and scheduler() runs. *)
LEMMA LeaveStep ==
  ASSUME KernelInv, KernelInv', InTask,
         ready_queue' = [ready_queue EXCEPT ![itskpri[cur_task]] = Tail(ready_queue[itskpri[cur_task]])],
         cur_task' = cur_task, state'[cur_task] # "READY"
  PROVE  Ideal!Leave
<1>1. /\ cur_task \in Task /\ ready_queue[itskpri[cur_task]] # <<>>
      /\ Head(ready_queue[itskpri[cur_task]]) = cur_task
  BY RunningIsHead
<1>2. itskpri[cur_task] \in 1..MaxPri
  BY <1>1 DEF KernelInv, TypeOK, Pri
<1>3. Running = cur_task /\ Running # NONE
  BY <1>1, KernelAssumption DEF Running, InTask
<1>4. Running' = NONE
  <2>1. ~Executing'
    BY <1>1, RunningIsReadyNext, KernelAssumption
  <2> QED BY <2>1 DEF Running
<1> QED BY <1>1, <1>2, <1>3, <1>4 DEF Ideal!Leave, Running

(* The dispatcher ends. *)
LEMMA SwitchStep ==
  ASSUME KernelInv, disp \in {"entry", "idle"}, sche_task # NONE,
         cur_task' = sche_task, UNCHANGED ready_queue, Executing'
  PROVE  Ideal!Switch
<1>1. ~Executing
  BY DEF Executing
<1>2. sche_task = Ideal!First(ready_queue)
  BY SameFirst DEF KernelInv, TypeOK, NoLostDispatch, Queues
<1> QED BY <1>1, <1>2 DEF Ideal!Switch, Running

(***************************************************************************)
(* The actions.                                                            *)
(***************************************************************************)
Refines == Ideal!Next \/ UNCHANGED <<ready_queue, Running>>

(* A call that leaves the processor and the queues alone. *)
LEMMA StutterStep ==
  ASSUME UNCHANGED <<ready_queue, cur_task, disp, pc, pendsv>>
  PROVE  Refines
BY DEF Refines, Running, Executing

(* scheduler() requests a dispatch only when another task was selected. *)
LEMMA SchedulerRequests ==
  ASSUME KernelInv, scheduler
  PROVE  Scheduled /\ (pendsv' => pendsv \/ sche_task' # cur_task)
BY SchedulerSchedules DEF scheduler, KernelInv, TypeOK

LEMMA StartRefines ==
  ASSUME KernelInv, NEW t \in Task, tk_sta_tsk(t)
  PROVE  Refines
<1> DEFINE pri == itskpri[t]
           added == [p \in Pri |-> IF p = pri THEN <<t>> ELSE <<>>]
<1>1. /\ state[t] = "DORMANT" /\ scheduler /\ UNCHANGED <<cur_task, disp, pc>>
      /\ ready_queue' = [ready_queue EXCEPT ![pri] = Append(ready_queue[pri], t)]
      /\ pri \in Pri /\ ready_queue \in Queues
  BY DEF tk_sta_tsk, tqueue_add_entry, KernelInv, TypeOK, Queues
<1>2. added \in Queues
  <2>1. <<>> \in Seq(Task) /\ <<t>> \in Seq(Task)
    BY EmptySeq
  <2> QED BY <2>1 DEF Queues
<1>3. ready_queue' = [p \in Pri |-> ready_queue[p] \o added[p]]
  <2>1. \A p \in Pri : ready_queue[p] \in Seq(Task)
    BY <1>1 DEF Queues
  <2>2. \A p \in Pri : ready_queue[p] \o <<>> = ready_queue[p]
    BY <2>1, ConcatEmptySeq
  <2>3. ready_queue[pri] \o <<t>> = Append(ready_queue[pri], t)
    BY <1>1, <2>1, AppendIsConcat
  <2> HIDE DEF pri
  <2> QED BY <1>1, <2>2, <2>3 DEF Queues
<1>4. \A p \in Pri : \A u \in Range(added[p]) : u \in Task /\ state[u] # "READY"
  <2>1. Range(<<>>) = {} /\ Range(<<t>>) = {t}
    BY DEF Range
  <2> QED BY <1>1, <2>1
<1> HIDE DEF added
<1> QED BY <1>1, <1>2, <1>3, <1>4, SchedulerRequests, ArriveStep DEF Refines, Ideal!Next

LEMMA ReleaseRefines ==
  ASSUME KernelInv, NEW S \in SUBSET Range(wait_queue), NEW err, Release(S, err),
         UNCHANGED cpuVars
  PROVE  Refines
<1> DEFINE added == [p \in Pri |-> Entries(wait_queue, {t \in S : itskpri[t] = p})]
<1>1. /\ ready_queue' = [p \in Pri |-> ready_queue[p] \o added[p]]
      /\ scheduler /\ UNCHANGED <<cur_task, disp, pc>>
  BY DEF Release, Awaken, ReadyAfter, cpuVars
<1>2. wait_queue \in Seq(Task) /\ Range(wait_queue) \in SUBSET Task
      /\ \A t \in Range(wait_queue) : state[t] = "WAIT"
  BY RangeOfSeq DEF KernelInv, TypeOK, QueueIntegrity
<1>3. \A p \in Pri : /\ added[p] \in Seq(Task)
                     /\ Range(added[p]) \in SUBSET Range(wait_queue)
  <2> TAKE p \in Pri
  <2> DEFINE J == {t \in S : itskpri[t] = p}
  <2>1. Entries(wait_queue, J) \in Seq(Task)
        /\ Range(Entries(wait_queue, J)) = Range(wait_queue) \cap J
    <3> HIDE DEF J
    <3> QED BY <1>2, EntriesProperties
  <2> HIDE DEF J
  <2>2. added[p] = Entries(wait_queue, J)
    BY DEF J
  <2> HIDE DEF added
  <2> QED BY <2>1, <2>2
<1>4. added \in Queues
  BY <1>3 DEF Queues
<1>5. \A p \in Pri : \A t \in Range(added[p]) : t \in Task /\ state[t] # "READY"
  <2> HIDE DEF added
  <2> QED BY <1>2, <1>3
<1> HIDE DEF added
<1> QED BY <1>1, <1>4, <1>5, SchedulerRequests, ArriveStep DEF Refines, Ideal!Next

LEMMA SuspendRefines ==
  ASSUME KernelInv, KernelInv', InTask, NEW fct, NEW tim, Suspend(fct, tim), UNCHANGED cpuVars
  PROVE  Refines
<1>1. /\ cur_task \in Task /\ ready_queue[itskpri[cur_task]] # <<>>
      /\ state' = [state EXCEPT ![cur_task] = "WAIT"] /\ cur_task' = cur_task
  BY RunningIsHead DEF Suspend, StartWait, cpuVars
<1>2. state'[cur_task] # "READY"
  BY <1>1 DEF KernelInv, TypeOK
<1>3. ready_queue' = [ready_queue EXCEPT ![itskpri[cur_task]] = Tail(ready_queue[itskpri[cur_task]])]
  BY <1>1 DEF Suspend, tqueue_remove_top
<1> QED BY <1>1, <1>2, <1>3, LeaveStep DEF Refines, Ideal!Next

LEMMA ExitRefines ==
  ASSUME KernelInv, KernelInv', tk_ext_tsk
  PROVE  Refines
<1> DEFINE q == ready_queue[itskpri[cur_task]]
<1>1. /\ InTask /\ cur_task \in Task /\ q # <<>> /\ Head(q) = cur_task
      /\ state' = [state EXCEPT ![cur_task] = "DORMANT"] /\ cur_task' = cur_task
  BY RunningIsHead DEF tk_ext_tsk
<1>2. state'[cur_task] # "READY"
  BY <1>1 DEF KernelInv, TypeOK
<1>3. q \in Seq(Task) /\ NoDuplicates(q)
  BY <1>1 DEF KernelInv, TypeOK, QueueIntegrity
<1>4. tqueue_remove_entry(q, cur_task) = Tail(q)
  <2> HIDE DEF q
  <2> QED BY <1>1, <1>3, RemoveHeadIsTail
<1>5. ready_queue' = [ready_queue EXCEPT ![itskpri[cur_task]] = Tail(ready_queue[itskpri[cur_task]])]
  BY <1>4 DEF tk_ext_tsk
<1> QED BY <1>1, <1>2, <1>5, LeaveStep DEF Refines, Ideal!Next

LEMMA ResumeRefines ==
  ASSUME KernelInv, disp \in {"entry", "idle"}, sche_task # NONE, Resume(sche_task),
         UNCHANGED ready_queue
  PROVE  Refines
<1>1. CASE Executing'
  BY <1>1, SwitchStep DEF Resume, Refines, Ideal!Next
<1>2. CASE ~Executing'
  BY <1>2 DEF Refines, Running, Executing
<1> QED BY <1>1, <1>2

LEMMA DispatcherRefines ==
  ASSUME KernelInv, Dispatcher
  PROVE  Refines
<1>1. UNCHANGED ready_queue
  BY DEF Dispatcher, pendsv_entry, dispatch_entry, idle_exit, queueVars
<1>2. CASE pendsv_entry
  BY <1>1, <1>2 DEF pendsv_entry, Refines, Running, Executing
<1>3. CASE dispatch_entry
  <2>1. CASE sche_task # NONE
    BY <1>1, <1>3, <2>1, ResumeRefines DEF dispatch_entry
  <2>2. CASE sche_task = NONE
    BY <1>1, <1>3, <2>2 DEF dispatch_entry, Refines, Running, Executing
  <2> QED BY <2>1, <2>2
<1>4. CASE idle_exit
  BY <1>1, <1>4, ResumeRefines DEF idle_exit
<1> QED BY <1>2, <1>3, <1>4 DEF Dispatcher

LEMMA NextRefines ==
  ASSUME KernelInv, KernelNext
  PROVE  Refines
<1>1. KernelInv'
  BY KernelNextInv
<1>2. ASSUME NEW t \in Task, tk_cre_tsk(t) PROVE Refines
  BY <1>2, StutterStep DEF tk_cre_tsk, queueVars, cpuVars
<1>3. ASSUME NEW t \in Task, tk_sta_tsk(t) PROVE Refines
  BY <1>3, StartRefines
<1>4. CASE tk_ext_tsk
  BY <1>1, <1>4, ExitRefines
<1>5. ASSUME NEW d \in Delays, tk_dly_tsk(d) PROVE Refines
  BY <1>1, <1>5, SuspendRefines DEF tk_dly_tsk
<1>6. ASSUME NEW tmout \in SleepTimes, tk_slp_tsk(tmout) PROVE Refines
  <2>1. CASE UNCHANGED <<queueVars, cpuVars, pendsv>>
    BY <2>1, StutterStep DEF queueVars, cpuVars
  <2>2. CASE Suspend("SLP", WaitTime(tmout)) /\ UNCHANGED cpuVars
    BY <1>1, <1>6, <2>2, SuspendRefines DEF tk_slp_tsk
  <2> QED BY <1>6, <2>1, <2>2 DEF tk_slp_tsk
<1>7. ASSUME NEW t \in Task, tk_wup_tsk(t) PROVE Refines
  <2>1. CASE UNCHANGED <<queueVars, cpuVars, pendsv>>
    BY <2>1, StutterStep DEF queueVars, cpuVars
  <2>2. CASE state[t] = "WAIT" /\ Release({t}, waierr) /\ UNCHANGED cpuVars
    <3>1. {t} \in SUBSET Range(wait_queue)
      BY <2>2 DEF KernelInv, QueueIntegrity
    <3> QED BY <2>2, <3>1, ReleaseRefines
  <2> QED BY <1>7, <2>1, <2>2 DEF tk_wup_tsk
<1>8. CASE systimer_handler
  <2> DEFINE S == {t \in Range(wait_queue) : Expired(t)}
             err == [t \in Task |-> IF waifct[t] = "DLY" THEN "E_OK" ELSE "E_TMOUT"]
  <2>1. Release(S, err) /\ UNCHANGED cpuVars /\ S \in SUBSET Range(wait_queue)
    BY <1>8 DEF systimer_handler
  <2> HIDE DEF S, err
  <2> QED BY <2>1, ReleaseRefines
<1>9. CASE Dispatcher
  BY <1>9, DispatcherRefines
<1> QED BY <1>2, <1>3, <1>4, <1>5, <1>6, <1>7, <1>8, <1>9
        DEF KernelNext, TaskCall, AnyContextCall

(***************************************************************************)
(* The theorem.                                                            *)
(***************************************************************************)

(* The safety part of ImplementsScheduler (its fairness is TLC's): who is  *)
(* on the processor changes only as preemptive, fixed-priority scheduling  *)
(* with first come, first served queues allows.                            *)
THEOREM SchedulesPreemptively ==
  KernelSpec => Ideal!Init /\ [][Ideal!Next]_(Ideal!vars)
<1>1. KernelInit => Ideal!Init
  BY DEF KernelInit, Ideal!Init, Running, Executing, Pri
<1>2. KernelInv /\ [KernelNext]_kernelVars => [Ideal!Next]_(Ideal!vars)
  <2> SUFFICES ASSUME KernelInv, [KernelNext]_kernelVars
               PROVE  Refines
    BY DEF Refines, Running, Ideal!vars
  <2>1. CASE KernelNext
    BY <2>1, NextRefines
  <2>2. CASE UNCHANGED kernelVars
    BY <2>2, StutterStep DEF kernelVars, queueVars, cpuVars
  <2> QED BY <2>1, <2>2
<1> QED BY <1>1, <1>2, KernelInvariant, PTL DEF KernelSpec
=============================================================================
