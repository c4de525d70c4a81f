------------------------ MODULE TaskQueueList_proofs ------------------------
(***************************************************************************)
(* Proofs about TaskQueueList, for every finite set of TCBs and every set  *)
(* of queues: the pointers implement the queues that the rest of the       *)
(* kernel relies on.                                                       *)
(***************************************************************************)
EXTENDS TaskQueueList, SequenceTheorems, FiniteSetTheorems, WellFoundedInduction, TLAPS

Distinct(s) == \A i, j \in 1..Len(s) : s[i] = s[j] => i = j

(* The TCBs of s are linked in this order from pointer f on, the last one  *)
(* to NULL; each points back to the one before it, the first to the last.  *)
LinksUp(f, nx, pr, s) ==
  /\ s \in Seq(Task) /\ Distinct(s)
  /\ s = <<>> => f = NULL
  /\ s # <<>> => f = s[1] /\ nx[s[Len(s)]] = NULL /\ pr[s[1]] = s[Len(s)]
  /\ \A i \in 1..Len(s) - 1 : nx[s[i]] = s[i + 1] /\ pr[s[i + 1]] = s[i]

Content(k) == Chain(first[k])
Contents   == [k \in Queue |-> Content(k)]

(* No two of the queues r share a TCB.                                     *)
Apart(r) ==
  \A k, l \in Queue : \A i \in 1..Len(r[k]), j \in 1..Len(r[l]) : r[k][i] = r[l][j] => k = l

(* The inductive invariant: each queue is linked up, and no two share a    *)
(* TCB.  (The first conjunct says that the variables are functions.)       *)
ListInv ==
  /\ first = [k \in Queue |-> first[k]]
  /\ next = [t \in Task |-> next[t]] /\ pre = [t \in Task |-> pre[t]]
  /\ \A k \in Queue : LinksUp(first[k], next, pre, Content(k))
  /\ Apart(Contents)

(***************************************************************************)
(* What a chain of links holds.                                            *)
(***************************************************************************)

(* Every set of numbers that has 0 and with each number the next is Nat.   *)
LEMMA UpToNat ==
  ASSUME NEW U \in SUBSET Nat, 0 \in U, \A n \in U : n + 1 \in U
  PROVE  U = Nat
<1> SUFFICES ASSUME Nat \ U # {} PROVE FALSE
  OBVIOUS
<1> DEFINE V == Nat \ U
<1>1. V \in SUBSET Nat /\ V # {}
  OBVIOUS
<1> HIDE DEF V
<1>2. \E p \in V : \A o \in V : <<o, p>> \notin OpToRel(<, Nat)
  BY <1>1, NatLessThanWellFounded, WFMin
<1>3. PICK p \in V : \A o \in V : ~(o < p)
  <2>1. PICK p \in V : \A o \in V : <<o, p>> \notin OpToRel(<, Nat)
    BY <1>2
  <2>2. \A o \in V : o < p => <<o, p>> \in OpToRel(<, Nat)
    BY <1>1 DEF OpToRel
  <2> QED BY <2>1, <2>2
<1>4. p \in Nat /\ p \notin U
  BY <1>3 DEF V
<1>5. p - 1 \in Nat /\ p - 1 < p /\ (p - 1) + 1 = p
  BY <1>4
<1>6. p - 1 \in U
  BY <1>3, <1>5 DEF V
<1> QED BY <1>4, <1>5, <1>6

LEMMA IntervalSize ==
  ASSUME NEW n \in Nat
  PROVE  IsFiniteSet(1..n) /\ Cardinality(1..n) = n /\ Cardinality(0..n - 1) = n
<1>1. Cardinality(1..n) = IF 1 > n THEN 0 ELSE n - 1 + 1
  BY FS_Interval
<1>2. n - 1 \in Int
  OBVIOUS
<1>3. Cardinality(0..n - 1) = IF 0 > n - 1 THEN 0 ELSE (n - 1) - 0 + 1
  BY <1>2, FS_Interval
<1>4. IsFiniteSet(1..n)
  BY FS_Interval
<1> QED BY <1>1, <1>3, <1>4

(* A sequence without duplicates has at most as many entries as there are  *)
(* TCBs.                                                                   *)
LEMMA DistinctLength ==
  ASSUME NEW s \in Seq(Task), Distinct(s)
  PROVE  Len(s) \in Nat /\ Cardinality(Task) \in Nat /\ Len(s) <= Cardinality(Task)
<1>1. Len(s) \in Nat /\ Cardinality(Task) \in Nat
  BY FS_CardinalityType, ListAssumption
<1>2. s \in Injection(1..Len(s), Task)
  <2>1. s \in [1..Len(s) -> Task] /\ DOMAIN s = 1..Len(s)
    BY <1>1
  <2>2. IsInjective(s)
    BY <2>1 DEF Distinct, IsInjective
  <2> QED BY <2>1, <2>2 DEF Injection
<1>3. Cardinality(1..Len(s)) = Len(s)
  BY <1>1, IntervalSize
<1>4. Cardinality(1..Len(s)) <= Cardinality(Task)
  BY <1>2, FS_Injection, ListAssumption
<1> QED BY <1>1, <1>3, <1>4

(* w is the walk along nx from p on, of m steps.                           *)
Walks(w, nx, p, m) ==
  w = [n \in 0..m |-> IF n = 0 THEN p ELSE IF w[n - 1] = NULL THEN NULL ELSE nx[w[n - 1]]]

(* There is one walk.                                                      *)
LEMMA WalksAlike ==
  ASSUME NEW v, NEW w, NEW nx, NEW p, NEW m \in Nat, Walks(v, nx, p, m), Walks(w, nx, p, m)
  PROVE  v = w
<1>1. /\ \A n \in 0..m :
           v[n] = IF n = 0 THEN p ELSE IF v[n - 1] = NULL THEN NULL ELSE nx[v[n - 1]]
      /\ \A n \in 0..m :
           w[n] = IF n = 0 THEN p ELSE IF w[n - 1] = NULL THEN NULL ELSE nx[w[n - 1]]
  BY DEF Walks
<1> DEFINE U == {n \in Nat : n <= m => v[n] = w[n]}
<1>2. 0 \in U
  BY <1>1
<1>3. ASSUME NEW n \in U PROVE n + 1 \in U
  <2> SUFFICES ASSUME n + 1 <= m PROVE v[n + 1] = w[n + 1]
    OBVIOUS
  <2>1. v[n] = w[n]
    OBVIOUS
  <2>2. n + 1 \in 0..m /\ n + 1 # 0 /\ (n + 1) - 1 = n
    OBVIOUS
  <2> QED BY <1>1, <2>1, <2>2
<1>4. U = Nat
  <2> HIDE DEF U
  <2>1. U \in SUBSET Nat
    BY DEF U
  <2> QED BY <1>2, <1>3, <2>1, UpToNat
<1>5. \A n \in 0..m : v[n] = w[n]
  BY <1>4
<1>6. v = [n \in 0..m |-> v[n]] /\ w = [n \in 0..m |-> w[n]]
  BY DEF Walks
<1> QED BY <1>5, <1>6

(* The walk along what is linked up meets its TCBs, and NULL behind them.  *)
LEMMA LinksAreWalked ==
  ASSUME NEW f, NEW nx, NEW pr, NEW s, LinksUp(f, nx, pr, s)
  PROVE  Walks([n \in 0..Cardinality(Task) |-> IF n < Len(s) THEN s[n + 1] ELSE NULL],
               nx, f, Cardinality(Task))
<1> DEFINE m == Cardinality(Task)
           w == [n \in 0..m |-> IF n < Len(s) THEN s[n + 1] ELSE NULL]
<1>1. s \in Seq(Task) /\ Len(s) \in Nat /\ m \in Nat /\ Len(s) <= m
  BY DistinctLength DEF LinksUp
<1>2. \A i \in 1..Len(s) : s[i] \in Task /\ s[i] # NULL
  BY <1>1, ListAssumption
<1> HIDE DEF m
<1>3. ASSUME NEW n \in 0..m
      PROVE  w[n] = IF n = 0 THEN f ELSE IF w[n - 1] = NULL THEN NULL ELSE nx[w[n - 1]]
  <2>1. CASE n = 0
    <3>1. CASE s = <<>>
      BY <1>1, <2>1, <3>1 DEF LinksUp
    <3>2. CASE s # <<>>
      <4>1. 0 < Len(s) /\ f = s[1]
        BY <1>1, <3>2 DEF LinksUp
      <4> QED BY <1>1, <2>1, <4>1
    <3> QED BY <3>1, <3>2
  <2>2. CASE n # 0
    <3>1. n - 1 \in 0..m /\ n \in Nat /\ (n - 1) + 1 = n
      BY <1>1, <2>2
    <3>2. w[n - 1] = IF n - 1 < Len(s) THEN s[n] ELSE NULL
      BY <3>1
    <3>3. CASE n < Len(s)
      <4>1. n \in 1..Len(s) - 1 /\ n \in 1..Len(s)
        BY <1>1, <2>2, <3>1, <3>3
      <4>2. w[n - 1] = s[n] /\ s[n] # NULL /\ nx[s[n]] = s[n + 1]
        BY <1>1, <1>2, <3>1, <3>2, <3>3, <4>1 DEF LinksUp
      <4> QED BY <2>2, <3>3, <4>2
    <3>4. CASE n = Len(s)
      <4>1. n \in 1..Len(s) /\ s # <<>>
        BY <1>1, <2>2, <3>4
      <4>2. w[n - 1] = s[n] /\ s[n] # NULL /\ nx[s[n]] = NULL
        BY <1>1, <1>2, <3>1, <3>2, <3>4, <4>1 DEF LinksUp
      <4> QED BY <1>1, <2>2, <3>4, <4>2
    <3>5. CASE n > Len(s)
      <4>1. w[n - 1] = NULL /\ w[n] = NULL
        BY <1>1, <3>1, <3>2, <3>5
      <4> QED BY <2>2, <4>1
    <3> QED BY <1>1, <3>1, <3>3, <3>4, <3>5
  <2> QED BY <2>1, <2>2
<1> HIDE DEF w
<1>4. w = [n \in 0..m |-> w[n]]
  BY DEF w
<1>5. w = [n \in 0..m |-> IF n = 0 THEN f ELSE IF w[n - 1] = NULL THEN NULL ELSE nx[w[n - 1]]]
  BY <1>3, <1>4
<1>6. Walks(w, nx, f, m)
  BY <1>5 DEF Walks
<1> QED BY <1>6 DEF w, m

(* Chain, for given pointers.                                              *)
Walked(nx, p) ==
  LET walk[n \in 0..Cardinality(Task)] ==
        IF n = 0 THEN p ELSE IF walk[n - 1] = NULL THEN NULL ELSE nx[walk[n - 1]]
  IN  [i \in 1..Cardinality({n \in DOMAIN walk : walk[n] # NULL}) |-> walk[i - 1]]

(* So the chain of what is linked up is what is linked up.                 *)
LEMMA WalkedChain ==
  ASSUME NEW f, NEW nx, NEW pr, NEW s, LinksUp(f, nx, pr, s)
  PROVE  Walked(nx, f) = s
<1> DEFINE m == Cardinality(Task)
           w == [n \in 0..m |-> IF n < Len(s) THEN s[n + 1] ELSE NULL]
           walk[n \in 0..m] ==
             IF n = 0 THEN f ELSE IF walk[n - 1] = NULL THEN NULL ELSE nx[walk[n - 1]]
<1>1. s \in Seq(Task) /\ Len(s) \in Nat /\ m \in Nat /\ Len(s) <= m
  BY DistinctLength DEF LinksUp
<1>2. \A i \in 1..Len(s) : s[i] \in Task /\ s[i] # NULL
  BY <1>1, ListAssumption
<1>3. Walks(w, nx, f, m)
  BY LinksAreWalked
<1>4. walk = w
  <2>1. walk = CHOOSE v : Walks(v, nx, f, m)
    BY DEF Walks
  <2> HIDE DEF walk, w
  <2>2. Walks(walk, nx, f, m)
    BY <1>3, <2>1
  <2> HIDE DEF m
  <2> QED BY <1>1, <1>3, <2>2, WalksAlike
<1> DEFINE N == {n \in 0..m : w[n] # NULL}
<1>5. N = 0..Len(s) - 1
  <2>1. ASSUME NEW n \in 0..m PROVE w[n] # NULL <=> n < Len(s)
    <3>1. CASE n < Len(s)
      <4>1. n + 1 \in 1..Len(s) /\ w[n] = s[n + 1]
        BY <1>1, <3>1
      <4> QED BY <1>2, <3>1, <4>1
    <3>2. CASE ~(n < Len(s))
      BY <3>2
    <3> QED BY <3>1, <3>2
  <2> HIDE DEF w, m
  <2> QED BY <1>1, <2>1
<1>6. Cardinality(N) = Len(s)
  <2>1. Cardinality(0..Len(s) - 1) = Len(s)
    BY <1>1, IntervalSize
  <2> HIDE DEF N
  <2> QED BY <1>5, <2>1
<1>7. DOMAIN w = 0..m
  OBVIOUS
<1>8. \A i \in 1..Len(s) : w[i - 1] = s[i]
  <2> SUFFICES ASSUME NEW i \in 1..Len(s) PROVE w[i - 1] = s[i]
    OBVIOUS
  <2>1. i - 1 \in 0..m /\ i - 1 < Len(s) /\ (i - 1) + 1 = i
    BY <1>1
  <2> QED BY <2>1
<1>9. s = [i \in 1..Len(s) |-> s[i]]
  BY <1>1
<1> HIDE DEF walk, w
<1>10. [i \in 1..Cardinality({n \in DOMAIN walk : walk[n] # NULL}) |-> walk[i - 1]] = s
  <2>1. {n \in DOMAIN walk : walk[n] # NULL} = N
    BY <1>4, <1>7
  <2> HIDE DEF N
  <2> QED BY <1>4, <1>6, <1>8, <1>9, <2>1
<1> QED BY <1>10 DEF walk, m, Walked

(***************************************************************************)
(* What the operations make of the links.                                  *)
(***************************************************************************)

(* A queue none of whose pointers changes.                                 *)
LEMMA Untouched ==
  ASSUME NEW f, NEW nx, NEW pr, NEW s, LinksUp(f, nx, pr, s), NEW nx2, NEW pr2,
         \A i \in 1..Len(s) : nx2[s[i]] = nx[s[i]] /\ pr2[s[i]] = pr[s[i]]
  PROVE  LinksUp(f, nx2, pr2, s)
<1>1. s \in Seq(Task) /\ Len(s) \in Nat
  BY DEF LinksUp
<1>2. s # <<>> => 1 \in 1..Len(s) /\ Len(s) \in 1..Len(s)
  BY <1>1
<1>3. \A i \in 1..Len(s) - 1 : i \in 1..Len(s) /\ i + 1 \in 1..Len(s)
  BY <1>1
<1> QED BY <1>1, <1>2, <1>3 DEF LinksUp

(* A TCB is linked behind the last one.                                    *)
LEMMA LinkedBehind ==
  ASSUME NEW f, NEW nx, NEW pr, NEW s, LinksUp(f, nx, pr, s), NEW nx2, NEW pr2,
         NEW t \in Task, \A i \in 1..Len(s) : s[i] # t, NEW g, g = IF s = <<>> THEN t ELSE f,
         nx2[t] = NULL, pr2[t] = IF s = <<>> THEN t ELSE s[Len(s)],
         \A i \in 1..Len(s) : /\ nx2[s[i]] = IF i = Len(s) THEN t ELSE nx[s[i]]
                              /\ pr2[s[i]] = IF i = 1 THEN t ELSE pr[s[i]]
  PROVE  LinksUp(g, nx2, pr2, Append(s, t))
<1> DEFINE r == Append(s, t)
           n == Len(s)
<1>1. s \in Seq(Task) /\ n \in Nat
  BY DEF LinksUp
<1>2. /\ r \in Seq(Task) /\ Len(r) = n + 1 /\ r # <<>>
      /\ r[n + 1] = t /\ \A i \in 1..n : r[i] = s[i]
  BY <1>1, AppendProperties
<1> HIDE DEF r
<1>3. Distinct(r)
  <2> SUFFICES ASSUME NEW i \in 1..n + 1, NEW j \in 1..n + 1, r[i] = r[j] PROVE i = j
    BY <1>1, <1>2 DEF Distinct
  <2>1. (i \in 1..n \/ i = n + 1) /\ (j \in 1..n \/ j = n + 1)
    BY <1>1
  <2>2. CASE i \in 1..n /\ j \in 1..n
    BY <1>2, <2>2 DEF LinksUp, Distinct
  <2> QED BY <1>2, <2>1, <2>2
<1>4. g = r[1] /\ pr2[r[1]] = r[n + 1]
  <2>1. CASE s = <<>>
    BY <1>2, <2>1
  <2>2. CASE s # <<>>
    <3>1. 1 \in 1..n
      BY <1>1, <2>2
    <3> QED BY <1>2, <2>2, <3>1 DEF LinksUp
  <2> QED BY <2>1, <2>2
<1>5. ASSUME NEW i \in 1..(n + 1) - 1 PROVE nx2[r[i]] = r[i + 1] /\ pr2[r[i + 1]] = r[i]
  <2>1. i \in 1..n /\ r[i] = s[i] /\ s # <<>>
    BY <1>1, <1>2
  <2>2. CASE i = n
    BY <1>2, <2>1, <2>2
  <2>3. CASE i # n
    <3>1. i \in 1..n - 1 /\ i + 1 \in 1..n /\ i + 1 # 1
      BY <1>1, <2>1, <2>3
    <3>2. nx[s[i]] = s[i + 1] /\ pr[s[i + 1]] = s[i] /\ r[i + 1] = s[i + 1]
      BY <1>2, <3>1 DEF LinksUp
    <3> QED BY <2>1, <2>3, <3>1, <3>2
  <2> QED BY <2>2, <2>3
<1>6. LinksUp(g, nx2, pr2, r)
  BY <1>1, <1>2, <1>3, <1>4, <1>5 DEF LinksUp
<1> QED BY <1>6 DEF r

(* s without its j-th entry.                                               *)
Without(s, j) == [i \in 1..Len(s) - 1 |-> IF i < j THEN s[i] ELSE s[i + 1]]

LEMMA WithoutProperties ==
  ASSUME NEW s \in Seq(Task), Distinct(s), NEW j \in 1..Len(s)
  PROVE  /\ Without(s, j) \in Seq(Task) /\ Distinct(Without(s, j))
         /\ Len(Without(s, j)) = Len(s) - 1
         /\ \A i \in 1..Len(s) - 1 : /\ i < j => Without(s, j)[i] = s[i]
                                     /\ i >= j => Without(s, j)[i] = s[i + 1]
         /\ Without(s, 1) = Tail(s)
         /\ Abstract!tqueue_remove_entry(s, s[j]) = Without(s, j)
<1> DEFINE n == Len(s)
           r == Without(s, j)
<1>1. n \in Nat /\ n >= 1 /\ j \in Nat /\ n - 1 \in Nat
  OBVIOUS
<1>2. \A i \in 1..n - 1 : i \in 1..n /\ i + 1 \in 1..n
  BY <1>1
<1>3. r = [i \in 1..n - 1 |-> IF i < j THEN s[i] ELSE s[i + 1]]
  BY DEF Without
<1>4. \A i \in 1..n : s[i] \in Task
  OBVIOUS
<1>5. r \in Seq(Task) /\ Len(r) = n - 1
  <2>1. \A i \in 1..n - 1 : (IF i < j THEN s[i] ELSE s[i + 1]) \in Task
    BY <1>2, <1>4
  <2>2. r \in [1..n - 1 -> Task]
    BY <1>3, <2>1
  <2> HIDE DEF r
  <2> QED BY <1>1, <2>2
<1> HIDE DEF r
<1>6. \A i \in 1..n - 1 : (i < j => r[i] = s[i]) /\ (i >= j => r[i] = s[i + 1])
  BY <1>1, <1>3
<1>7. Distinct(r)
  <2> SUFFICES ASSUME NEW i \in 1..n - 1, NEW k \in 1..n - 1, r[i] = r[k] PROVE i = k
    BY <1>5 DEF Distinct
  <2>1. r[i] = s[IF i < j THEN i ELSE i + 1] /\ r[k] = s[IF k < j THEN k ELSE k + 1]
    BY <1>3
  <2>2. (IF i < j THEN i ELSE i + 1) = (IF k < j THEN k ELSE k + 1)
    BY <1>2, <2>1 DEF Distinct
  <2> QED BY <1>1, <2>2
<1>8. Without(s, 1) = Tail(s)
  <2> DEFINE u == Tail(s)
             v == Without(s, 1)
  <2>1. u \in Seq(Task) /\ Len(u) = n - 1 /\ \A i \in 1..n - 1 : u[i] = s[i + 1]
    BY <1>1, HeadTailProperties
  <2>2. v = [i \in 1..n - 1 |-> s[i + 1]]
    BY <1>1 DEF Without
  <2> HIDE DEF u, v
  <2>3. u = [i \in 1..n - 1 |-> u[i]]
    BY <1>1, <2>1
  <2>4. u = v
    BY <2>1, <2>2, <2>3
  <2> QED BY <2>4 DEF u, v
<1>9. Abstract!tqueue_remove_entry(s, s[j]) = r
  <2> DEFINE S == Range(s) \ {s[j]}
             I == {i \in 1..n : s[i] \in S}
             at(k) == CHOOSE i \in I : Abstract!Cardinality(I \cap (1..i)) = k
  <2>0. \A T : Abstract!Cardinality(T) = Cardinality(T)
    BY DEF Abstract!Cardinality, Cardinality
  <2>1. I = (1..n) \ {j}
    BY DEF Range, Distinct
  <2>2. Cardinality(I) = n - 1
    <3>1. IsFiniteSet(1..n) /\ Cardinality(1..n) = n
      BY <1>1, IntervalSize
    <3> HIDE DEF I
    <3> QED BY <2>1, <3>1, FS_RemoveElement
  <2>3. ASSUME NEW i \in I
        PROVE  Abstract!Cardinality(I \cap (1..i)) = IF i < j THEN i ELSE i - 1
    <3>1. i \in Nat /\ i \in 1..n /\ i # j
      BY <2>1
    <3>2. IsFiniteSet(1..i) /\ Cardinality(1..i) = i
      BY <3>1, IntervalSize
    <3>3. I \cap (1..i) = (1..i) \ {j}
      BY <1>1, <2>1, <3>1
    <3>4. Cardinality((1..i) \ {j}) = IF j \in 1..i THEN i - 1 ELSE i
      BY <3>2, FS_RemoveElement
    <3>5. j \in 1..i <=> ~(i < j)
      BY <1>1, <3>1
    <3> HIDE DEF I
    <3> QED BY <2>0, <3>3, <3>4, <3>5
  <2> HIDE DEF I
  <2>4. ASSUME NEW k \in 1..n - 1 PROVE s[at(k)] = r[k]
    <3> DEFINE i == IF k < j THEN k ELSE k + 1
    <3>1. i \in I /\ (IF i < j THEN i ELSE i - 1) = k
      BY <1>1, <2>1
    <3>2. \A o \in I : (IF o < j THEN o ELSE o - 1) = k => o = i
      BY <1>1, <2>1
    <3> HIDE DEF i
    <3>3. at(k) = i
      BY <2>3, <3>1, <3>2
    <3>4. r[k] = s[i]
      BY <1>3 DEF i
    <3> QED BY <3>3, <3>4
  <2>5. Abstract!tqueue_remove_entry(s, s[j]) = [k \in 1..n - 1 |-> s[at(k)]]
    <3>1. Abstract!Range(s) = Range(s)
      BY DEF Abstract!Range, Range
    <3>2. Abstract!tqueue_remove_entry(s, s[j]) =
            [k \in 1..Abstract!Cardinality(I) |-> s[at(k)]]
      BY <3>1 DEF Abstract!tqueue_remove_entry, Abstract!Entries, I
    <3>3. Abstract!Cardinality(I) = n - 1
      BY <2>0, <2>2
    <3> HIDE DEF I, at
    <3> QED BY <3>2, <3>3
  <2> HIDE DEF at
  <2> QED BY <1>3, <1>5, <2>4, <2>5
<1> QED BY <1>5, <1>6, <1>7, <1>8, <1>9 DEF r

(* The first TCB is unlinked.                                              *)
LEMMA UnlinkedTop ==
  ASSUME NEW f, NEW nx, NEW pr, NEW s, LinksUp(f, nx, pr, s), s # <<>>, NEW pr2,
         \A i \in 2..Len(s) : pr2[s[i]] = IF i = 2 THEN pr[f] ELSE pr[s[i]]
  PROVE  LinksUp(nx[f], nx, pr2, Tail(s))
<1> DEFINE r == Tail(s)
           n == Len(s)
<1>1. /\ s \in Seq(Task) /\ n \in Nat /\ n >= 1 /\ f = s[1] /\ nx[s[n]] = NULL /\ pr[s[1]] = s[n]
      /\ \A i \in 1..n - 1 : nx[s[i]] = s[i + 1] /\ pr[s[i + 1]] = s[i]
  BY DEF LinksUp
<1>2. r \in Seq(Task) /\ Len(r) = n - 1 /\ \A i \in 1..n - 1 : r[i] = s[i + 1]
  BY <1>1, HeadTailProperties
<1> HIDE DEF r
<1>3. Distinct(r)
  <2> SUFFICES ASSUME NEW i \in 1..n - 1, NEW j \in 1..n - 1, r[i] = r[j] PROVE i = j
    BY <1>2 DEF Distinct
  <2>1. s[i + 1] = s[j + 1] /\ i + 1 \in 1..n /\ j + 1 \in 1..n
    BY <1>1, <1>2
  <2>2. i + 1 = j + 1
    BY <2>1 DEF LinksUp, Distinct
  <2> QED BY <2>2
<1>4. CASE n = 1
  <2>1. r = <<>> /\ nx[f] = NULL
    BY <1>1, <1>2, <1>4
  <2>2. LinksUp(nx[f], nx, pr2, r)
    BY <1>2, <1>3, <1>4, <2>1 DEF LinksUp
  <2> QED BY <1>4, <2>1, <2>2 DEF r
<1>5. CASE n # 1
  <2>1. /\ 1 \in 1..n - 1 /\ 2 \in 2..n /\ n - 1 \in 1..n - 1 /\ (n - 1) + 1 = n /\ 1 + 1 = 2
        /\ r # <<>> /\ 2 \in 1..n
    BY <1>1, <1>2, <1>5
  <2>2. nx[f] = s[2] /\ r[1] = s[2] /\ r[n - 1] = s[n] /\ pr2[s[2]] = s[n]
    BY <1>1, <1>2, <2>1
  <2>3. ASSUME NEW i \in 1..(n - 1) - 1 PROVE nx[r[i]] = r[i + 1] /\ pr2[r[i + 1]] = r[i]
    <3>1. /\ i \in 1..n - 1 /\ i + 1 \in 1..n - 1 /\ (i + 1) + 1 \in 2..n /\ (i + 1) + 1 # 2
      BY <1>1
    <3>2. /\ r[i] = s[i + 1] /\ r[i + 1] = s[(i + 1) + 1]
          /\ nx[s[i + 1]] = s[(i + 1) + 1] /\ pr[s[(i + 1) + 1]] = s[i + 1]
      BY <1>1, <1>2, <3>1
    <3>3. pr2[s[(i + 1) + 1]] = pr[s[(i + 1) + 1]]
      BY <3>1
    <3> QED BY <3>2, <3>3
  <2>4. LinksUp(nx[f], nx, pr2, r)
    BY <1>1, <1>2, <1>3, <2>1, <2>2, <2>3 DEF LinksUp
  <2> QED BY <1>5, <2>1, <2>2, <2>4 DEF r
<1> QED BY <1>4, <1>5

(* Another one is.                                                         *)
LEMMA UnlinkedInner ==
  ASSUME NEW f, NEW nx, NEW pr, NEW s, LinksUp(f, nx, pr, s), NEW j \in 2..Len(s),
         NEW nx2, NEW pr2,
         \A i \in 1..Len(s) :
           /\ nx2[s[i]] = IF i = j - 1 THEN nx[s[j]] ELSE nx[s[i]]
           /\ pr2[s[i]] = IF i = (IF j = Len(s) THEN 1 ELSE j + 1) THEN pr[s[j]] ELSE pr[s[i]]
  PROVE  LinksUp(f, nx2, pr2, Without(s, j))
<1> DEFINE r == Without(s, j)
           n == Len(s)
<1>1. /\ s \in Seq(Task) /\ Distinct(s) /\ n \in Nat /\ n >= 2 /\ j \in 1..n /\ j \in Nat /\ j >= 2
      /\ f = s[1] /\ nx[s[n]] = NULL /\ pr[s[1]] = s[n]
      /\ \A i \in 1..n - 1 : nx[s[i]] = s[i + 1] /\ pr[s[i + 1]] = s[i]
  BY DEF LinksUp
<1>2. /\ r \in Seq(Task) /\ Distinct(r) /\ Len(r) = n - 1
      /\ \A i \in 1..n - 1 : (i < j => r[i] = s[i]) /\ (i >= j => r[i] = s[i + 1])
  BY <1>1, WithoutProperties
<1>3. r # <<>> /\ 1 \in 1..n - 1 /\ n - 1 \in 1..n - 1 /\ r[1] = s[1] /\ 1 < j
  BY <1>1, <1>2
<1> HIDE DEF r
<1>4. j - 1 \in 1..n - 1 /\ (j - 1) + 1 = j /\ pr[s[j]] = s[j - 1] /\ nx[s[j - 1]] = s[j]
  BY <1>1
<1>5. nx2[r[n - 1]] = NULL /\ pr2[r[1]] = r[n - 1]
  <2>1. CASE j = n
    <3>1. r[n - 1] = s[n - 1] /\ n - 1 \in 1..n /\ 1 \in 1..n
      BY <1>1, <1>2, <1>3, <2>1
    <3>2. nx2[s[n - 1]] = nx[s[j]] /\ pr2[s[1]] = pr[s[j]]
      BY <2>1, <3>1
    <3> QED BY <1>1, <1>3, <1>4, <2>1, <3>1, <3>2
  <2>2. CASE j # n
    <3>1. r[n - 1] = s[n] /\ n \in 1..n /\ 1 \in 1..n /\ n # j - 1 /\ 1 # j + 1
      BY <1>1, <1>2, <1>3, <2>2
    <3>2. nx2[s[n]] = nx[s[n]] /\ pr2[s[1]] = pr[s[1]]
      BY <2>2, <3>1
    <3> QED BY <1>1, <1>3, <3>1, <3>2
  <2> QED BY <2>1, <2>2
<1>6. ASSUME NEW i \in 1..(n - 1) - 1 PROVE nx2[r[i]] = r[i + 1] /\ pr2[r[i + 1]] = r[i]
  <2>1. i \in Nat /\ i \in 1..n - 1 /\ i + 1 \in 1..n - 1 /\ i \in 1..n /\ i + 1 \in 1..n
    BY <1>1
  <2>2. CASE i + 1 < j
    <3>1. r[i] = s[i] /\ r[i + 1] = s[i + 1]
      BY <1>1, <1>2, <2>1, <2>2
    <3>2. i # j - 1 /\ i + 1 # 1 /\ i + 1 # j + 1
      BY <1>1, <2>1, <2>2
    <3>3. nx2[s[i]] = nx[s[i]] /\ pr2[s[i + 1]] = pr[s[i + 1]]
      BY <2>1, <3>2
    <3> QED BY <1>1, <2>1, <3>1, <3>3
  <2>3. CASE i + 1 = j
    <3>1. r[i] = s[i] /\ r[i + 1] = s[j + 1] /\ i = j - 1 /\ j \in 1..n - 1 /\ j + 1 \in 1..n /\ j # n
      BY <1>1, <1>2, <2>1, <2>3
    <3>2. nx2[s[i]] = nx[s[j]] /\ pr2[s[j + 1]] = pr[s[j]]
      BY <2>1, <3>1
    <3> QED BY <1>1, <1>4, <3>1, <3>2
  <2>4. CASE i + 1 > j
    <3>1. /\ r[i] = s[i + 1] /\ r[i + 1] = s[(i + 1) + 1] /\ (i + 1) + 1 \in 1..n
          /\ i + 1 # j - 1 /\ (i + 1) + 1 # j + 1 /\ (i + 1) + 1 # 1
      BY <1>1, <1>2, <2>1, <2>4
    <3>2. nx2[s[i + 1]] = nx[s[i + 1]] /\ pr2[s[(i + 1) + 1]] = pr[s[(i + 1) + 1]]
      BY <2>1, <3>1
    <3> QED BY <1>1, <2>1, <3>1, <3>2
  <2> QED BY <1>1, <2>1, <2>2, <2>3, <2>4
<1>7. LinksUp(f, nx2, pr2, r)
  BY <1>1, <1>2, <1>3, <1>5, <1>6 DEF LinksUp
<1> QED BY <1>7 DEF r

(***************************************************************************)
(* The steps.                                                              *)
(***************************************************************************)
(* When all queues are linked up as r says, r is what they hold.           *)
LEMMA NewContents ==
  ASSUME NEW r, r = [k \in Queue |-> r[k]],
         first' = [k \in Queue |-> first'[k]],
         next' = [t \in Task |-> next'[t]], pre' = [t \in Task |-> pre'[t]],
         \A k \in Queue : LinksUp(first'[k], next', pre', r[k]),
         Apart(r)
  PROVE  ListInv' /\ Contents' = r
<1>1. \A k \in Queue : Content(k)' = r[k]
  <2> SUFFICES ASSUME NEW k \in Queue PROVE Content(k)' = r[k]
    OBVIOUS
  <2>1. Content(k)' = Walked(next', first'[k])
    BY DEF Content, Chain, Walked
  <2> QED BY <2>1, WalkedChain
<1>2. Contents' = r
  BY <1>1 DEF Contents
<1>3. ListInv'
  BY <1>1, <1>2 DEF ListInv, Apart
<1> QED BY <1>2, <1>3

(* What the invariant says of one queue.                                   *)
LEMMA ContentFacts ==
  ASSUME ListInv, NEW k \in Queue
  PROVE  /\ Content(k) \in Seq(Task) /\ Len(Content(k)) \in Nat
         /\ LinksUp(first[k], next, pre, Content(k))
         /\ Linked(k) = {Content(k)[i] : i \in 1..Len(Content(k))}
         /\ first[k] # NULL <=> Content(k) # <<>>
<1>1. LinksUp(first[k], next, pre, Content(k))
  BY DEF ListInv
<1>2. Content(k) \in Seq(Task) /\ Len(Content(k)) \in Nat
  BY <1>1 DEF LinksUp
<1>3. Content(k) # <<>> => first[k] \in Task
  <2>1. Content(k) # <<>> => 1 \in 1..Len(Content(k)) /\ first[k] = Content(k)[1]
    BY <1>1, <1>2 DEF LinksUp
  <2> QED BY <1>2, <2>1
<1>4. first[k] # NULL <=> Content(k) # <<>>
  BY <1>1, <1>3, ListAssumption DEF LinksUp
<1>5. Linked(k) = {Content(k)[i] : i \in 1..Len(Content(k))}
  <2>1. Linked(k) = Range(Content(k))
    BY DEF Linked, Content
  <2>2. DOMAIN Content(k) = 1..Len(Content(k))
    BY <1>2
  <2> QED BY <2>1, <2>2 DEF Range
<1> QED BY <1>1, <1>2, <1>4, <1>5

(* The queues of the abstract specification are the contents.              *)
LEMMA AbstractSteps ==
  ASSUME ListInv, NEW k \in Queue
  PROVE  /\ \A t \in Task :
              /\ \A q \in Queue : t \notin Linked(q)
              /\ Contents' = [Contents EXCEPT ![k] = Append(Content(k), t)]
              => Abstract!Add(k, t)
         /\ /\ Content(k) # <<>>
            /\ Contents' = [Contents EXCEPT ![k] = Tail(Content(k))]
            => Abstract!RemoveTop(k)
         /\ \A t \in Linked(k) :
              Contents' = [Contents EXCEPT ![k] = Abstract!tqueue_remove_entry(Content(k), t)]
              => Abstract!Remove(k, t)
<1>1. Contents[k] = Content(k)
  BY DEF Contents
<1>2. \A q \in Queue : Abstract!InQueue(q) = Linked(q)
  <2> SUFFICES ASSUME NEW q \in Queue PROVE Abstract!InQueue(q) = Linked(q)
    OBVIOUS
  <2> QED BY DEF Abstract!InQueue, Linked, Abstract!Range, Range
<1>3. ASSUME NEW t \in Task, \A q \in Queue : t \notin Linked(q) PROVE t \in Abstract!Unlinked
  BY <1>2, <1>3 DEF Abstract!Unlinked
<1> QED BY <1>1, <1>2, <1>3
  DEF Abstract!Add, Abstract!RemoveTop, Abstract!Remove, Abstract!tqueue_add_entry,
      Abstract!tqueue_remove_top, Contents, Content

(* Queues of which one has another content, of TCBs that were in it or in  *)
(* none, have no TCB in common.                                            *)
LEMMA StillApart ==
  ASSUME ListInv, NEW k \in Queue, NEW w,
         \A i \in 1..Len(w) : w[i] \in Linked(k) \/ \A q \in Queue : w[i] \notin Linked(q)
  PROVE  Apart([Contents EXCEPT ![k] = w])
<1> DEFINE r == [Contents EXCEPT ![k] = w]
<1>1. r[k] = w /\ \A q \in Queue : q # k => r[q] = Content(q)
  BY DEF Contents
<1>2. \A q \in Queue : Linked(q) = {Content(q)[i] : i \in 1..Len(Content(q))}
  BY ContentFacts
<1>3. \A p, q \in Queue : \A x : x \in Linked(p) /\ x \in Linked(q) => p = q
  <2> SUFFICES ASSUME NEW p \in Queue, NEW q \in Queue, NEW x \in Linked(p), x \in Linked(q)
               PROVE  p = q
    OBVIOUS
  <2>1. PICK i \in 1..Len(Content(p)) : x = Content(p)[i]
    BY <1>2
  <2>2. PICK j \in 1..Len(Content(q)) : x = Content(q)[j]
    BY <1>2
  <2>3. Contents[p] = Content(p) /\ Contents[q] = Content(q)
    BY DEF Contents
  <2>4. Apart(Contents)
    BY DEF ListInv
  <2> HIDE DEF r
  <2> QED BY <2>1, <2>2, <2>3, <2>4 DEF Apart
<1>4. ASSUME NEW p \in Queue, NEW i \in 1..Len(r[p])
      PROVE  r[p][i] \in Linked(p) \/ (p = k /\ \A q \in Queue : r[p][i] \notin Linked(q))
  BY <1>1, <1>2
<1> HIDE DEF r
<1>5. ASSUME NEW p \in Queue, NEW q \in Queue, NEW i \in 1..Len(r[p]), NEW j \in 1..Len(r[q]),
             r[p][i] = r[q][j]
      PROVE  p = q
  BY <1>3, <1>4, <1>5
<1>6. Apart(r)
  BY <1>5 DEF Apart
<1> QED BY <1>6 DEF r

(* The other queues stay as they were.                                     *)
LEMMA OthersUntouched ==
  ASSUME ListInv, NEW k \in Queue, NEW q \in Queue, q # k,
         \A u \in Task : u \notin Linked(k) /\ (\E p \in Queue : u \in Linked(p)) =>
                           next'[u] = next[u] /\ pre'[u] = pre[u],
         first'[q] = first[q]
  PROVE  LinksUp(first'[q], next', pre', Content(q))
<1> DEFINE s == Content(q)
<1>1. LinksUp(first[q], next, pre, s) /\ s \in Seq(Task) /\ Len(s) \in Nat
  BY ContentFacts
<1>2. ASSUME NEW i \in 1..Len(s) PROVE next'[s[i]] = next[s[i]] /\ pre'[s[i]] = pre[s[i]]
  <2>1. s[i] \in Task /\ s[i] \in Linked(q)
    BY <1>1, ContentFacts
  <2>2. s[i] \notin Linked(k)
    <3> SUFFICES ASSUME s[i] \in Linked(k) PROVE FALSE
      OBVIOUS
    <3>1. PICK j \in 1..Len(Content(k)) : s[i] = Content(k)[j]
      BY ContentFacts
    <3> QED BY <3>1 DEF ListInv, Apart, Contents
  <2> QED BY <2>1, <2>2
<1> HIDE DEF s
<1>3. LinksUp(first[q], next', pre', s)
  BY <1>1, <1>2, Untouched
<1> QED BY <1>3 DEF s

LEMMA AddsEntry ==
  ASSUME ListInv, NEW k \in Queue, NEW t \in Task, tqueue_add_entry(k, t)
  PROVE  ListInv' /\ Abstract!Add(k, t)
<1> DEFINE s == Content(k)
           n == Len(s)
           r == [Contents EXCEPT ![k] = Append(s, t)]
<1>1. /\ s \in Seq(Task) /\ n \in Nat /\ LinksUp(first[k], next, pre, s)
      /\ Linked(k) = {s[i] : i \in 1..n} /\ (first[k] # NULL <=> s # <<>>)
  BY ContentFacts
<1>2. /\ \A q \in Queue : t \notin Linked(q)
      /\ \A i \in 1..n : s[i] \in Task /\ s[i] # t
  BY <1>1 DEF tqueue_add_entry
<1>3. /\ first = [q \in Queue |-> first[q]]
      /\ next = [u \in Task |-> next[u]] /\ pre = [u \in Task |-> pre[u]]
  BY DEF ListInv
<1>4. /\ s # <<>> => n \in 1..n /\ 1 \in 1..n /\ first[k] = s[1] /\ pre[first[k]] = s[n]
                     /\ first[k] \in Task /\ s[n] \in Task
      /\ \A i, j \in 1..n : s[i] = s[j] => i = j
  BY <1>1, <1>2 DEF LinksUp, Distinct
<1> HIDE DEF s, n
<1>5. /\ first' = [q \in Queue |-> first'[q]]
      /\ next' = [u \in Task |-> next'[u]] /\ pre' = [u \in Task |-> pre'[u]]
      /\ first'[k] = (IF s = <<>> THEN t ELSE first[k])
      /\ \A q \in Queue : q # k => first'[q] = first[q]
      /\ next'[t] = NULL /\ pre'[t] = (IF s = <<>> THEN t ELSE s[n])
      /\ \A u \in Task : u # t =>
           /\ next'[u] = IF s # <<>> /\ u = s[n] THEN t ELSE next[u]
           /\ pre'[u] = IF s # <<>> /\ u = s[1] THEN t ELSE pre[u]
  <2>1. CASE s = <<>>
    <3>1. /\ first' = [first EXCEPT ![k] = t] /\ pre' = [pre EXCEPT ![t] = t]
          /\ next' = [next EXCEPT ![t] = NULL]
      BY <1>1, <2>1 DEF tqueue_add_entry
    <3> QED BY <1>3, <2>1, <3>1
  <2>2. CASE s # <<>>
    <3>1. /\ next' = [next EXCEPT ![s[n]] = t, ![t] = NULL]
          /\ pre' = [pre EXCEPT ![t] = s[n], ![s[1]] = t] /\ first' = first
      BY <1>1, <1>4, <2>2 DEF tqueue_add_entry
    <3>2. s[n] # t /\ s[1] # t /\ s[n] \in Task /\ s[1] \in Task
      BY <1>2, <1>4, <2>2
    <3>3. /\ next' = [u \in Task |-> next'[u]] /\ next'[t] = NULL
          /\ \A u \in Task : u # t => next'[u] = IF u = s[n] THEN t ELSE next[u]
      BY <1>3, <3>1, <3>2
    <3>4. /\ pre' = [u \in Task |-> pre'[u]] /\ pre'[t] = s[n]
          /\ \A u \in Task : u # t => pre'[u] = IF u = s[1] THEN t ELSE pre[u]
      BY <1>3, <3>1, <3>2
    <3> QED BY <1>3, <2>2, <3>1, <3>3, <3>4
  <2> QED BY <2>1, <2>2
<1>6. ASSUME NEW i \in 1..n
      PROVE  /\ next'[s[i]] = IF i = n THEN t ELSE next[s[i]]
             /\ pre'[s[i]] = IF i = 1 THEN t ELSE pre[s[i]]
  <2>1. s # <<>> /\ s[i] \in Task /\ s[i] # t
    BY <1>1, <1>2 DEF n
  <2>2. (s[i] = s[n] <=> i = n) /\ (s[i] = s[1] <=> i = 1)
    BY <1>4, <2>1
  <2> QED BY <1>5, <2>1, <2>2
<1>7. LinksUp(first'[k], next', pre', Append(s, t))
  BY <1>1, <1>2, <1>5, <1>6, LinkedBehind DEF n
<1>8. ASSUME NEW q \in Queue, q # k PROVE LinksUp(first'[q], next', pre', Content(q))
  <2>1. \A u \in Task : u \notin Linked(k) /\ (\E p \in Queue : u \in Linked(p)) =>
                          next'[u] = next[u] /\ pre'[u] = pre[u]
    <3> SUFFICES ASSUME NEW u \in Task, u \notin Linked(k), \E p \in Queue : u \in Linked(p)
                 PROVE  next'[u] = next[u] /\ pre'[u] = pre[u]
      OBVIOUS
    <3>1. u # t
      BY <1>2
    <3>2. s # <<>> => u # s[n] /\ u # s[1]
      BY <1>1, <1>4
    <3> QED BY <1>5, <3>1, <3>2
  <2> QED BY <1>5, <1>8, <2>1, OthersUntouched
<1>9. /\ r = [q \in Queue |-> r[q]] /\ r[k] = Append(s, t)
      /\ \A q \in Queue : q # k => r[q] = Content(q)
  BY DEF Contents
<1>10. Apart(r)
  <2> DEFINE w == Append(s, t)
  <2>1. Len(w) = n + 1 /\ w[n + 1] = t /\ \A i \in 1..n : w[i] = s[i]
    BY <1>1, AppendProperties DEF n
  <2> HIDE DEF w
  <2>2. ASSUME NEW i \in 1..Len(w)
        PROVE  w[i] \in Linked(k) \/ \A q \in Queue : w[i] \notin Linked(q)
    <3>1. i \in 1..n \/ i = n + 1
      BY <1>1, <2>1
    <3> QED BY <1>1, <1>2, <2>1, <3>1
  <2>3. Apart([Contents EXCEPT ![k] = w])
    BY <2>2, StillApart
  <2> QED BY <2>3 DEF w
<1> HIDE DEF r
<1>11. \A q \in Queue : LinksUp(first'[q], next', pre', r[q])
  BY <1>7, <1>8, <1>9
<1>12. ListInv' /\ Contents' = r
  BY <1>5, <1>9, <1>10, <1>11, NewContents
<1> QED BY <1>2, <1>12, AbstractSteps DEF r, s

LEMMA RemovesTop ==
  ASSUME ListInv, NEW k \in Queue, tqueue_remove_top(k)
  PROVE  /\ ListInv' /\ Content(k) # <<>>
         /\ Contents' = [Contents EXCEPT ![k] = Tail(Content(k))]
<1> DEFINE s == Content(k)
           n == Len(s)
           w == Tail(s)
           r == [Contents EXCEPT ![k] = w]
<1>1. /\ s \in Seq(Task) /\ n \in Nat /\ LinksUp(first[k], next, pre, s)
      /\ Linked(k) = {s[i] : i \in 1..n} /\ (first[k] # NULL <=> s # <<>>)
  BY ContentFacts
<1>2. s # <<>> /\ n >= 1 /\ 1 \in 1..n
  BY <1>1 DEF tqueue_remove_top
<1> HIDE DEF s
<1>3. /\ first = [q \in Queue |-> first[q]]
      /\ next = [u \in Task |-> next[u]] /\ pre = [u \in Task |-> pre[u]]
  BY DEF ListInv
<1>4. /\ first[k] = s[1] /\ \A i \in 1..n : s[i] \in Task /\ s[i] # NULL
      /\ \A i, j \in 1..n : s[i] = s[j] => i = j
      /\ n = 1 => next[first[k]] = NULL
      /\ n # 1 => 2 \in 1..n /\ next[first[k]] = s[2]
  <2>1. /\ n = 1 => next[first[k]] = NULL
        /\ n # 1 => 2 \in 1..n /\ next[first[k]] = s[2]
    <3>1. /\ first[k] = s[1] /\ next[s[n]] = NULL
          /\ \A i \in 1..n - 1 : next[s[i]] = s[i + 1]
      BY <1>1, <1>2 DEF LinksUp
    <3>2. n \in Nat /\ n >= 1
      BY <1>1, <1>2
    <3> HIDE DEF n
    <3>3. n # 1 => 1 \in 1..n - 1 /\ 2 \in 1..n /\ 1 + 1 = 2
      BY <3>2
    <3> QED BY <3>1, <3>2, <3>3
  <2> QED BY <1>1, <1>2, <2>1, ListAssumption DEF LinksUp, Distinct
<1>5. /\ w \in Seq(Task) /\ Len(w) = n - 1 /\ \A i \in 1..n - 1 : w[i] = s[i + 1]
  BY <1>1, <1>2, HeadTailProperties
<1> HIDE DEF n, w
<1>6. /\ first' = [q \in Queue |-> first'[q]]
      /\ next' = next /\ pre' = [u \in Task |-> pre'[u]]
      /\ first'[k] = next[first[k]]
      /\ \A q \in Queue : q # k => first'[q] = first[q]
      /\ \A u \in Task : pre'[u] = IF n # 1 /\ u = s[2] THEN pre[first[k]] ELSE pre[u]
  <2>1. /\ first' = [first EXCEPT ![k] = next[first[k]]] /\ next' = next
        /\ pre' = IF first'[k] = NULL THEN pre ELSE [pre EXCEPT ![first'[k]] = pre[first[k]]]
    BY DEF tqueue_remove_top
  <2>2. /\ first' = [q \in Queue |-> first'[q]] /\ first'[k] = next[first[k]]
        /\ \A q \in Queue : q # k => first'[q] = first[q]
    BY <1>3, <2>1
  <2>3. CASE n = 1
    BY <1>3, <1>4, <2>1, <2>2, <2>3
  <2>4. CASE n # 1
    <3>1. s[2] \in Task /\ s[2] # NULL /\ first'[k] = s[2]
      BY <1>4, <2>2, <2>4
    <3>2. pre' = [pre EXCEPT ![s[2]] = pre[first[k]]]
      BY <2>1, <3>1
    <3> QED BY <1>3, <2>1, <2>2, <2>4, <3>1, <3>2
  <2> QED BY <2>3, <2>4
<1>7. LinksUp(first'[k], next', pre', w)
  <2>1. \A i \in 2..n : pre'[s[i]] = IF i = 2 THEN pre[first[k]] ELSE pre[s[i]]
    <3> SUFFICES ASSUME NEW i \in 2..n
                 PROVE  pre'[s[i]] = IF i = 2 THEN pre[first[k]] ELSE pre[s[i]]
      OBVIOUS
    <3>1. n \in Nat /\ i \in 1..n /\ n # 1 /\ 2 \in 1..n
      BY <1>1
    <3> QED BY <1>4, <1>6, <3>1
  <2>2. \A i \in 2..Len(s) : pre'[s[i]] = IF i = 2 THEN pre[first[k]] ELSE pre[s[i]]
    BY <2>1 DEF n
  <2>3. LinksUp(next[first[k]], next, pre', Tail(s))
    BY <1>1, <1>2, <2>2, UnlinkedTop
  <2>4. LinksUp(next[first[k]], next, pre', w)
    BY <2>3 DEF w
  <2> QED BY <1>6, <2>4
<1>8. ASSUME NEW q \in Queue, q # k PROVE LinksUp(first'[q], next', pre', Content(q))
  <2>1. \A u \in Task : u \notin Linked(k) /\ (\E p \in Queue : u \in Linked(p)) =>
                          next'[u] = next[u] /\ pre'[u] = pre[u]
    BY <1>1, <1>4, <1>6
  <2> QED BY <1>6, <1>8, <2>1, OthersUntouched
<1>9. /\ r = [q \in Queue |-> r[q]] /\ r[k] = w
      /\ \A q \in Queue : q # k => r[q] = Content(q)
  BY DEF Contents
<1>10. Apart(r)
  <2>1. ASSUME NEW i \in 1..Len(w) PROVE w[i] \in Linked(k)
    <3>1. i \in 1..n - 1 /\ i + 1 \in 1..n
      BY <1>1, <1>5 DEF n
    <3> QED BY <1>1, <1>5, <3>1
  <2> QED BY <2>1, StillApart
<1> HIDE DEF r
<1>11. \A q \in Queue : LinksUp(first'[q], next', pre', r[q])
  BY <1>7, <1>8, <1>9
<1>12. ListInv' /\ Contents' = r
  BY <1>3, <1>6, <1>9, <1>10, <1>11, NewContents
<1> QED BY <1>2, <1>12 DEF r, s, w

LEMMA RemovesEntry ==
  ASSUME ListInv, NEW k \in Queue, NEW t \in Task, tqueue_remove_entry(k, t)
  PROVE  ListInv' /\ Abstract!Remove(k, t)
<1> DEFINE s == Content(k)
           n == Len(s)
<1>1. /\ s \in Seq(Task) /\ n \in Nat /\ LinksUp(first[k], next, pre, s)
      /\ Linked(k) = {s[i] : i \in 1..n} /\ (first[k] # NULL <=> s # <<>>)
  BY ContentFacts
<1>2. t \in Linked(k)
  BY DEF tqueue_remove_entry
<1>3. PICK j \in 1..n : t = s[j]
  BY <1>1, <1>2
<1>4. /\ first = [q \in Queue |-> first[q]]
      /\ next = [u \in Task |-> next[u]] /\ pre = [u \in Task |-> pre[u]]
  BY DEF ListInv
<1>5. /\ first[k] = s[1] /\ next[s[n]] = NULL /\ pre[s[1]] = s[n] /\ 1 \in 1..n /\ n >= 1
      /\ \A i \in 1..n : s[i] \in Task /\ s[i] # NULL
      /\ \A i, l \in 1..n : s[i] = s[l] => i = l
      /\ \A i \in 1..n - 1 : next[s[i]] = s[i + 1] /\ pre[s[i + 1]] = s[i]
  <2>1. s # <<>> /\ n >= 1 /\ 1 \in 1..n
    BY <1>1, <1>3
  <2>2. /\ first[k] = s[1] /\ next[s[n]] = NULL /\ pre[s[1]] = s[n] /\ Distinct(s)
        /\ \A i \in 1..n - 1 : next[s[i]] = s[i + 1] /\ pre[s[i + 1]] = s[i]
    BY <1>1, <2>1 DEF LinksUp
  <2>3. \A i \in 1..n : s[i] \in Task /\ s[i] # NULL
    BY <1>1, ListAssumption
  <2>4. \A i, l \in 1..n : s[i] = s[l] => i = l
    BY <2>2 DEF Distinct
  <2> QED BY <2>1, <2>2, <2>3, <2>4
<1> DEFINE w == Without(s, j)
           r == [Contents EXCEPT ![k] = w]
<1>6. /\ w \in Seq(Task) /\ Len(w) = n - 1
      /\ \A i \in 1..n - 1 : (i < j => w[i] = s[i]) /\ (i >= j => w[i] = s[i + 1])
      /\ Without(s, 1) = Tail(s) /\ Abstract!tqueue_remove_entry(s, t) = w
  <2>1. Distinct(s)
    BY <1>1 DEF LinksUp
  <2> QED BY <1>1, <1>3, <2>1, WithoutProperties
<1> HIDE DEF s, n, w, r
<1>7. ListInv' /\ Contents' = r
  <2>1. CASE first[k] = t
    <3>1. j = 1
      BY <1>3, <1>5, <2>1
    <3>2. tqueue_remove_top(k)
      BY <2>1 DEF tqueue_remove_entry
    <3>3. ListInv' /\ Contents' = [Contents EXCEPT ![k] = Tail(s)]
      BY <3>2, RemovesTop DEF s
    <3> QED BY <1>6, <3>1, <3>3 DEF r, w
  <2>2. CASE first[k] # t
    <3> DEFINE m == IF j = n THEN 1 ELSE j + 1
    <3>1. n \in Nat /\ j \in 2..n /\ j - 1 \in 1..n /\ pre[t] = s[j - 1]
      <4>1. n \in Nat /\ j # 1
        BY <1>1, <1>3, <1>5, <2>2 DEF n
      <4>2. j \in 2..n /\ j - 1 \in 1..n - 1 /\ j - 1 \in 1..n /\ (j - 1) + 1 = j
        BY <4>1
      <4> QED BY <1>3, <1>5, <4>1, <4>2
    <3>2. /\ m \in 1..n /\ s[m] \in Task
          /\ s[m] = IF next[t] # NULL THEN next[t] ELSE first[k]
      <4>1. CASE j = n
        BY <1>3, <1>5, <4>1
      <4>2. CASE j # n
        <5>1. j \in 1..n - 1 /\ m = j + 1 /\ m \in 1..n
          BY <3>1, <4>2
        <5> QED BY <1>3, <1>5, <5>1
      <4> QED BY <4>1, <4>2
    <3> HIDE DEF m
    <3> DEFINE a == s[j - 1]
               b == s[m]
    <3>3. /\ next' = [next EXCEPT ![a] = next[t]] /\ pre' = [pre EXCEPT ![b] = a]
          /\ first' = first
      BY <2>2, <3>1, <3>2 DEF tqueue_remove_entry
    <3>4. /\ a \in Linked(k) /\ b \in Linked(k)
          /\ \A i \in 1..n : (s[i] = a <=> i = j - 1) /\ (s[i] = b <=> i = m)
      BY <1>1, <1>5, <3>1, <3>2
    <3>5. pre[s[j]] = a /\ next[s[j]] = next[t]
      BY <1>3, <3>1
    <3> HIDE DEF a, b
    <3>6. /\ next' = [u \in Task |-> next'[u]]
           /\ \A u \in Task : next'[u] = IF u = a THEN next[t] ELSE next[u]
      BY <1>4, <3>3
    <3>7. /\ pre' = [u \in Task |-> pre'[u]]
           /\ \A u \in Task : pre'[u] = IF u = b THEN a ELSE pre[u]
      BY <1>4, <3>3
    <3>8. ASSUME NEW i \in 1..n
           PROVE  /\ next'[s[i]] = IF i = j - 1 THEN next[s[j]] ELSE next[s[i]]
                  /\ pre'[s[i]] = IF i = m THEN pre[s[j]] ELSE pre[s[i]]
      <4>1. s[i] \in Task
        BY <1>5
      <4>2. /\ next'[s[i]] = IF s[i] = a THEN next[t] ELSE next[s[i]]
            /\ pre'[s[i]] = IF s[i] = b THEN a ELSE pre[s[i]]
        BY <3>6, <3>7, <4>1
      <4> QED BY <3>4, <3>5, <4>2
    <3>9. LinksUp(first'[k], next', pre', w)
      <4>1. LinksUp(first[k], next', pre', Without(s, j))
        BY <1>1, <3>1, <3>8, UnlinkedInner DEF n, m
      <4> QED BY <3>3, <4>1 DEF w
    <3>10. ASSUME NEW q \in Queue, q # k PROVE LinksUp(first'[q], next', pre', Content(q))
      <4>1. \A u \in Task : u \notin Linked(k) /\ (\E p \in Queue : u \in Linked(p)) =>
                              next'[u] = next[u] /\ pre'[u] = pre[u]
        BY <3>4, <3>6, <3>7
      <4> QED BY <3>3, <3>10, <4>1, OthersUntouched
    <3>11. /\ r = [q \in Queue |-> r[q]] /\ r[k] = w
          /\ \A q \in Queue : q # k => r[q] = Content(q)
      BY DEF Contents, r
    <3>12. Apart(r)
      <4>1. ASSUME NEW i \in 1..Len(w) PROVE w[i] \in Linked(k)
        <5>1. n \in Nat /\ i \in 1..n - 1 /\ i \in 1..n /\ i + 1 \in 1..n /\ (i < j \/ i >= j)
          BY <1>6, <3>1
        <5>2. w[i] = s[i] \/ w[i] = s[i + 1]
          BY <1>6, <5>1
        <5> QED BY <1>1, <5>1, <5>2
      <4> QED BY <4>1, StillApart DEF r
    <3>13. \A q \in Queue : LinksUp(first'[q], next', pre', r[q])
      BY <3>9, <3>10, <3>11
    <3> QED BY <1>4, <3>3, <3>6, <3>7, <3>11, <3>12, <3>13, NewContents
  <2> QED BY <2>1, <2>2
<1> QED BY <1>2, <1>6, <1>7, AbstractSteps DEF r, s

(***************************************************************************)
(* The theorems.                                                           *)
(***************************************************************************)

LEMMA ListInit ==
  ASSUME Init
  PROVE  ListInv /\ Abstract!Init
<1>1. ASSUME NEW k \in Queue PROVE Content(k) = <<>> /\ LinksUp(first[k], next, pre, <<>>)
  <2>1. LinksUp(NULL, next, pre, <<>>)
    BY DEF LinksUp, Distinct
  <2>2. first[k] = NULL
    BY DEF Init
  <2>3. Content(k) = Walked(next, first[k])
    BY DEF Content, Chain, Walked
  <2> QED BY <2>1, <2>2, <2>3, WalkedChain
<1>2. Contents = [k \in Queue |-> <<>>]
  BY <1>1 DEF Contents
<1>3. Apart(Contents)
  BY <1>2 DEF Apart
<1>4. ListInv
  BY <1>1, <1>3 DEF ListInv, Init
<1>5. Abstract!Init
  BY <1>2 DEF Abstract!Init, Contents, Content
<1> QED BY <1>4, <1>5

LEMMA ListNext ==
  ASSUME ListInv, [Next]_listVars
  PROVE  ListInv' /\ [Abstract!Next]_Contents
<1>1. ASSUME NEW k \in Queue, tqueue_remove_top(k) PROVE ListInv' /\ Abstract!Next
  <2>1. ListInv' /\ Abstract!RemoveTop(k)
    BY <1>1, RemovesTop, AbstractSteps
  <2> QED BY <2>1 DEF Abstract!Next
<1>2. ASSUME NEW k \in Queue, NEW t \in Task, tqueue_add_entry(k, t)
      PROVE  ListInv' /\ Abstract!Next
  <2>1. ListInv' /\ Abstract!Add(k, t)
    BY <1>2, AddsEntry
  <2> QED BY <2>1 DEF Abstract!Next
<1>3. ASSUME NEW k \in Queue, NEW t \in Task, tqueue_remove_entry(k, t)
      PROVE  ListInv' /\ Abstract!Next
  <2>1. ListInv' /\ Abstract!Remove(k, t)
    BY <1>3, RemovesEntry
  <2> QED BY <2>1 DEF Abstract!Next
<1>4. CASE UNCHANGED listVars
  <2>1. \A k \in Queue : Content(k)' = Content(k)
    BY <1>4 DEF listVars, Content, Chain
  <2>2. Contents' = Contents
    BY <2>1 DEF Contents
  <2> QED BY <1>4, <2>1, <2>2 DEF listVars, ListInv, Apart
<1> QED BY <1>1, <1>2, <1>3, <1>4 DEF Next

(* src/kernel/task_queue.c: the pointers are queues.  Whatever sequence of *)
(* the three operations the kernel calls, each has on its queue the effect *)
(* of the sequence operator of its name and leaves the others alone.       *)
THEOREM QueuesAreLinked == Spec => ImplementsQueues
<1>1. Init => ListInv /\ Abstract!Init
  BY ListInit
<1>2. ListInv /\ [Next]_listVars => ListInv' /\ [Abstract!Next]_([k \in Queue |-> Chain(first[k])])
  BY ListNext DEF Contents, Content
<1> QED BY <1>1, <1>2, PTL DEF Spec, ImplementsQueues, Abstract!Spec
=============================================================================
