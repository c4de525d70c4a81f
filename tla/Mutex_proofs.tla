---------------------------- MODULE Mutex_proofs ----------------------------
(***************************************************************************)
(* Proofs about Mutex, for every set of tasks and mutexes, every base      *)
(* priority and every time-out.  First, that as many scans as there are    *)
(* tasks compute the priorities of strict inheritance; then how the ready  *)
(* queues stay linked when priorities change; then the inductive invariant *)
(* MtxInv, one lemma for each call; last, the properties.                  *)
(***************************************************************************)
EXTENDS Mutex, Kernel_proofs

(***************************************************************************)
(* Priorities.  B[t] stands for the tasks from which t inherits directly.  *)
(***************************************************************************)

LEMMA PriNumbers == Pri \in SUBSET Nat /\ Pri = 1..MaxPri
BY KernelAssumption DEF Pri

(* A non-empty set of numbers has a minimum. *)
LEMMA MinProperties ==
  ASSUME NEW U \in SUBSET Nat, U # {}
  PROVE  Min(U) \in U /\ \A u \in U : Min(U) <= u
<1>1. PICK p \in U : \A o \in U : p <= o
  BY LeastElement
<1> QED BY <1>1 DEF Min

Relations == [Task -> SUBSET Task]

(* E holds, with each of its tasks and with t, those they inherit from.    *)
Closed(E, B, t) == \A u, v \in Task : u \in B[v] /\ v \in E \cup {t} => u \in E

LeastClosed(D, B, t) ==
  Closed(D, B, t) /\ \A E \in SUBSET Task : Closed(E, B, t) => D \subseteq E

(* The tasks that t inherits from, directly or not. *)
Below(B, t) == {u \in Task : \A E \in SUBSET Task : Closed(E, B, t) => u \in E}

LEMMA BelowIsLeast ==
  ASSUME NEW B, NEW t \in Task
  PROVE  Below(B, t) \in SUBSET Task /\ LeastClosed(Below(B, t), B, t)
<1>1. Closed(Below(B, t), B, t)
  <2> SUFFICES ASSUME NEW u \in Task, NEW v \in Task, u \in B[v], v \in Below(B, t) \cup {t},
                      NEW E \in SUBSET Task, Closed(E, B, t)
               PROVE  u \in E
    BY DEF Closed, Below
  <2>1. v \in E \cup {t}
    BY DEF Below
  <2> QED BY <2>1 DEF Closed
<1> QED BY <1>1 DEF Below, LeastClosed

(* What the tasks that t inherits from inherit, t inherits. *)
LEMMA BelowTransitive ==
  ASSUME NEW B, NEW t \in Task, NEW w \in Task, w \in B[t]
  PROVE  Below(B, w) \cup {w} \subseteq Below(B, t)
<1>1. Closed(Below(B, t), B, t)
  BY BelowIsLeast DEF LeastClosed
<1>2. w \in Below(B, t)
  BY <1>1 DEF Closed
<1>3. Closed(Below(B, t), B, w)
  BY <1>1, <1>2 DEF Closed
<1>4. Below(B, t) \in SUBSET Task
  BY BelowIsLeast
<1>5. Below(B, w) \subseteq Below(B, t)
  BY <1>3, <1>4 DEF Below
<1> QED BY <1>2, <1>5

(* The priorities that inheritance along B gives: no task is less urgent   *)
(* than one it inherits from, and each has its priority from itself or     *)
(* from a task below it.                                                   *)
Strict(pri, B) ==
  /\ pri \in [Task -> Pri]
  /\ \A t \in Task : pri[t] <= BasePri[t] /\ \A w \in B[t] : pri[t] <= pri[w]
  /\ \A t \in Task : \E u \in Below(B, t) \cup {t} : pri[t] = BasePri[u]

(* So the priority is the best among them. *)
LEMMA StrictIsMinimum ==
  ASSUME NEW B \in Relations, NEW pri, Strict(pri, B), NEW t \in Task,
         NEW D \in SUBSET Task, LeastClosed(D, B, t)
  PROVE  pri[t] = Min({BasePri[u] : u \in D \cup {t}})
<1> DEFINE U == {BasePri[u] : u \in D \cup {t}}
           E == {u \in Task : pri[t] <= pri[u]}
<1>1. D = Below(B, t)
  BY BelowIsLeast DEF LeastClosed, Below
<1>2. pri \in [Task -> Pri] /\ BasePri \in [Task -> Pri] /\ Pri \in SUBSET Nat
  BY KernelAssumption DEF Strict, Pri
<1>3. Closed(E, B, t)
  <2> SUFFICES ASSUME NEW u \in Task, NEW v \in Task, u \in B[v], v \in E \cup {t}
               PROVE  pri[t] <= pri[u]
    BY DEF Closed
  <2>1. pri[v] <= pri[u]
    BY DEF Strict
  <2>2. pri[t] <= pri[v]
    BY <1>2
  <2>3. pri[t] \in Nat /\ pri[u] \in Nat /\ pri[v] \in Nat
    BY <1>2
  <2> QED BY <2>1, <2>2, <2>3
<1>4. \A u \in D \cup {t} : pri[t] <= BasePri[u]
  <2> SUFFICES ASSUME NEW u \in D \cup {t} PROVE pri[t] <= BasePri[u]
    OBVIOUS
  <2>1. u \in Task /\ pri[t] <= pri[u]
    <3>1. D \subseteq E
      <4>1. E \in SUBSET Task
        OBVIOUS
      <4> HIDE DEF E
      <4> QED BY <1>3, <4>1 DEF LeastClosed
    <3>2. pri[t] \in Nat
      BY <1>2
    <3> QED BY <3>1, <3>2
  <2>2. pri[u] <= BasePri[u]
    BY <2>1 DEF Strict
  <2>3. pri[t] \in Nat /\ pri[u] \in Nat /\ BasePri[u] \in Nat
    BY <1>2, <2>1
  <2> QED BY <2>1, <2>2, <2>3
<1>5. pri[t] \in U
  BY <1>1 DEF Strict
<1>6. U \in SUBSET Nat /\ U # {} /\ \A x \in U : pri[t] <= x
  <2>1. \A u \in D \cup {t} : BasePri[u] \in Nat
    BY <1>2
  <2> QED BY <1>4, <1>5, <2>1
<1> HIDE DEF U
<1>7. Min(U) \in U /\ Min(U) <= pri[t]
  BY <1>5, <1>6, MinProperties
<1>8. pri[t] <= Min(U) /\ pri[t] \in Nat /\ Min(U) \in Nat
  BY <1>5, <1>6, <1>7
<1>9. pri[t] = Min(U)
  BY <1>7, <1>8
<1> QED BY <1>9 DEF U

(* One scan. *)
LEMMA LoweredProperties ==
  ASSUME NEW pri \in [Task -> Pri], NEW own, NEW wq, NEW obj, NEW B \in Relations,
         \A t \in Task : InheritsFrom(t, own, wq, obj) = B[t]
  PROVE  /\ Lowered(pri, own, wq, obj) \in [Task -> Pri]
         /\ \A t \in Task : /\ Lowered(pri, own, wq, obj)[t] <= pri[t]
                            /\ \A w \in B[t] : Lowered(pri, own, wq, obj)[t] <= pri[w]
                            /\ \E w \in B[t] \cup {t} : Lowered(pri, own, wq, obj)[t] = pri[w]
<1> DEFINE l == Lowered(pri, own, wq, obj)
           U(t) == {pri[w] : w \in B[t] \cup {t}}
<1>1. l = [t \in Task |-> Min(U(t))]
  BY DEF Lowered
<1>2. ASSUME NEW t \in Task PROVE Min(U(t)) \in U(t) /\ \A u \in U(t) : Min(U(t)) <= u
  <2>1. U(t) # {} /\ U(t) \in SUBSET Nat
    BY KernelAssumption DEF Relations, Pri
  <2> DEFINE V == U(t)
  <2> HIDE DEF U
  <2>2. Min(V) \in V /\ \A u \in V : Min(V) <= u
    <3>1. V # {} /\ V \in SUBSET Nat
      BY <2>1
    <3> HIDE DEF V
    <3> QED BY <3>1, MinProperties
  <2> QED BY <2>2
<1> HIDE DEF l
<1>3. ASSUME NEW t \in Task
      PROVE  /\ l[t] <= pri[t] /\ \A w \in B[t] : l[t] <= pri[w]
             /\ \E w \in B[t] \cup {t} : l[t] = pri[w]
  <2> DEFINE m == Min(U(t))
  <2>1. m \in U(t) /\ \A u \in U(t) : m <= u
    BY <1>2
  <2>2. l[t] = m
    BY <1>1
  <2> HIDE DEF m
  <2> QED BY <2>1, <2>2
<1>4. l \in [Task -> Pri]
  <2>1. \A t \in Task : l[t] \in Pri
    BY <1>3 DEF Relations
  <2> QED BY <1>1, <2>1
<1> QED BY <1>3, <1>4 DEF l

(* The equation of the scans. *)
Scans(f, own, wq, obj, N) ==
  f = [n \in 0..N |-> IF n = 0 THEN BasePri ELSE Lowered(f[n - 1], own, wq, obj)]

LEMMA ScansExist ==
  ASSUME NEW own, NEW wq, NEW obj, NEW N \in Nat
  PROVE  \E f : Scans(f, own, wq, obj, N)
<1> DEFINE U == {m \in Nat : \E f : Scans(f, own, wq, obj, m)}
<1>1. 0 \in U
  <2> DEFINE f == [n \in 0..0 |-> BasePri]
  <2>1. f = [n \in 0..0 |-> IF n = 0 THEN BasePri ELSE Lowered(f[n - 1], own, wq, obj)]
    OBVIOUS
  <2> QED BY <2>1 DEF Scans
<1>2. ASSUME NEW m \in U PROVE m + 1 \in U
  <2>1. PICK f : Scans(f, own, wq, obj, m)
    OBVIOUS
  <2> DEFINE g == [n \in 0..m + 1 |-> IF n = m + 1 THEN Lowered(f[m], own, wq, obj) ELSE f[n]]
             h == [n \in 0..m + 1 |->
                     IF n = 0 THEN BasePri ELSE Lowered(g[n - 1], own, wq, obj)]
  <2>2. m \in Nat /\ \A n \in 0..m :
           f[n] = IF n = 0 THEN BasePri ELSE Lowered(f[n - 1], own, wq, obj)
    BY <2>1 DEF Scans
  <2>3. ASSUME NEW n \in 0..m + 1 PROVE g[n] = h[n]
    <3>1. CASE n = m + 1
      <4>1. n # 0 /\ n - 1 = m /\ m \in 0..m + 1 /\ m # m + 1
        BY <2>2, <3>1
      <4>2. g[n - 1] = f[m]
        BY <4>1
      <4> QED BY <3>1, <4>1, <4>2
    <3>2. CASE n # m + 1
      <4>1. n \in 0..m /\ g[n] = f[n]
        BY <2>2, <3>2
      <4>2. CASE n = 0
        BY <2>2, <4>1, <4>2
      <4>3. CASE n # 0
        <5>1. n - 1 \in 0..m + 1 /\ n - 1 # m + 1
          BY <2>2, <4>1, <4>3
        <5>2. g[n - 1] = f[n - 1]
          BY <5>1
        <5> QED BY <2>2, <4>1, <4>3, <5>2
      <4> QED BY <4>2, <4>3
    <3> QED BY <3>1, <3>2
  <2>4. g = h
    BY <2>3
  <2>5. Scans(g, own, wq, obj, m + 1)
    BY <2>4 DEF Scans
  <2> HIDE DEF g, h
  <2> QED BY <2>2, <2>5
<1>3. U = Nat
  <2> HIDE DEF U
  <2>1. U \in SUBSET Nat
    BY DEF U
  <2> QED BY <1>1, <1>2, <2>1, SetInduction
<1> QED BY <1>3

(* The TCB table has an entry for each task. *)
LEMMA TableSize == IsFiniteSet(Task) /\ Cardinality(Task) = Len(tcb_tbl) /\ Len(tcb_tbl) \in Nat
<1> DEFINE N == Len(tcb_tbl)
           g == [i \in 1..N |-> tcb_tbl[i]]
<1>1. /\ tcb_tbl \in Seq(Task) /\ N \in Nat /\ DOMAIN tcb_tbl = 1..N
      /\ Range(tcb_tbl) = Task /\ NoDuplicates(tcb_tbl)
  BY MutexAssumption, LenProperties
<1>2. g \in [1..N -> Task] /\ \A i \in 1..N : g[i] = tcb_tbl[i]
  BY <1>1, ElementOfSeq
<1>3. \A t \in Task : \E i \in 1..N : g[i] = t
  BY <1>1, <1>2 DEF Range
<1>4. \A i, j \in 1..N : g[i] = g[j] => i = j
  BY <1>1, <1>2 DEF NoDuplicates
<1> HIDE DEF g, N
<1>5. ExistsBijection(1..N, Task)
  <2>1. g \in Surjection(1..N, Task)
    BY <1>2, <1>3 DEF Surjection
  <2>2. g \in Injection(1..N, Task)
    BY <1>2, <1>4 DEF Injection, IsInjective
  <2> QED BY <2>1, <2>2 DEF ExistsBijection, Bijection
<1>6. IsFiniteSet(1..N) /\ Cardinality(1..N) = N
  BY <1>1, FS_Interval
<1> QED BY <1>1, <1>5, <1>6, FS_Bijection DEF ExistsBijection, N

(* As many scans as there are tasks reach the fixed point: as long as they *)
(* do not, the set of the tasks that are at least as urgent as p grows.    *)
LEMMA ScansConverge ==
  ASSUME NEW own, NEW wq, NEW obj, NEW B \in Relations,
         \A t \in Task : InheritsFrom(t, own, wq, obj) = B[t],
         NEW f, Scans(f, own, wq, obj, Len(tcb_tbl))
  PROVE  Strict(f[Len(tcb_tbl)], B)
<1> DEFINE N == Len(tcb_tbl)
<1>1. N \in Nat /\ IsFiniteSet(Task) /\ Cardinality(Task) = N
  BY TableSize
<1> HIDE DEF N
<1>2. f[0] = BasePri /\ \A n \in 0..N : n + 1 \in 0..N => f[n + 1] = Lowered(f[n], own, wq, obj)
  <2>1. f = [n \in 0..N |-> IF n = 0 THEN BasePri ELSE Lowered(f[n - 1], own, wq, obj)]
    BY DEF Scans, N
  <2>2. \A n \in 0..N : n + 1 \in 0..N => n + 1 # 0 /\ (n + 1) - 1 = n
    BY <1>1
  <2>3. 0 \in 0..N
    BY <1>1
  <2>4. \A n \in 0..N : f[n] = IF n = 0 THEN BasePri ELSE Lowered(f[n - 1], own, wq, obj)
    BY <2>1
  <2> QED BY <2>2, <2>3, <2>4
<1> DEFINE Sound(n) == /\ f[n] \in [Task -> Pri]
                       /\ \A t \in Task : f[n][t] <= BasePri[t]
                       /\ \A t \in Task : \E u \in Below(B, t) \cup {t} : f[n][t] = BasePri[u]
           Good == {n \in Nat : n \in 0..N => Sound(n)}
<1>3. \A n \in 0..N : Sound(n)
  <2>1. 0 \in Good
    BY <1>2, KernelAssumption DEF Pri
  <2>2. ASSUME NEW n \in Good PROVE n + 1 \in Good
    <3> SUFFICES ASSUME n + 1 \in 0..N PROVE Sound(n + 1)
      OBVIOUS
    <3>1. n \in 0..N /\ f[n + 1] = Lowered(f[n], own, wq, obj) /\ Sound(n)
      BY <1>1, <1>2
    <3>2. /\ f[n + 1] \in [Task -> Pri]
          /\ \A t \in Task : /\ f[n + 1][t] <= f[n][t]
                             /\ \E w \in B[t] \cup {t} : f[n + 1][t] = f[n][w]
      BY <3>1, LoweredProperties
    <3>3. ASSUME NEW t \in Task PROVE f[n + 1][t] <= BasePri[t]
      <4>1. f[n + 1][t] \in Pri /\ f[n][t] \in Pri /\ BasePri[t] \in Pri /\ Pri \in SUBSET Nat
        BY <3>1, <3>2, KernelAssumption DEF Pri
      <4>2. f[n + 1][t] <= f[n][t] /\ f[n][t] <= BasePri[t]
        BY <3>1, <3>2
      <4>3. f[n + 1][t] \in Nat /\ f[n][t] \in Nat /\ BasePri[t] \in Nat
        BY <4>1
      <4> QED BY <4>2, <4>3
    <3>4. ASSUME NEW t \in Task
          PROVE  \E u \in Below(B, t) \cup {t} : f[n + 1][t] = BasePri[u]
      <4>1. PICK w \in B[t] \cup {t} : f[n + 1][t] = f[n][w]
        BY <3>2
      <4>2. w \in Task
        BY DEF Relations
      <4>3. PICK u \in Below(B, w) \cup {w} : f[n][w] = BasePri[u]
        BY <3>1, <4>2
      <4>4. CASE w = t
        BY <4>1, <4>3, <4>4
      <4>5. CASE w \in B[t]
        <5>1. u \in Below(B, t)
          BY <4>2, <4>3, <4>5, BelowTransitive
        <5> QED BY <4>1, <4>3, <5>1
      <4> QED BY <4>4, <4>5
    <3> QED BY <3>2, <3>3, <3>4
  <2> HIDE DEF Sound
  <2>3. Good = Nat
    <3>1. Good \in SUBSET Nat
      OBVIOUS
    <3> HIDE DEF Good
    <3> QED BY <2>1, <2>2, <3>1, SetInduction
  <2>4. \A n \in 0..N : n \in Good
    BY <1>1, <2>3
  <2> QED BY <2>4
<1> HIDE DEF Good
<1>4. ASSUME NEW p \in Pri, NEW t \in Task, NEW w \in B[t], f[N][w] <= p
      PROVE  f[N][t] <= p
  <2> DEFINE S(n) == {u \in Task : f[n][u] <= p}
             Fixed(n) == \A u \in Task : \A v \in B[u] : v \in S(n) => u \in S(n)
             Grown == {n \in Nat : n \in 0..N => Fixed(n) \/ Cardinality(S(n)) >= n + 1}
  <2>1. ASSUME NEW n \in 0..N
        PROVE IsFiniteSet(S(n)) /\ Cardinality(S(n)) \in Nat /\ Cardinality(S(n)) <= N
    <3> DEFINE T == S(n)
    <3>1. T \in SUBSET Task
      OBVIOUS
    <3> HIDE DEF T
    <3>2. IsFiniteSet(T) /\ Cardinality(T) <= N
      BY <1>1, <3>1, FS_Subset
    <3>3. Cardinality(T) \in Nat
      BY <3>2, FS_CardinalityType
    <3> QED BY <3>2, <3>3 DEF T
  <2>2. ASSUME NEW n \in 0..N, n + 1 \in 0..N
        PROVE  /\ S(n) \subseteq S(n + 1)
               /\ \A u \in Task : \A v \in B[u] : v \in S(n) => u \in S(n + 1)
               /\ Fixed(n) => S(n + 1) = S(n)
    <3>1. /\ f[n] \in [Task -> Pri] /\ f[n + 1] \in [Task -> Pri] /\ p \in Nat /\ Pri \in SUBSET Nat
          /\ f[n + 1] = Lowered(f[n], own, wq, obj)
      BY <1>2, <1>3, <2>2, KernelAssumption DEF Pri
    <3>2. \A u \in Task : /\ f[n + 1][u] <= f[n][u]
                          /\ \A v \in B[u] : f[n + 1][u] <= f[n][v]
                          /\ \E v \in B[u] \cup {u} : f[n + 1][u] = f[n][v]
      BY <3>1, LoweredProperties
    <3>3. \A u \in Task : f[n][u] \in Nat /\ f[n + 1][u] \in Nat
      BY <3>1
    <3>4. ASSUME NEW u \in S(n) PROVE u \in S(n + 1)
      <4>1. f[n + 1][u] <= f[n][u] /\ f[n][u] <= p
        BY <3>2
      <4> QED BY <3>1, <3>3, <4>1
    <3>5. ASSUME NEW u \in Task, NEW v \in B[u], v \in S(n) PROVE u \in S(n + 1)
      <4>1. f[n + 1][u] <= f[n][v] /\ f[n][v] <= p /\ v \in Task
        BY <3>2, <3>5
      <4> QED BY <3>1, <3>3, <4>1
    <3>6. ASSUME Fixed(n), NEW u \in S(n + 1) PROVE u \in S(n)
      <4>1. PICK v \in B[u] \cup {u} : f[n + 1][u] = f[n][v]
        BY <3>2
      <4>2. v \in Task
        BY DEF Relations
      <4>3. v \in S(n)
        BY <4>1, <4>2
      <4> QED BY <3>6, <4>3
    <3> QED BY <3>4, <3>5, <3>6
  <2>3. 0 \in Grown
    <3>1. CASE S(0) = {}
      BY <3>1
    <3>2. CASE S(0) # {}
      <4> DEFINE T == S(0)
      <4>1. 0 \in 0..N
        BY <1>1
      <4>2. IsFiniteSet(T) /\ Cardinality(T) \in Nat /\ T # {}
        BY <2>1, <3>2, <4>1
      <4> HIDE DEF S, T
      <4>3. Cardinality(T) # 0
        BY <4>2, FS_EmptySet
      <4>4. Cardinality(T) >= 0 + 1
        BY <4>2, <4>3
      <4> QED BY <4>4 DEF T
    <3> QED BY <3>1, <3>2
  <2>4. ASSUME NEW n \in Grown PROVE n + 1 \in Grown
    <3> SUFFICES ASSUME n + 1 \in 0..N PROVE Fixed(n + 1) \/ Cardinality(S(n + 1)) >= (n + 1) + 1
      OBVIOUS
    <3>1. n \in 0..N /\ n \in Nat
      BY <1>1
    <3>2. CASE Fixed(n)
      <4>1. S(n + 1) = S(n)
        BY <2>2, <3>1, <3>2
      <4> HIDE DEF S
      <4> QED BY <3>2, <4>1
    <3>3. CASE ~Fixed(n)
      <4>1. PICK u \in Task : \E v \in B[u] : v \in S(n) /\ u \notin S(n)
        BY <3>3
      <4>2. S(n) \subseteq S(n + 1) /\ u \in S(n + 1)
        BY <2>2, <3>1, <4>1
      <4> DEFINE T == S(n)  V == S(n + 1)
      <4>3. /\ IsFiniteSet(V) /\ Cardinality(V) \in Nat /\ Cardinality(T) \in Nat
            /\ Cardinality(T) >= n + 1
        BY <2>1, <3>1, <3>3
      <4>4. T \in SUBSET V /\ T # V
        BY <4>1, <4>2
      <4> HIDE DEF S, T, V
      <4>5. Cardinality(T) <= Cardinality(V) /\ Cardinality(T) # Cardinality(V)
        BY <4>3, <4>4, FS_Subset
      <4>6. Cardinality(V) >= (n + 1) + 1
        BY <3>1, <4>3, <4>5
      <4> QED BY <4>6 DEF V
    <3> QED BY <3>2, <3>3
  <2> HIDE DEF Fixed, S
  <2>5. Grown = Nat
    <3>1. Grown \in SUBSET Nat
      OBVIOUS
    <3> HIDE DEF Grown
    <3> QED BY <2>3, <2>4, <3>1, SetInduction
  <2>6. N \in Grown /\ N \in 0..N
    BY <1>1, <2>5
  <2>7. Fixed(N)
    <3>1. Cardinality(S(N)) \in Nat /\ Cardinality(S(N)) <= N
      BY <2>1, <2>6
    <3> QED BY <1>1, <2>6, <3>1
  <2>8. w \in Task
    BY DEF Relations
  <2> QED BY <1>4, <2>7, <2>8 DEF Fixed, S
<1>5. ASSUME NEW t \in Task, NEW w \in B[t] PROVE f[N][t] <= f[N][w]
  <2> DEFINE p == f[N][w]
  <2>1. N \in 0..N /\ w \in Task
    BY <1>1 DEF Relations
  <2>2. p \in Pri /\ p \in Nat
    BY <1>3, <2>1, KernelAssumption DEF Pri
  <2>3. p <= p
    BY <2>2
  <2> HIDE DEF p
  <2>4. f[N][w] <= p
    BY <2>3 DEF p
  <2>5. f[N][t] <= p
    BY <1>4, <2>2, <2>4
  <2> QED BY <2>5 DEF p
<1>6. Sound(N)
  BY <1>1, <1>3
<1> QED BY <1>5, <1>6 DEF Strict, N

(* So the calculated priorities are those that strict inheritance gives.   *)
LEMMA CalculatedIsStrict ==
  ASSUME NEW own, NEW wq, NEW obj, NEW B \in Relations,
         \A t \in Task : InheritsFrom(t, own, wq, obj) = B[t]
  PROVE  Strict(Calculated(own, wq, obj), B)
<1> DEFINE N == Len(tcb_tbl)
           s == CHOOSE f : Scans(f, own, wq, obj, N)
<1>1. Calculated(own, wq, obj) = s[N]
  BY DEF Calculated, Scans
<1>2. Scans(s, own, wq, obj, N)
  <2>1. \E f : Scans(f, own, wq, obj, N)
    BY TableSize, ScansExist
  <2> QED BY <2>1
<1> HIDE DEF s
<1> QED BY <1>1, <1>2, ScansConverge

(***************************************************************************)
(* Ready queues.                                                           *)
(***************************************************************************)

(* The queues rq hold the tasks S, each once, at its priority. *)
Linked(rq, pri, S) ==
  /\ rq \in Queues
  /\ \A p \in Pri : NoDuplicates(rq[p])
  /\ \A t \in Task, p \in Pri : t \in Range(rq[p]) <=> t \in S /\ pri[t] = p

LEMMA EnqueueLinks ==
  ASSUME NEW rq, NEW pri \in [Task -> Pri], NEW S \in SUBSET Task, Linked(rq, pri, S),
         NEW t \in Task \ S
  PROVE  Linked([rq EXCEPT ![pri[t]] = tqueue_add_entry(@, t)], pri, S \cup {t})
<1> DEFINE p == pri[t]
           q == tqueue_add_entry(rq[p], t)
           r == [rq EXCEPT ![p] = q]
<1>1. /\ p \in Pri /\ rq[p] \in Seq(Task) /\ NoDuplicates(rq[p]) /\ t \notin Range(rq[p])
      /\ rq \in Queues
  BY DEF Linked, Queues
<1>2. q \in Seq(Task) /\ Range(q) = Range(rq[p]) \cup {t} /\ NoDuplicates(q)
  <2> HIDE DEF p
  <2> QED BY <1>1, AddEntryProperties
<1>3. \A o \in Pri : r[o] = IF o = p THEN q ELSE rq[o]
  BY <1>1 DEF Queues
<1>4. r \in Queues
  BY <1>1, <1>2 DEF Queues
<1>5. \A u \in Task, o \in Pri : u \in Range(rq[o]) <=> u \in S /\ pri[u] = o
  BY DEF Linked
<1>6. \A o \in Pri : NoDuplicates(rq[o])
  BY DEF Linked
<1>7. p = pri[t]
  OBVIOUS
<1> HIDE DEF p, q, r
<1>8. Linked(r, pri, S \cup {t})
  BY <1>1, <1>2, <1>3, <1>4, <1>5, <1>6, <1>7 DEF Linked
<1> QED BY <1>8 DEF p, q, r

LEMMA UnlinkLinks ==
  ASSUME NEW rq, NEW pri \in [Task -> Pri], NEW S \in SUBSET Task, Linked(rq, pri, S),
         NEW t \in S
  PROVE  Linked([rq EXCEPT ![pri[t]] = tqueue_remove_entry(@, t)], pri, S \ {t})
<1> DEFINE p == pri[t]
           q == tqueue_remove_entry(rq[p], t)
           r == [rq EXCEPT ![p] = q]
<1>1. p \in Pri /\ rq[p] \in Seq(Task) /\ NoDuplicates(rq[p]) /\ rq \in Queues /\ t \in Task
  BY DEF Linked, Queues
<1>2. q \in Seq(Task) /\ Range(q) = Range(rq[p]) \ {t} /\ NoDuplicates(q)
  <2> HIDE DEF p
  <2> QED BY <1>1, RemoveEntryProperties
<1>3. \A o \in Pri : r[o] = IF o = p THEN q ELSE rq[o]
  BY <1>1 DEF Queues
<1>4. r \in Queues
  BY <1>1, <1>2 DEF Queues
<1>5. \A u \in Task, o \in Pri : u \in Range(rq[o]) <=> u \in S /\ pri[u] = o
  BY DEF Linked
<1>6. \A o \in Pri : NoDuplicates(rq[o])
  BY DEF Linked
<1>7. p = pri[t]
  OBVIOUS
<1> HIDE DEF p, q, r
<1>8. Linked(r, pri, S \ {t})
  BY <1>1, <1>2, <1>3, <1>4, <1>5, <1>6, <1>7 DEF Linked
<1> QED BY <1>8 DEF p, q, r

LEMMA ConcatLinks ==
  ASSUME NEW rq, NEW pri \in [Task -> Pri], NEW S \in SUBSET Task, Linked(rq, pri, S),
         NEW q \in Seq(Task), NoDuplicates(q), Range(q) \cap S = {}
  PROVE  Linked([p \in Pri |-> rq[p] \o Entries(q, {t \in Task : pri[t] = p})], pri,
                S \cup Range(q))
<1> DEFINE at(p) == {t \in Task : pri[t] = p}
           e(p) == Entries(q, at(p))
           r == [p \in Pri |-> rq[p] \o e(p)]
<1>1. Range(q) \in SUBSET Task
  BY RangeOfSeq
<1>2. ASSUME NEW p \in Pri
      PROVE  /\ r[p] \in Seq(Task) /\ NoDuplicates(r[p])
             /\ Range(r[p]) = Range(rq[p]) \cup (Range(q) \cap at(p))
  <2> DEFINE a == at(p)  f == e(p)
  <2>1. f \in Seq(Task) /\ Range(f) = Range(q) \cap a /\ NoDuplicates(f)
    <3> HIDE DEF a
    <3>1. /\ Entries(q, a) \in Seq(Task) /\ Range(Entries(q, a)) = Range(q) \cap a
          /\ NoDuplicates(Entries(q, a))
      BY EntriesProperties
    <3> QED BY <3>1 DEF a
  <2>2. rq[p] \in Seq(Task) /\ NoDuplicates(rq[p]) /\ Range(rq[p]) \cap Range(f) = {}
    <3>1. \A u \in Task : u \in Range(rq[p]) => u \in S
      BY DEF Linked
    <3>2. Range(f) \in SUBSET Range(q)
      BY <2>1
    <3> HIDE DEF f
    <3> QED BY <1>1, <3>1, <3>2 DEF Linked, Queues
  <2>3. r[p] = rq[p] \o f
    OBVIOUS
  <2> HIDE DEF f, r
  <2>4. /\ rq[p] \o f \in Seq(Task) /\ NoDuplicates(rq[p] \o f)
        /\ Range(rq[p] \o f) = Range(rq[p]) \cup Range(f)
    BY <2>1, <2>2, ConcatQueueProperties
  <2> QED BY <2>1, <2>3, <2>4 DEF a
<1>3. r \in Queues
  <2>1. r = [p \in Pri |-> r[p]]
    OBVIOUS
  <2> HIDE DEF r
  <2> QED BY <1>2, <2>1 DEF Queues
<1>4. \A t \in Task, p \in Pri : t \in Range(r[p]) <=> t \in S \cup Range(q) /\ pri[t] = p
  <2>1. \A t \in Task, p \in Pri : t \in Range(rq[p]) <=> t \in S /\ pri[t] = p
    BY DEF Linked
  <2> HIDE DEF r
  <2> QED BY <1>2, <2>1
<1> HIDE DEF r
<1>5. Linked(r, pri, S \cup Range(q))
  BY <1>2, <1>3, <1>4 DEF Linked
<1> QED BY <1>5 DEF r

(* New priorities: the tasks stay linked, each at its new priority. *)
LEMMA RequeuedLinks ==
  ASSUME NEW rq, NEW old \in [Task -> Pri], NEW S \in SUBSET Task, Linked(rq, old, S),
         NEW pri \in [Task -> Pri]
  PROVE  Linked(Requeued(rq, pri), pri, S)
<1> DEFINE queued == UNION {Range(rq[p]) : p \in Pri}
           here(p) == {t \in queued : pri[t] = p}
           e(p) == Entries(rq[p], here(p))
           f(p) == Entries(tcb_tbl, here(p) \ Range(rq[p]))
           r == Requeued(rq, pri)
<1>1. queued = S
  <2>1. \A p \in Pri : Range(rq[p]) \in SUBSET Task
    BY RangeOfSeq DEF Linked, Queues
  <2>2. \A t \in Task, p \in Pri : t \in Range(rq[p]) <=> t \in S /\ old[t] = p
    BY DEF Linked
  <2>3. \A t \in S : t \in Range(rq[old[t]]) /\ old[t] \in Pri
    BY <2>2
  <2> QED BY <2>1, <2>2, <2>3
<1>2. r = [p \in Pri |-> e(p) \o f(p)]
  BY DEF Requeued
<1>3. ASSUME NEW p \in Pri
      PROVE  r[p] \in Seq(Task) /\ NoDuplicates(r[p]) /\ Range(r[p]) = here(p)
  <2> DEFINE h == here(p)  g == h \ Range(rq[p])  a == e(p)  b == f(p)
  <2>1. rq[p] \in Seq(Task) /\ NoDuplicates(rq[p])
    BY DEF Linked, Queues
  <2>2. a \in Seq(Task) /\ Range(a) = Range(rq[p]) \cap h /\ NoDuplicates(a)
    <3> HIDE DEF h
    <3>1. /\ Entries(rq[p], h) \in Seq(Task) /\ Range(Entries(rq[p], h)) = Range(rq[p]) \cap h
          /\ NoDuplicates(Entries(rq[p], h))
      BY <2>1, EntriesProperties
    <3> QED BY <3>1 DEF h
  <2>3. b \in Seq(Task) /\ Range(b) = Task \cap g /\ NoDuplicates(b)
    <3> HIDE DEF g
    <3>1. /\ Entries(tcb_tbl, g) \in Seq(Task) /\ Range(Entries(tcb_tbl, g)) = Range(tcb_tbl) \cap g
          /\ NoDuplicates(Entries(tcb_tbl, g))
      BY MutexAssumption, EntriesProperties
    <3> QED BY <3>1, MutexAssumption DEF g
  <2>4. r[p] = a \o b
    BY <1>2
  <2>5. h \in SUBSET Task
    BY <1>1
  <2>6. Range(a) \cap Range(b) = {} /\ Range(a) \cup Range(b) = h
    <3> HIDE DEF a, b, h
    <3> QED BY <2>2, <2>3, <2>5
  <2> HIDE DEF a, b, r
  <2>7. a \o b \in Seq(Task) /\ NoDuplicates(a \o b) /\ Range(a \o b) = Range(a) \cup Range(b)
    BY <2>2, <2>3, <2>6, ConcatQueueProperties
  <2> QED BY <2>4, <2>6, <2>7
<1>4. r \in Queues
  <2>1. r = [p \in Pri |-> r[p]]
    BY <1>2
  <2> HIDE DEF r
  <2> QED BY <1>3, <2>1 DEF Queues
<1>5. \A t \in Task, p \in Pri : t \in here(p) <=> t \in S /\ pri[t] = p
  BY <1>1
<1> HIDE DEF here, r
<1>6. Linked(r, pri, S)
  BY <1>3, <1>4, <1>5 DEF Linked
<1> QED BY <1>6 DEF r

(* The tasks that are READY, in the ready queues. *)
Ready == {t \in Task : state[t] = "READY"}

LEMMA ReadyLinked ==
  ASSUME KernelInv
  PROVE  Linked(ready_queue, itskpri, Ready)
BY DEF KernelInv, TypeOK, QueueIntegrity, Linked, Queues, Ready

(***************************************************************************)
(* Steps that move tasks between the queues and change their priorities.   *)
(***************************************************************************)
Alive(t) == state[t] \in {"READY", "WAIT"}

LEMMA MovePreserves ==
  ASSUME KernelInv, Scheduled, UNCHANGED <<wupcnt, context, cur_task, disp>>,
         state' \in [Task -> State], itskpri' \in [Task -> Pri],
         waifct' \in [Task -> Waifct], waitim' \in [Task -> Nat \cup {TMO_FEVR}],
         waierr' \in [Task -> {"E_OK", "E_TMOUT"}],
         wait_queue' \in Seq(Task), NoDuplicates(wait_queue'),
         \A t \in Task : t \in Range(wait_queue') <=> state'[t] = "WAIT",
         Linked(ready_queue', itskpri', Ready'),
         \A t \in Task : waifct'[t] = "NON" <=> state'[t] # "WAIT",
         \A t \in Task : waifct'[t] = "SLP" => waifct[t] = "SLP",
         \A t \in Task : ~Alive(t) => state'[t] = state[t],
         \A t \in Task : Alive(t) /\ (t # cur_task \/ pc' = pc) => Alive(t)',
         pc' = pc \/ (InTask /\ pc' = "exited" /\ state'[cur_task] = "DORMANT"),
         pc = "exited" => state'[cur_task] # "WAIT"
  PROVE  KernelInv'
<1>1. ready_queue' \in Queues
  BY DEF Linked
<1>2. TypeOK'
  <2>1. sche_task' \in Task \cup {NONE} /\ pendsv' \in BOOLEAN
    BY <1>1, SchedulerType DEF KernelInv
  <2>2. ready_queue' \in [Pri -> Seq(Task)]
    BY <1>1 DEF Queues
  <2>3. pc' \in {"main", "body", "exited", "none"}
    BY DEF KernelInv, TypeOK
  <2> QED BY <2>1, <2>2, <2>3 DEF KernelInv, TypeOK
<1>3. QueueIntegrity'
  BY DEF QueueIntegrity, Linked, Ready
<1>4. NoLostDispatch'
  BY SchedulerNoLostDispatch
<1>5. cur_task # NONE => cur_task \in Task
  BY DEF KernelInv, TypeOK
<1>7. \A t \in Task : state'[t] \in {"READY", "WAIT"} => state[t] \in {"READY", "WAIT"}
  BY DEF Alive
<1>9. NoSleepOnCountedWakeup'
  BY DEF KernelInv, NoSleepOnCountedWakeup
<1>10. ProcessorInv'
  <2>1. CASE pc' = pc
    <3>1. pc = "body" => cur_task \in Task /\ state'[cur_task] \in {"READY", "WAIT"}
      BY <1>5, <2>1 DEF KernelInv, ProcessorInv, Alive
    <3>2. pc = "exited" => cur_task \in Task /\ state'[cur_task] \in {"DORMANT", "READY"}
      BY <1>5 DEF KernelInv, ProcessorInv, Alive
    <3> QED BY <1>7, <2>1, <3>1, <3>2 DEF KernelInv, ProcessorInv
  <2>2. CASE InTask /\ pc' = "exited" /\ state'[cur_task] = "DORMANT"
    BY <1>7, <2>2 DEF KernelInv, ProcessorInv, InTask, Executing
  <2> QED BY <2>1, <2>2
<1> QED BY <1>2, <1>3, <1>4, <1>9, <1>10 DEF KernelInv

(***************************************************************************)
(* The inductive invariant.                                                *)
(***************************************************************************)
MtxTypeOK ==
  /\ mtxst  \in [Mtx -> {"NONEXIST", "EXIST"}]
  /\ attr   \in [Mtx -> {"TA_TFIFO", "TA_INHERIT"}]
  /\ owner  \in [Mtx -> Task \cup {NONE}]
  /\ waimtx \in [Task -> Mtx \cup {0}]

(* For each task, those that it boosts. *)
Boosters == [t \in Task |-> {u \in Task : Boosts(u, t)}]

MtxInv ==
  /\ KernelInv
  /\ MtxTypeOK
  /\ OwnersAlive
  /\ Strict(itskpri, Boosters)

LEMMA MtxIds == NumMtx \in Nat /\ \A i \in Mtx : i # 0 /\ i \in Nat
BY MutexAssumption DEF Mtx

(* The waiters of the TA_INHERIT mutexes that t owns, for the owners own,  *)
(* and the mutexes obj that the tasks wq wait for.                         *)
Pulls(own, wq, obj) == [t \in Task |-> InheritsFrom(t, own, wq, obj)]

LEMMA CalculatedPulls ==
  ASSUME NEW own, NEW wq \in Seq(Task), NEW obj
  PROVE  Strict(Calculated(own, wq, obj), Pulls(own, wq, obj))
<1> DEFINE B == Pulls(own, wq, obj)
<1>1. B \in Relations
  <2>1. Range(wq) \in SUBSET Task
    BY RangeOfSeq
  <2> QED BY <2>1 DEF Pulls, Relations, InheritsFrom
<1>2. \A t \in Task : InheritsFrom(t, own, wq, obj) = B[t]
  BY DEF Pulls
<1> HIDE DEF B
<1>3. Strict(Calculated(own, wq, obj), B)
  BY <1>1, <1>2, CalculatedIsStrict
<1> QED BY <1>3 DEF B

LEMMA BoostersArePulls ==
  ASSUME KernelInv, MtxTypeOK, OwnersAlive
  PROVE  Boosters = Pulls(owner, wait_queue, waimtx) /\ Boosters \in Relations
<1>1. Range(wait_queue) \in SUBSET Task
  BY RangeOfSeq DEF KernelInv, TypeOK
<1>2. ASSUME NEW u \in Task, waimtx[u] # 0 PROVE u \in Range(wait_queue) /\ waimtx[u] \in Mtx
  <2>1. waifct[u] = "MTX" /\ "MTX" # "NON" /\ waimtx[u] \in Mtx
    BY <1>2 DEF OwnersAlive, MtxTypeOK
  <2>2. state[u] = "WAIT"
    BY <2>1 DEF KernelInv, ProcessorInv
  <2> QED BY <2>1, <2>2 DEF KernelInv, QueueIntegrity
<1>3. ASSUME NEW t \in Task, NEW u \in Task
      PROVE  Boosts(u, t) <=> u \in InheritsFrom(t, owner, wait_queue, waimtx)
  BY <1>1, <1>2, MtxIds DEF Boosts, InheritsFrom
<1>4. \A t \in Task : {u \in Task : Boosts(u, t)} = InheritsFrom(t, owner, wait_queue, waimtx)
  BY <1>1, <1>3 DEF InheritsFrom
<1> QED BY <1>4 DEF Boosters, Pulls, Relations

LEMMA BoostersArePullsNext ==
  ASSUME KernelInv', MtxTypeOK', OwnersAlive', UNCHANGED attr
  PROVE  Boosters' = Pulls(owner', wait_queue', waimtx')
<1>1. Range(wait_queue') \in SUBSET Task
  BY RangeOfSeq DEF KernelInv, TypeOK
<1>2. ASSUME NEW u \in Task, waimtx'[u] # 0 PROVE u \in Range(wait_queue') /\ waimtx'[u] \in Mtx
  <2>1. waifct'[u] = "MTX" /\ "MTX" # "NON" /\ waimtx'[u] \in Mtx
    BY <1>2 DEF OwnersAlive, MtxTypeOK
  <2>2. state'[u] = "WAIT"
    BY <2>1 DEF KernelInv, ProcessorInv
  <2> QED BY <2>1, <2>2 DEF KernelInv, QueueIntegrity
<1>3. ASSUME NEW t \in Task, NEW u \in Task
      PROVE  Boosts(u, t)' <=> u \in InheritsFrom(t, owner', wait_queue', waimtx')
  BY <1>1, <1>2, MtxIds DEF Boosts, InheritsFrom
<1>4. \A t \in Task : {u \in Task : Boosts(u, t)'} = InheritsFrom(t, owner', wait_queue', waimtx')
  BY <1>1, <1>3 DEF InheritsFrom
<1>5. Boosters' = [t \in Task |-> {u \in Task : Boosts(u, t)'}]
  BY DEF Boosters
<1> QED BY <1>4, <1>5 DEF Pulls

(* A waiter is in the wait queue and waits for an existing mutex. *)
LEMMA WaiterWaits ==
  ASSUME KernelInv, MtxTypeOK, OwnersAlive, NEW t \in Task, waimtx[t] # 0
  PROVE  /\ waimtx[t] \in Mtx /\ owner[waimtx[t]] \in Task /\ owner[waimtx[t]] # t
         /\ mtxst[waimtx[t]] = "EXIST"
         /\ waifct[t] = "MTX" /\ state[t] = "WAIT" /\ t \in Range(wait_queue)
<1>1. waifct[t] = "MTX" /\ "MTX" # "NON" /\ waimtx[t] \in Mtx /\ owner[waimtx[t]] \notin {NONE, t}
  BY DEF OwnersAlive, MtxTypeOK
<1>2. state[t] = "WAIT"
  BY <1>1 DEF KernelInv, ProcessorInv
<1> QED BY <1>1, <1>2 DEF KernelInv, QueueIntegrity, MtxTypeOK, OwnersAlive

(***************************************************************************)
(* Who gets a mutex that is released.                                      *)
(***************************************************************************)
LEMMA WaitersProperties ==
  ASSUME KernelInv, MtxTypeOK, OwnersAlive, NEW i \in Mtx
  PROVE  /\ Waiters(i) \in Seq(Task) /\ NoDuplicates(Waiters(i))
         /\ \A t \in Task : t \in Range(Waiters(i)) <=> waimtx[t] = i
<1> DEFINE U == {t \in Task : waimtx[t] = i}
<1>1. wait_queue \in Seq(Task) /\ NoDuplicates(wait_queue)
  BY DEF KernelInv, TypeOK, QueueIntegrity
<1>2. U \subseteq Range(wait_queue)
  BY WaiterWaits, MtxIds
<1> HIDE DEF U
<1>3. /\ Entries(wait_queue, U) \in Seq(Task) /\ NoDuplicates(Entries(wait_queue, U))
      /\ Range(Entries(wait_queue, U)) = Range(wait_queue) \cap U
  BY <1>1, EntriesProperties
<1>4. Range(Entries(wait_queue, U)) = U
  BY <1>2, <1>3
<1> QED BY <1>3, <1>4 DEF Waiters, U

(* w is the k-th of the waiters W of mutex i, and the one to get it. *)
Chosen(w, k, W, i) ==
  /\ k \in 1..Len(W) /\ w = W[k]
  /\ attr[i] = "TA_TFIFO" => k = 1
  /\ attr[i] = "TA_INHERIT" =>
       \A j \in 1..Len(W) : itskpri[w] < itskpri[W[j]] \/ (itskpri[w] = itskpri[W[j]] /\ k <= j)

LEMMA SelectProperties ==
  ASSUME KernelInv, MtxTypeOK, OwnersAlive, NEW i \in Mtx
  PROVE  /\ select_waiter(i) \in Task \cup {NONE}
         /\ select_waiter(i) = NONE <=> \A t \in Task : waimtx[t] # i
         /\ select_waiter(i) # NONE => waimtx[select_waiter(i)] = i
         /\ Waiters(i) # <<>> => \E k : Chosen(select_waiter(i), k, Waiters(i), i)
<1> DEFINE W == Waiters(i)
           best == {t \in Range(W) : \A u \in Range(W) : itskpri[t] <= itskpri[u]}
           s == select_waiter(i)
<1>1. /\ W \in Seq(Task) /\ DOMAIN W = 1..Len(W) /\ Len(W) \in Nat
      /\ \A t \in Task : t \in Range(W) <=> waimtx[t] = i
  BY WaitersProperties, LenProperties
<1>2. s = IF W = <<>> THEN NONE
          ELSE IF attr[i] = "TA_INHERIT" THEN Head(Entries(W, best)) ELSE Head(W)
  BY DEF select_waiter
<1>3. Range(W) \in SUBSET Task /\ NONE \notin Task
  BY <1>1, RangeOfSeq, KernelAssumption
<1> HIDE DEF s, W
<1>4. CASE W = <<>>
  <2>1. Range(W) = {}
    BY <1>4 DEF Range
  <2>2. \A t \in Task : waimtx[t] # i
    BY <1>1, <2>1
  <2> QED BY <1>2, <1>4, <2>2 DEF s, W
<1>5. CASE W # <<>>
  <2>1. 1 \in 1..Len(W) /\ Head(W) = W[1] /\ W[1] \in Range(W)
    <3>1. Len(W) # 0
      BY <1>1, <1>5, EmptySeq
    <3>2. 1 \in 1..Len(W) /\ Head(W) = W[1]
      BY <1>1, <1>5, <3>1, HeadTailProperties
    <3> QED BY <1>1, <3>2 DEF Range
  <2>2. itskpri \in [Task -> Pri] /\ \A t \in Task : itskpri[t] \in Nat
    <3>1. itskpri \in [Task -> Pri]
      BY DEF KernelInv, TypeOK
    <3>2. Pri \in SUBSET Nat
      BY PriNumbers
    <3> QED BY <3>1, <3>2
  <2>3. \E k : Chosen(s, k, W, i)
    <3>1. CASE attr[i] = "TA_INHERIT"
      <4>1. best \cap Range(W) # {}
        <5> DEFINE P == {itskpri[u] : u \in Range(W)}
        <5>1. P \in SUBSET Nat /\ P # {}
          BY <1>3, <2>1, <2>2
        <5>2. PICK m \in P : \A o \in P : m <= o
          <6> HIDE DEF P
          <6> QED BY <5>1, LeastElement
        <5>3. PICK t \in Range(W) : m = itskpri[t]
          OBVIOUS
        <5>4. \A u \in Range(W) : itskpri[t] <= itskpri[u]
          BY <5>2, <5>3
        <5> QED BY <5>3, <5>4
      <4> HIDE DEF best
      <4>2. PICK k \in 1..Len(W) : /\ Head(Entries(W, best)) = W[k] /\ W[k] \in best
                                   /\ \A j \in 1..(k - 1) : W[j] \notin best
        <5>1. Entries(W, best) # <<>>
          BY <1>1, <4>1, FirstEntry
        <5> QED BY <1>1, <5>1, FirstEntry
      <4>3. s = W[k]
        BY <1>2, <1>5, <3>1, <4>2
      <4>4. \A j \in 1..Len(W) : W[j] \in Range(W) /\ W[j] \in Task
        BY <1>1, <1>3 DEF Range
      <4>5. ASSUME NEW j \in 1..Len(W)
            PROVE  itskpri[s] < itskpri[W[j]] \/ (itskpri[s] = itskpri[W[j]] /\ k <= j)
        <5>1. itskpri[W[k]] <= itskpri[W[j]] /\ itskpri[W[k]] \in Nat /\ itskpri[W[j]] \in Nat
          BY <2>2, <4>2, <4>4 DEF best
        <5>2. ASSUME itskpri[W[k]] = itskpri[W[j]] PROVE k <= j
          <6>1. W[j] \in best
            <7>1. \A u \in Range(W) : itskpri[W[k]] <= itskpri[u]
              BY <4>2 DEF best
            <7> QED BY <4>4, <5>2, <7>1 DEF best
          <6>2. j \notin 1..(k - 1)
            BY <4>2, <6>1
          <6> QED BY <1>1, <6>2
        <5> QED BY <4>3, <5>1, <5>2
      <4> QED BY <3>1, <4>3, <4>5 DEF Chosen
    <3>2. CASE attr[i] # "TA_INHERIT"
      <4>1. s = W[1]
        BY <1>2, <1>5, <2>1, <3>2
      <4> QED BY <2>1, <3>2, <4>1 DEF Chosen
    <3> QED BY <3>1, <3>2
  <2>4. PICK k : Chosen(s, k, W, i)
    BY <2>3
  <2>5. s \in Range(W) /\ s \in Task
    BY <1>1, <1>3, <2>4 DEF Chosen, Range
  <2>6. waimtx[s] = i
    BY <1>1, <2>5
  <2> QED BY <1>3, <2>3, <2>5, <2>6 DEF s, W
<1> QED BY <1>4, <1>5

(* The tasks that get the mutexes R. *)
Winners(R) == {t \in Task : waimtx[t] \in R /\ select_waiter(waimtx[t]) = t}

LEMMA NewOwnersProperties ==
  ASSUME KernelInv, MtxTypeOK, OwnersAlive, NEW R \in SUBSET Mtx
  PROVE  /\ NewOwners(R) \in Seq(Task) /\ NoDuplicates(NewOwners(R))
         /\ Range(NewOwners(R)) = Winners(R)
<1> DEFINE all == [i \in Mtx |-> i]
           G == {i \in R : select_waiter(i) # NONE}
           ids == Entries(all, G)
           N == NewOwners(R)
<1>1. all \in Seq(Mtx) /\ Range(all) = Mtx /\ NoDuplicates(all)
  <2>1. all \in Seq(Mtx) /\ Len(all) = NumMtx /\ DOMAIN all = 1..NumMtx
    <3>1. NumMtx \in Nat /\ Mtx = 1..NumMtx /\ \A i \in 1..NumMtx : i \in Mtx
      BY MutexAssumption DEF Mtx
    <3>2. [i \in 1..NumMtx |-> i] \in Seq(Mtx)
      BY <3>1, IsASeq
    <3>3. all = [i \in 1..NumMtx |-> i]
      BY <3>1
    <3> HIDE DEF all
    <3>4. DOMAIN all = 1..NumMtx
      BY <3>3
    <3> QED BY <3>1, <3>2, <3>3, <3>4, LenProperties
  <2>2. \A i \in Mtx : all[i] = i
    OBVIOUS
  <2>3. Mtx = 1..NumMtx
    BY DEF Mtx
  <2> HIDE DEF all
  <2> QED BY <2>1, <2>2, <2>3 DEF Range, NoDuplicates
<1>2. G \in SUBSET Mtx
  OBVIOUS
<1>3. /\ ids \in Seq(Mtx) /\ Range(ids) = G /\ NoDuplicates(ids)
      /\ DOMAIN ids = 1..Len(ids) /\ Len(ids) \in Nat
  <2> HIDE DEF all, G
  <2>1. ids \in Seq(Mtx) /\ Range(ids) = Range(all) \cap G /\ NoDuplicates(ids)
    BY <1>1, EntriesProperties
  <2> QED BY <1>1, <1>2, <2>1, LenProperties
<1>4. N = [k \in DOMAIN ids |-> select_waiter(ids[k])]
  BY DEF NewOwners
<1>5. \A i \in G : select_waiter(i) \in Task /\ waimtx[select_waiter(i)] = i
  BY <1>2, SelectProperties
<1>6. \A k \in 1..Len(ids) : ids[k] \in G
  <2> HIDE DEF ids
  <2> QED BY <1>3 DEF Range
<1>7. \A t \in Winners(R) : waimtx[t] \in G /\ select_waiter(waimtx[t]) = t
  BY KernelAssumption DEF Winners
<1>8. \A i \in G : select_waiter(i) \in Winners(R)
  BY <1>5 DEF Winners
<1> HIDE DEF ids, G, N
<1>9. N \in Seq(Task) /\ Len(N) = Len(ids) /\ DOMAIN N = 1..Len(ids)
  <2>1. \A k \in 1..Len(ids) : select_waiter(ids[k]) \in Task
    BY <1>5, <1>6
  <2>2. N = [k \in 1..Len(ids) |-> select_waiter(ids[k])]
    BY <1>3, <1>4
  <2>3. [k \in 1..Len(ids) |-> select_waiter(ids[k])] \in Seq(Task)
    BY <1>3, <2>1, IsASeq
  <2>4. DOMAIN N = 1..Len(ids)
    BY <2>2
  <2> QED BY <1>3, <2>2, <2>3, <2>4, LenProperties
<1>10. \A k \in 1..Len(ids) : N[k] = select_waiter(ids[k]) /\ waimtx[N[k]] = ids[k]
  BY <1>3, <1>4, <1>5, <1>6
<1>11. NoDuplicates(N)
  BY <1>3, <1>9, <1>10 DEF NoDuplicates
<1>12. Range(N) = Winners(R)
  <2>1. \A k \in 1..Len(ids) : N[k] \in Winners(R)
    BY <1>6, <1>8, <1>10
  <2>2. ASSUME NEW t \in Winners(R) PROVE t \in Range(N)
    <3>1. waimtx[t] \in Range(ids)
      BY <1>3, <1>7
    <3>2. PICK k \in 1..Len(ids) : ids[k] = waimtx[t]
      BY <1>3, <3>1 DEF Range
    <3>3. N[k] = t
      BY <1>7, <1>10, <3>2
    <3> QED BY <1>9, <3>3 DEF Range
  <2> QED BY <1>9, <2>1, <2>2 DEF Range
<1> QED BY <1>9, <1>11, <1>12 DEF N

LEMMA WinnersWait ==
  ASSUME KernelInv, MtxTypeOK, OwnersAlive, NEW R \in SUBSET Mtx
  PROVE  /\ Winners(R) \in SUBSET Task
         /\ \A t \in Winners(R) : /\ waimtx[t] # 0 /\ state[t] = "WAIT" /\ t \in Range(wait_queue)
                                  /\ waifct[t] = "MTX"
         /\ \A i \in R : select_waiter(i) # NONE => select_waiter(i) \in Winners(R)
<1>1. \A t \in Winners(R) : t \in Task /\ waimtx[t] \in Mtx
  BY DEF Winners
<1>2. \A t \in Winners(R) : waimtx[t] # 0
  BY <1>1, MtxIds
<1>3. \A i \in R : select_waiter(i) # NONE => select_waiter(i) \in Winners(R)
  BY SelectProperties DEF Winners
<1> QED BY <1>1, <1>2, <1>3, WaiterWaits

(* What release_mutexes leaves. *)
LEMMA ReleaseFields ==
  ASSUME KernelInv, MtxTypeOK, OwnersAlive, NEW R \in SUBSET Mtx, release_mutexes(R)
  PROVE  /\ wait_queue' \in Seq(Task) /\ NoDuplicates(wait_queue')
         /\ Range(wait_queue') = Range(wait_queue) \ Winners(R)
         /\ waifct' \in [Task -> Waifct] /\ waitim' \in [Task -> Nat \cup {TMO_FEVR}]
         /\ waierr' \in [Task -> {"E_OK", "E_TMOUT"}]
         /\ waimtx' \in [Task -> Mtx \cup {0}] /\ owner' \in [Mtx -> Task \cup {NONE}]
         /\ \A t \in Task : /\ waifct'[t] = IF t \in Winners(R) THEN "NON" ELSE waifct[t]
                            /\ waierr'[t] = IF t \in Winners(R) THEN "E_OK" ELSE waierr[t]
                            /\ waimtx'[t] = IF t \in Winners(R) THEN 0 ELSE waimtx[t]
         /\ \A i \in Mtx : owner'[i] = IF i \in R THEN select_waiter(i) ELSE owner[i]
<1> DEFINE N == Range(NewOwners(R))
<1>1. N = Winners(R)
  BY NewOwnersProperties
<1>2. /\ owner' = [i \in Mtx |-> IF i \in R THEN select_waiter(i) ELSE owner[i]]
      /\ wait_queue' = Entries(wait_queue, Range(wait_queue) \ N)
      /\ waifct' = [t \in Task |-> IF t \in N THEN "NON" ELSE waifct[t]]
      /\ waierr' = [t \in Task |-> IF t \in N THEN "E_OK" ELSE waierr[t]]
      /\ waitim' = [t \in Task |-> IF t \in N THEN 0 ELSE waitim[t]]
      /\ waimtx' = [t \in Task |-> IF t \in N THEN 0 ELSE waimtx[t]]
  BY DEF release_mutexes, EndWait
<1> HIDE DEF N
<1>3. wait_queue \in Seq(Task) /\ NoDuplicates(wait_queue)
  BY DEF KernelInv, TypeOK, QueueIntegrity
<1>4. /\ wait_queue' \in Seq(Task) /\ NoDuplicates(wait_queue')
      /\ Range(wait_queue') = Range(wait_queue) \ N
  <2> DEFINE V == Range(wait_queue) \ N
  <2> HIDE DEF V
  <2>1. /\ Entries(wait_queue, V) \in Seq(Task) /\ NoDuplicates(Entries(wait_queue, V))
        /\ Range(Entries(wait_queue, V)) = Range(wait_queue) \cap V
    BY <1>3, EntriesProperties
  <2> QED BY <1>2, <2>1 DEF V
<1>5. owner' \in [Mtx -> Task \cup {NONE}]
  BY <1>2, SelectProperties DEF MtxTypeOK
<1>6. waifct' \in [Task -> Waifct]
  BY <1>2 DEF KernelInv, TypeOK, Waifct
<1>7. waitim' \in [Task -> Nat \cup {TMO_FEVR}]
  BY <1>2 DEF KernelInv, TypeOK
<1>8. waierr' \in [Task -> {"E_OK", "E_TMOUT"}]
  BY <1>2 DEF KernelInv, TypeOK
<1>9. waimtx' \in [Task -> Mtx \cup {0}]
  BY <1>2 DEF MtxTypeOK
<1> QED BY <1>1, <1>2, <1>4, <1>5, <1>6, <1>7, <1>8, <1>9

(* The winners join the ready queues. *)
LEMMA WinnersLink ==
  ASSUME KernelInv, MtxTypeOK, OwnersAlive, NEW R \in SUBSET Mtx, NEW pri \in [Task -> Pri]
  PROVE  Linked(Requeued(WithNewOwners(R), pri), pri, Ready \cup Winners(R))
<1> DEFINE q == NewOwners(R)
           rq == [p \in Pri |-> ready_queue[p] \o Entries(q, {t \in Task : itskpri[t] = p})]
<1>1. q \in Seq(Task) /\ NoDuplicates(q) /\ Range(q) = Winners(R)
  BY NewOwnersProperties
<1>2. Range(q) \cap Ready = {}
  BY <1>1, WinnersWait DEF Ready
<1>3. Linked(ready_queue, itskpri, Ready) /\ itskpri \in [Task -> Pri] /\ Ready \in SUBSET Task
  BY ReadyLinked DEF KernelInv, TypeOK, Ready
<1>4. WithNewOwners(R) = rq
  BY DEF WithNewOwners
<1> HIDE DEF q
<1>5. Linked(rq, itskpri, Ready \cup Range(q))
  BY <1>1, <1>2, <1>3, ConcatLinks
<1> DEFINE S == Ready \cup Range(q)
<1>6. S \in SUBSET Task
  BY <1>1, <1>3, RangeOfSeq
<1> HIDE DEF rq, S
<1>7. Linked(Requeued(rq, pri), pri, S)
  BY <1>3, <1>5, <1>6, RequeuedLinks DEF S
<1> QED BY <1>1, <1>4, <1>7 DEF S

(* The running task releases mutexes, and exits if it is gone. *)
LEMMA ReleasingPreserves ==
  ASSUME MtxInv, InTask, NEW R \in SUBSET Owned(cur_task), release_mutexes(R),
         itskpri' = Calculated(owner', wait_queue', waimtx'),
         NEW gone \in BOOLEAN, state' \in [Task -> State],
         \A t \in Task : state'[t] = IF t \in Winners(R) THEN "READY"
                                     ELSE IF gone /\ t = cur_task THEN "DORMANT" ELSE state[t],
         gone => R = Owned(cur_task) /\ pc' = "exited", ~gone => pc' = pc,
         Linked(ready_queue', itskpri', Ready'), scheduler,
         UNCHANGED <<wupcnt, context, cur_task, disp, cbVars>>
  PROVE  MtxInv'
<1>1. KernelInv /\ MtxTypeOK /\ OwnersAlive /\ R \in SUBSET Mtx
  BY DEF MtxInv, Owned
<1>2. cur_task \in Task /\ state[cur_task] = "READY"
  BY <1>1, RunningIsHead
<1> DEFINE N == Winners(R)
<1>3. /\ N \in SUBSET Task
      /\ \A t \in N : waimtx[t] # 0 /\ state[t] = "WAIT" /\ t \in Range(wait_queue)
      /\ \A i \in R : select_waiter(i) # NONE => select_waiter(i) \in N
  BY <1>1, WinnersWait
<1>4. /\ wait_queue' \in Seq(Task) /\ NoDuplicates(wait_queue')
      /\ Range(wait_queue') = Range(wait_queue) \ N
      /\ waifct' \in [Task -> Waifct] /\ waitim' \in [Task -> Nat \cup {TMO_FEVR}]
      /\ waierr' \in [Task -> {"E_OK", "E_TMOUT"}]
      /\ waimtx' \in [Task -> Mtx \cup {0}] /\ owner' \in [Mtx -> Task \cup {NONE}]
      /\ \A t \in Task : /\ waifct'[t] = IF t \in N THEN "NON" ELSE waifct[t]
                         /\ waimtx'[t] = IF t \in N THEN 0 ELSE waimtx[t]
      /\ \A i \in Mtx : owner'[i] = IF i \in R THEN select_waiter(i) ELSE owner[i]
  BY <1>1, ReleaseFields
<1>5. \A t \in Task : state'[t] = IF t \in N THEN "READY"
                                  ELSE IF gone /\ t = cur_task THEN "DORMANT" ELSE state[t]
  OBVIOUS
<1>7. Strict(itskpri', Pulls(owner', wait_queue', waimtx')) /\ itskpri' \in [Task -> Pri]
  <2>1. wait_queue' \in Seq(Task)
    BY <1>4
  <2>2. Strict(Calculated(owner', wait_queue', waimtx'), Pulls(owner', wait_queue', waimtx'))
    BY <2>1, CalculatedPulls
  <2>3. Strict(itskpri', Pulls(owner', wait_queue', waimtx'))
    BY <2>2
  <2> QED BY <2>3 DEF Strict
<1>8. UNCHANGED <<mtxst, attr>>
  BY DEF cbVars
<1>9. \A i \in R : mtxst[i] = "EXIST" /\ owner[i] = cur_task
  BY DEF Owned
<1>10. \A t \in N : waimtx[t] \in R /\ select_waiter(waimtx[t]) = t
  BY DEF Winners
<1>11. \A t \in Task : waimtx[t] \in R /\ select_waiter(waimtx[t]) = t => t \in N
  BY DEF Winners
<1> HIDE DEF N
<1>12. KernelInv'
  <2>1. Scheduled
    BY <1>1, SchedulerSchedules DEF KernelInv, TypeOK
  <2>2. \A t \in Task : t \in Range(wait_queue) <=> state[t] = "WAIT"
    BY <1>1 DEF KernelInv, QueueIntegrity
  <2>3. \A t \in Task : waifct[t] = "NON" <=> state[t] # "WAIT"
    BY <1>1 DEF KernelInv, ProcessorInv
  <2>4. \A t \in Task : t \in Range(wait_queue') <=> state'[t] = "WAIT"
    BY <1>2, <1>4, <1>5, <2>2
  <2>5. \A t \in Task : waifct'[t] = "NON" <=> state'[t] # "WAIT"
    BY <1>2, <1>4, <1>5, <2>3
  <2>6. \A t \in Task : waifct'[t] = "SLP" => waifct[t] = "SLP"
    BY <1>4
  <2>7. \A t \in Task : /\ ~Alive(t) => state'[t] = state[t]
                        /\ Alive(t) /\ (t # cur_task \/ pc' = pc) => Alive(t)'
    <3> SUFFICES ASSUME NEW t \in Task
                 PROVE  /\ ~Alive(t) => state'[t] = state[t]
                        /\ Alive(t) /\ (t # cur_task \/ pc' = pc) => Alive(t)'
      OBVIOUS
    <3>1. gone => pc' # pc
      BY DEF InTask
    <3>2. state'[t] = IF t \in N THEN "READY"
                      ELSE IF gone /\ t = cur_task THEN "DORMANT" ELSE state[t]
      BY <1>5
    <3>3. t \in N => state[t] = "WAIT"
      BY <1>3
    <3>4. CASE t \in N
      BY <3>2, <3>3, <3>4 DEF Alive
    <3>5. CASE t \notin N /\ gone /\ t = cur_task
      BY <1>2, <3>1, <3>5 DEF Alive
    <3>6. CASE t \notin N /\ ~(gone /\ t = cur_task)
      <4>1. state'[t] = state[t]
        BY <3>2, <3>6
      <4> QED BY <4>1 DEF Alive
    <3> QED BY <3>4, <3>5, <3>6
  <2>8. pc' = pc \/ (InTask /\ pc' = "exited" /\ state'[cur_task] = "DORMANT")
    <3>1. cur_task \notin N
      BY <1>2, <1>3
    <3> QED BY <1>2, <1>5, <3>1
  <2>9. pc # "exited"
    BY DEF InTask
  <2> QED BY <1>1, <1>4, <1>7, <2>1, <2>4, <2>5, <2>6, <2>7, <2>8, <2>9, MovePreserves
<1>13. MtxTypeOK'
  BY <1>1, <1>4, <1>8 DEF MtxTypeOK
<1>14. OwnersAlive'
  <2>1. ASSUME NEW i \in Mtx, owner'[i] # NONE
        PROVE  mtxst'[i] = "EXIST" /\ state'[owner'[i]] \in {"READY", "WAIT"}
    <3>1. CASE i \in R
      BY <1>3, <1>4, <1>5, <1>8, <1>9, <2>1, <3>1
    <3>2. CASE i \notin R
      <4>1. owner'[i] = owner[i] /\ owner[i] \in Task
        BY <1>1, <1>4, <2>1, <3>2 DEF MtxTypeOK
      <4>2. mtxst[i] = "EXIST" /\ state[owner[i]] \in {"READY", "WAIT"}
        BY <1>1, <2>1, <4>1 DEF OwnersAlive
      <4>3. gone => owner[i] # cur_task
        BY <3>2, <4>2 DEF Owned
      <4> QED BY <1>5, <1>8, <4>1, <4>2, <4>3
    <3> QED BY <3>1, <3>2
  <2>2. ASSUME NEW t \in Task, waimtx'[t] # 0
        PROVE  owner'[waimtx'[t]] \notin {NONE, t}
    <3>1. t \notin N /\ waimtx'[t] = waimtx[t] /\ waimtx[t] \in Mtx /\ waimtx[t] # 0
      BY <1>4, <2>2
    <3>2. CASE waimtx[t] \in R
      <4>1. select_waiter(waimtx[t]) # NONE
        BY <1>1, <3>1, SelectProperties
      <4>2. select_waiter(waimtx[t]) # t
        BY <1>11, <3>1, <3>2
      <4> QED BY <1>4, <3>1, <3>2, <4>1, <4>2
    <3>3. CASE waimtx[t] \notin R
      BY <1>1, <1>4, <3>1, <3>3 DEF OwnersAlive
    <3> QED BY <3>2, <3>3
  <2>3. \A t \in Task : waimtx'[t] # 0 <=> waifct'[t] = "MTX"
    BY <1>1, <1>4 DEF OwnersAlive
  <2> QED BY <2>1, <2>2, <2>3 DEF OwnersAlive
<1>15. Strict(itskpri', Boosters')
  BY <1>7, <1>8, <1>12, <1>13, <1>14, BoostersArePullsNext
<1>16. Strict(itskpri, Boosters)'
  BY <1>15 DEF Strict, Below, Closed
<1> QED BY <1>12, <1>13, <1>14, <1>16 DEF MtxInv

LEMMA UnlockPreserves ==
  ASSUME MtxInv, NEW i \in Mtx, tk_unl_mtx(i)
  PROVE  MtxInv'
<1> DEFINE R == {i}
           N == Winners(R)
<1>1. KernelInv /\ MtxTypeOK /\ OwnersAlive /\ R \in SUBSET Mtx /\ R \in SUBSET Owned(cur_task)
  BY DEF MtxInv, Owned, tk_unl_mtx
<1>2. /\ InTask /\ release_mutexes(R) /\ scheduler /\ pc' = pc
      /\ itskpri' = Calculated(owner', wait_queue', waimtx')
      /\ ready_queue' = Requeued(WithNewOwners(R), itskpri')
      /\ state' = Readied(Range(NewOwners(R)))
      /\ UNCHANGED <<wupcnt, context, cur_task, disp, cbVars>>
  BY DEF tk_unl_mtx, recalculate_priorities, cpuVars
<1> HIDE DEF R
<1>3. Range(NewOwners(R)) = N /\ N \in SUBSET Task
  BY <1>1, NewOwnersProperties, WinnersWait
<1> HIDE DEF N
<1>4. \A t \in Task : state'[t] = IF t \in N THEN "READY" ELSE state[t]
  BY <1>2, <1>3 DEF Readied
<1>5. state' \in [Task -> State]
  BY <1>1, <1>2 DEF Readied, State, KernelInv, TypeOK
<1>6. itskpri' \in [Task -> Pri]
  BY <1>1, <1>2, ReleaseFields, CalculatedPulls DEF Strict
<1>7. Linked(ready_queue', itskpri', Ready')
  <2> DEFINE pri == itskpri'
  <2>1. pri \in [Task -> Pri]
    BY <1>6
  <2> HIDE DEF pri
  <2>2. Linked(Requeued(WithNewOwners(R), pri), pri, Ready \cup N)
    BY <1>1, <2>1, WinnersLink DEF N
  <2>3. Ready' = Ready \cup N
    BY <1>3, <1>4 DEF Ready
  <2> QED BY <1>2, <2>2, <2>3 DEF pri
<1>8. \A t \in Task : state'[t] = IF t \in Winners(R) THEN "READY"
                                  ELSE IF FALSE /\ t = cur_task THEN "DORMANT" ELSE state[t]
  BY <1>4 DEF N
<1> QED BY <1>1, <1>2, <1>5, <1>7, <1>8, ReleasingPreserves

LEMMA ExitMtxPreserves ==
  ASSUME MtxInv, tk_ext_tsk_mtx
  PROVE  MtxInv'
<1> DEFINE R == Owned(cur_task)
           N == Winners(R)
           rq == Requeued(WithNewOwners(R), itskpri')
<1>1. KernelInv /\ MtxTypeOK /\ OwnersAlive /\ R \in SUBSET Mtx
  BY DEF MtxInv, Owned
<1>2. /\ InTask /\ release_mutexes(R) /\ scheduler /\ pc' = "exited"
      /\ itskpri' = Calculated(owner', wait_queue', waimtx')
      /\ ready_queue' = [rq EXCEPT ![itskpri'[cur_task]] = tqueue_remove_entry(@, cur_task)]
      /\ state' = [Readied(Range(NewOwners(R))) EXCEPT ![cur_task] = "DORMANT"]
      /\ UNCHANGED <<wupcnt, context, cur_task, disp, cbVars>>
  BY DEF tk_ext_tsk_mtx, OwnedByCaller
<1>3. cur_task \in Task /\ state[cur_task] = "READY"
  BY <1>1, <1>2, RunningIsHead
<1> HIDE DEF R
<1>4. Range(NewOwners(R)) = N /\ N \in SUBSET Task /\ \A t \in N : state[t] = "WAIT"
  BY <1>1, NewOwnersProperties, WinnersWait
<1> HIDE DEF N
<1>5. \A t \in Task : state'[t] = IF t \in N THEN "READY"
                                  ELSE IF t = cur_task THEN "DORMANT" ELSE state[t]
  BY <1>2, <1>3, <1>4 DEF Readied
<1>6. state' \in [Task -> State]
  BY <1>1, <1>2 DEF Readied, State, KernelInv, TypeOK
<1>7. itskpri' \in [Task -> Pri]
  BY <1>1, <1>2, ReleaseFields, CalculatedPulls DEF Strict
<1>8. Linked(ready_queue', itskpri', Ready')
  <2> DEFINE pri == itskpri'
             S == Ready \cup N
             x == Requeued(WithNewOwners(R), pri)
  <2>1. pri \in [Task -> Pri]
    BY <1>7
  <2> HIDE DEF pri, x
  <2>2. Linked(x, pri, S)
    BY <1>1, <2>1, WinnersLink DEF N, x
  <2>3. S \in SUBSET Task /\ cur_task \in S
    BY <1>3, <1>4 DEF Ready
  <2>4. Ready' = S \ {cur_task}
    BY <1>3, <1>4, <1>5 DEF Ready
  <2> HIDE DEF S
  <2>5. Linked([x EXCEPT ![pri[cur_task]] = tqueue_remove_entry(@, cur_task)], pri, S \ {cur_task})
    BY <2>1, <2>2, <2>3, UnlinkLinks
  <2> QED BY <1>2, <2>4, <2>5 DEF pri, x
<1>9. \A t \in Task : state'[t] = IF t \in Winners(R) THEN "READY"
                                  ELSE IF TRUE /\ t = cur_task THEN "DORMANT" ELSE state[t]
  BY <1>5 DEF N
<1>10. R \in SUBSET Owned(cur_task) /\ R = Owned(cur_task)
  BY DEF R
<1> QED BY <1>1, <1>2, <1>6, <1>8, <1>9, <1>10, ReleasingPreserves

LEMMA StrictKept ==
  ASSUME Strict(itskpri, Boosters), itskpri' = itskpri, Boosters' = Boosters
  PROVE  Strict(itskpri, Boosters)'
<1>1. Strict(itskpri', Boosters')
  OBVIOUS
<1> QED BY <1>1 DEF Strict, Below, Closed

LEMMA StrictFromPulls ==
  ASSUME Strict(itskpri', Pulls(owner', wait_queue', waimtx')),
         KernelInv', MtxTypeOK', OwnersAlive', UNCHANGED attr
  PROVE  Strict(itskpri, Boosters)'
<1>1. Strict(itskpri', Boosters')
  BY BoostersArePullsNext
<1> QED BY <1>1 DEF Strict, Below, Closed

LEMMA CreateMtxPreserves ==
  ASSUME MtxInv, NEW i \in Mtx, NEW mtxatr \in Attrs, tk_cre_mtx(i, mtxatr)
  PROVE  MtxInv'
<1>1. /\ KernelInv /\ MtxTypeOK /\ OwnersAlive /\ Strict(itskpri, Boosters)
      /\ UNCHANGED kernelVars /\ UNCHANGED <<owner, waimtx>> /\ mtxst[i] = "NONEXIST"
      /\ mtxst' = [mtxst EXCEPT ![i] = "EXIST"] /\ attr' = [attr EXCEPT ![i] = mtxatr]
  BY DEF MtxInv, tk_cre_mtx
<1>2. KernelInv'
  BY <1>1, KernelStutter
<1>3. MtxTypeOK'
  BY <1>1, MutexAssumption DEF MtxTypeOK
<1>4. UNCHANGED <<state, waifct, itskpri>>
  BY <1>1 DEF kernelVars, tcbVars
<1>5. OwnersAlive'
  BY <1>1, <1>4 DEF OwnersAlive, MtxTypeOK
<1>6. ASSUME NEW u \in Task, waimtx[u] # 0 PROVE attr'[waimtx[u]] = attr[waimtx[u]]
  <2>1. waimtx[u] \in Mtx /\ waimtx[u] # i
    BY <1>1, <1>6, WaiterWaits
  <2> QED BY <1>1, <2>1 DEF MtxTypeOK
<1>7. Boosters' = Boosters
  <2>1. \A u, t \in Task : Boosts(u, t)' <=> Boosts(u, t)
    BY <1>1, <1>6 DEF Boosts
  <2>2. Boosters' = [t \in Task |-> {u \in Task : Boosts(u, t)'}]
    BY DEF Boosters
  <2> QED BY <2>1, <2>2 DEF Boosters
<1> QED BY <1>1, <1>2, <1>3, <1>4, <1>5, <1>7, StrictKept DEF MtxInv

(* A free mutex is taken. *)
LEMMA TakePreserves ==
  ASSUME MtxInv, InTask, NEW i \in Mtx, mtxst[i] = "EXIST", owner[i] = NONE,
         owner' = [owner EXCEPT ![i] = cur_task], UNCHANGED <<kernelVars, cbVars, waimtx>>
  PROVE  MtxInv'
<1>1. /\ KernelInv /\ MtxTypeOK /\ OwnersAlive /\ Strict(itskpri, Boosters)
      /\ UNCHANGED kernelVars /\ UNCHANGED <<mtxst, attr, waimtx>>
  BY DEF MtxInv, cbVars
<1>2. KernelInv'
  BY <1>1, KernelStutter
<1>3. UNCHANGED <<state, waifct, itskpri>>
  BY <1>1 DEF kernelVars, tcbVars
<1>4. cur_task \in Task /\ state[cur_task] = "READY"
  BY <1>1, RunningIsHead
<1>5. MtxTypeOK'
  BY <1>1, <1>4 DEF MtxTypeOK
<1>6. ASSUME NEW u \in Task, waimtx[u] # 0
      PROVE  waimtx[u] \in Mtx /\ owner'[waimtx[u]] = owner[waimtx[u]]
  <2>1. waimtx[u] \in Mtx /\ waimtx[u] # i
    BY <1>1, <1>6, WaiterWaits, KernelAssumption
  <2> QED BY <1>1, <2>1 DEF MtxTypeOK
<1>7. \A j \in Mtx : owner'[j] = IF j = i THEN cur_task ELSE owner[j]
  BY <1>1 DEF MtxTypeOK
<1>8. OwnersAlive'
  BY <1>1, <1>3, <1>4, <1>6, <1>7 DEF OwnersAlive
<1>9. Boosters' = Boosters
  <2>1. \A u, t \in Task : Boosts(u, t)' <=> Boosts(u, t)
    BY <1>1, <1>6 DEF Boosts
  <2>2. Boosters' = [t \in Task |-> {u \in Task : Boosts(u, t)'}]
    BY DEF Boosters
  <2> QED BY <2>1, <2>2 DEF Boosters
<1> QED BY <1>1, <1>2, <1>3, <1>5, <1>8, <1>9, StrictKept DEF MtxInv

(* The running task waits for mutex i. *)
LEMMA LockWaitPreserves ==
  ASSUME MtxInv, InTask, NEW i \in Mtx, NEW tmout \in MtxWaits, mtxst[i] = "EXIST",
         owner[i] \notin {NONE, cur_task}, tmout # TMO_POL,
         StartWait("MTX", WaitTime(tmout)),
         waimtx' = [waimtx EXCEPT ![cur_task] = i],
         recalculate_priorities(
           [ready_queue EXCEPT ![itskpri[cur_task]] = tqueue_remove_entry(@, cur_task)]),
         scheduler, UNCHANGED <<owner, wupcnt, cpuVars, cbVars>>
  PROVE  MtxInv'
<1> DEFINE t == cur_task
           q == tqueue_add_entry(wait_queue, t)
           rq == [ready_queue EXCEPT ![itskpri[t]] = tqueue_remove_entry(@, t)]
           tim == WaitTime(tmout)
<1>1. /\ KernelInv /\ MtxTypeOK /\ OwnersAlive
      /\ UNCHANGED <<mtxst, attr, owner>> /\ UNCHANGED <<wupcnt, context, cur_task, disp, pc>>
  BY DEF MtxInv, cbVars, cpuVars
<1>2. t \in Task /\ state[t] = "READY" /\ t \in Ready
  BY <1>1, RunningIsHead DEF Ready
<1>3. /\ state' = [state EXCEPT ![t] = "WAIT"] /\ waifct' = [waifct EXCEPT ![t] = "MTX"]
      /\ waitim' = [waitim EXCEPT ![t] = tim] /\ waierr' = [waierr EXCEPT ![t] = "E_OK"]
      /\ wait_queue' = q /\ waimtx' = [waimtx EXCEPT ![t] = i]
      /\ itskpri' = Calculated(owner', wait_queue', waimtx')
      /\ ready_queue' = Requeued(rq, itskpri')
  BY DEF StartWait, recalculate_priorities
<1>4. tim \in Nat \cup {TMO_FEVR}
  BY TimerAssumption, MutexAssumption DEF WaitTime, TMO_POL, TMO_FEVR
<1>5. q \in Seq(Task) /\ NoDuplicates(q) /\ Range(q) = Range(wait_queue) \cup {t}
  <2>1. wait_queue \in Seq(Task) /\ NoDuplicates(wait_queue) /\ t \notin Range(wait_queue)
    BY <1>1, <1>2 DEF KernelInv, TypeOK, QueueIntegrity
  <2> HIDE DEF t
  <2> QED BY <1>2, <2>1, AddEntryProperties
<1>6. Linked(rq, itskpri, Ready \ {t})
  <2>1. Linked(ready_queue, itskpri, Ready) /\ itskpri \in [Task -> Pri] /\ Ready \in SUBSET Task
    BY <1>1, ReadyLinked DEF KernelInv, TypeOK, Ready
  <2> HIDE DEF t
  <2> QED BY <1>2, <2>1, UnlinkLinks
<1> HIDE DEF t, q, rq, tim
<1>7. Strict(itskpri', Pulls(owner', wait_queue', waimtx')) /\ itskpri' \in [Task -> Pri]
  <2>1. wait_queue' \in Seq(Task)
    BY <1>3, <1>5
  <2>2. Strict(Calculated(owner', wait_queue', waimtx'), Pulls(owner', wait_queue', waimtx'))
    BY <2>1, CalculatedPulls
  <2>3. Strict(itskpri', Pulls(owner', wait_queue', waimtx'))
    BY <1>3, <2>2
  <2> QED BY <2>3 DEF Strict
<1>8. \A u \in Task : /\ state'[u] = IF u = t THEN "WAIT" ELSE state[u]
                      /\ waifct'[u] = IF u = t THEN "MTX" ELSE waifct[u]
                      /\ waimtx'[u] = IF u = t THEN i ELSE waimtx[u]
  BY <1>1, <1>3 DEF KernelInv, TypeOK, MtxTypeOK
<1>9. Linked(ready_queue', itskpri', Ready')
  <2> DEFINE pri == itskpri'
             S == Ready \ {t}
  <2>1. itskpri \in [Task -> Pri] /\ pri \in [Task -> Pri] /\ S \in SUBSET Task
    BY <1>1, <1>7 DEF KernelInv, TypeOK, Ready
  <2>2. Ready' = S
    BY <1>8 DEF Ready
  <2> HIDE DEF pri, S
  <2>3. Linked(rq, itskpri, S)
    BY <1>6 DEF S
  <2>4. Linked(Requeued(rq, pri), pri, S)
    BY <2>1, <2>3, RequeuedLinks
  <2> QED BY <1>3, <2>2, <2>4 DEF pri
<1>10. KernelInv'
  <2>1. Scheduled
    BY <1>1, SchedulerSchedules DEF KernelInv, TypeOK
  <2>2. /\ state' \in [Task -> State] /\ waitim' \in [Task -> Nat \cup {TMO_FEVR}]
        /\ waierr' \in [Task -> {"E_OK", "E_TMOUT"}] /\ waifct' \in [Task -> Waifct]
    <3>1. "MTX" \in Waifct /\ "WAIT" \in State
      BY MutexAssumption DEF Waifct, State
    <3> QED BY <1>1, <1>2, <1>3, <1>4, <3>1 DEF KernelInv, TypeOK
  <2>3. wait_queue' \in Seq(Task) /\ NoDuplicates(wait_queue')
    BY <1>3, <1>5
  <2>4. \A u \in Task : u \in Range(wait_queue') <=> state'[u] = "WAIT"
    BY <1>1, <1>3, <1>5, <1>8 DEF KernelInv, QueueIntegrity
  <2>5. \A u \in Task : waifct'[u] = "NON" <=> state'[u] # "WAIT"
    BY <1>1, <1>8 DEF KernelInv, ProcessorInv
  <2>6. \A u \in Task : waifct'[u] = "SLP" => waifct[u] = "SLP"
    BY <1>8
  <2>7. \A u \in Task : (~Alive(u) => state'[u] = state[u]) /\ (Alive(u) => Alive(u)')
    BY <1>2, <1>8 DEF Alive
  <2>8. pc # "exited"
    BY DEF InTask
  <2> QED BY <1>1, <1>7, <1>9, <2>1, <2>2, <2>3, <2>4, <2>5, <2>6, <2>7, <2>8, MovePreserves
<1>11. MtxTypeOK'
  BY <1>1, <1>2, <1>3 DEF MtxTypeOK
<1>12. OwnersAlive'
  <2>1. t # NONE
    BY <1>2, KernelAssumption
  <2>2. \A j \in Mtx : owner'[j] # NONE => mtxst'[j] = "EXIST" /\ state'[owner'[j]] \in {"READY", "WAIT"}
    BY <1>1, <1>8 DEF OwnersAlive, MtxTypeOK
  <2>3. \A u \in Task : waimtx'[u] # 0 => owner'[waimtx'[u]] \notin {NONE, u}
    BY <1>1, <1>8 DEF OwnersAlive, t
  <2>4. \A u \in Task : waimtx'[u] # 0 <=> waifct'[u] = "MTX"
    BY <1>1, <1>8, MtxIds DEF OwnersAlive
  <2> QED BY <2>2, <2>3, <2>4 DEF OwnersAlive
<1>13. Strict(itskpri, Boosters)'
  BY <1>1, <1>7, <1>10, <1>11, <1>12, StrictFromPulls
<1> QED BY <1>10, <1>11, <1>12, <1>13 DEF MtxInv

LEMMA LockPreserves ==
  ASSUME MtxInv, NEW i \in Mtx, NEW tmout \in MtxWaits, tk_loc_mtx(i, tmout)
  PROVE  MtxInv'
BY TakePreserves, LockWaitPreserves DEF tk_loc_mtx

(* The kernel operations that leave the mutexes alone end no wait for one, *)
(* and touch no priority but that of a task that they create.              *)
LEMMA KernelStepFacts ==
  ASSUME KernelInv, KernelStep
  PROVE  /\ KernelNext /\ UNCHANGED mtxVars
         /\ \A t \in Task : waifct'[t] = "MTX" <=> waifct[t] = "MTX"
         /\ \A t \in Task : Alive(t) => Alive(t)'
         /\ \/ itskpri' = itskpri
            \/ \E t \in Task : ~Alive(t) /\ itskpri' = [itskpri EXCEPT ![t] = BasePri[t]]
<1> DEFINE Kept == /\ \A t \in Task : waifct'[t] = "MTX" <=> waifct[t] = "MTX"
                   /\ \A t \in Task : Alive(t) => Alive(t)'
           Pris == \/ itskpri' = itskpri
                   \/ \E t \in Task : ~Alive(t) /\ itskpri' = [itskpri EXCEPT ![t] = BasePri[t]]
<1>1. ASSUME NEW t \in Task, CreateNext(t) PROVE Kept /\ Pris /\ KernelNext
  <2>1. tk_cre_tsk(t) /\ ~Alive(t) /\ itskpri' = [itskpri EXCEPT ![t] = BasePri[t]]
        /\ waifct' = waifct /\ state' = [state EXCEPT ![t] = "DORMANT"]
    BY <1>1 DEF CreateNext, tk_cre_tsk, Alive
  <2> QED BY <2>1 DEF Alive, KernelInv, TypeOK, KernelNext, AnyContextCall
<1>2. ASSUME NEW t \in Task, tk_sta_tsk(t) PROVE Kept /\ Pris /\ KernelNext
  <2>1. itskpri' = itskpri /\ waifct' = waifct /\ state' = [state EXCEPT ![t] = "READY"]
    BY <1>2 DEF tk_sta_tsk
  <2> QED BY <1>2, <2>1 DEF Alive, KernelInv, TypeOK, KernelNext, AnyContextCall
<1>3. ASSUME InTask, NEW fct \in {"DLY", "SLP"}, NEW tim, Suspend(fct, tim), itskpri' = itskpri
      PROVE  Kept /\ Pris
  <2>1. /\ cur_task \in Task /\ state[cur_task] = "READY" /\ waifct[cur_task] = "NON"
        /\ state' = [state EXCEPT ![cur_task] = "WAIT"] /\ waifct' = [waifct EXCEPT ![cur_task] = fct]
    BY <1>3, RunningIsHead DEF Suspend, StartWait, KernelInv, ProcessorInv
  <2> QED BY <1>3, <2>1 DEF Alive, KernelInv, TypeOK
<1>4. ASSUME NEW d \in Delays, tk_dly_tsk(d) PROVE Kept /\ Pris /\ KernelNext
  BY <1>3, <1>4 DEF tk_dly_tsk, KernelNext, TaskCall
<1>5. ASSUME NEW tmout \in SleepTimes, tk_slp_tsk(tmout) PROVE Kept /\ Pris /\ KernelNext
  <2>1. KernelNext
    BY <1>5 DEF KernelNext, TaskCall
  <2>2. CASE UNCHANGED <<state, itskpri, waifct>>
    BY <2>1, <2>2 DEF Alive
  <2>3. CASE Suspend("SLP", WaitTime(tmout)) /\ itskpri' = itskpri
    BY <1>3, <1>5, <2>1, <2>3 DEF tk_slp_tsk
  <2> QED BY <1>5, <2>2, <2>3 DEF tk_slp_tsk
<1>6. ASSUME NEW t \in Task, tk_wup_tsk(t) PROVE Kept /\ Pris /\ KernelNext
  <2>1. KernelNext
    BY <1>6 DEF KernelNext, AnyContextCall
  <2>2. CASE UNCHANGED <<state, itskpri, waifct>>
    BY <2>1, <2>2 DEF Alive
  <2>3. CASE state[t] = "WAIT" /\ waifct[t] = "SLP" /\ Release({t}, waierr) /\ itskpri' = itskpri
    <3>1. \A u \in Task : /\ state'[u] = IF u = t THEN "READY" ELSE state[u]
                          /\ waifct'[u] = IF u = t THEN "NON" ELSE waifct[u]
      BY <2>3 DEF Release, Awaken, EndWait, Readied
    <3> QED BY <2>1, <2>3, <3>1 DEF Alive
  <2> QED BY <1>6, <2>2, <2>3 DEF tk_wup_tsk
<1>7. CASE Dispatcher
  <2>1. UNCHANGED <<state, itskpri, waifct>>
    BY <1>7 DEF Dispatcher, pendsv_entry, dispatch_entry, idle_exit, tcbVars
  <2> QED BY <1>7, <2>1 DEF KernelStep, KernelNext, Alive
<1>8. UNCHANGED mtxVars
  BY DEF KernelStep
<1> QED BY <1>1, <1>2, <1>4, <1>5, <1>6, <1>7, <1>8 DEF KernelStep

LEMMA KernelStepPreserves ==
  ASSUME MtxInv, KernelStep
  PROVE  MtxInv'
<1>1. KernelInv /\ MtxTypeOK /\ OwnersAlive /\ Strict(itskpri, Boosters)
  BY DEF MtxInv
<1>2. /\ KernelNext /\ UNCHANGED <<mtxst, attr, owner, waimtx>>
      /\ \A t \in Task : waifct'[t] = "MTX" <=> waifct[t] = "MTX"
      /\ \A t \in Task : Alive(t) => Alive(t)'
      /\ \/ itskpri' = itskpri
         \/ \E t \in Task : ~Alive(t) /\ itskpri' = [itskpri EXCEPT ![t] = BasePri[t]]
  BY <1>1, KernelStepFacts DEF mtxVars, cbVars
<1>3. KernelInv'
  BY <1>1, <1>2, KernelNextInv
<1>4. MtxTypeOK'
  BY <1>1, <1>2 DEF MtxTypeOK
<1>5. OwnersAlive'
  BY <1>1, <1>2 DEF OwnersAlive, MtxTypeOK, Alive
<1>6. Boosters' = Boosters
  BY <1>2 DEF Boosters, Boosts
<1>7. itskpri' = itskpri
  <2> SUFFICES ASSUME NEW t \in Task, ~Alive(t), itskpri' = [itskpri EXCEPT ![t] = BasePri[t]]
               PROVE  itskpri' = itskpri
    BY <1>2
  <2>1. Boosters[t] = {}
    <3> SUFFICES ASSUME NEW u \in Task, Boosts(u, t) PROVE FALSE
      BY DEF Boosters
    <3>1. waimtx[u] \in Mtx /\ owner[waimtx[u]] = t
      BY <1>1, WaiterWaits DEF Boosts
    <3> QED BY <1>1, <3>1, KernelAssumption DEF OwnersAlive, Alive
  <2>2. Closed({}, Boosters, t)
    BY <2>1 DEF Closed
  <2>3. Below(Boosters, t) = {}
    BY <2>2 DEF Below
  <2>4. itskpri[t] = BasePri[t] /\ itskpri \in [Task -> Pri]
    BY <1>1, <2>3 DEF Strict
  <2> QED BY <2>4
<1> QED BY <1>1, <1>3, <1>4, <1>5, <1>6, <1>7, StrictKept DEF MtxInv

(***************************************************************************)
(* The SysTick handler.                                                    *)
(***************************************************************************)

(* What the loop of the handler keeps when it has ended the waits of the   *)
(* tasks D.                                                                *)
LoopOK(x, D) ==
  /\ x.wq \in Seq(Task) /\ NoDuplicates(x.wq) /\ Range(x.wq) = Range(wait_queue) \ D
  /\ Linked(x.rq, x.pri, Ready \cup D)
  /\ Strict(x.pri, Pulls(owner, x.wq, waimtx))

LEMMA TimeOutStep ==
  ASSUME MtxInv, NEW x, NEW D \in SUBSET Range(wait_queue), LoopOK(x, D),
         NEW t \in Range(wait_queue) \ D
  PROVE  LoopOK(TimeOut(x, t), D \cup {t})
<1> DEFINE wq  == tqueue_remove_entry(x.wq, t)
           pri == IF waifct[t] = "MTX" THEN Calculated(owner, wq, waimtx) ELSE x.pri
           rq  == Requeued(x.rq, pri)
           last == [rq EXCEPT ![pri[t]] = tqueue_add_entry(@, t)]
           S   == Ready \cup D
<1>1. KernelInv /\ MtxTypeOK /\ OwnersAlive
  BY DEF MtxInv
<1>2. TimeOut(x, t) = [wq |-> wq, pri |-> pri, rq |-> last]
  BY DEF TimeOut
<1>3. /\ x.wq \in Seq(Task) /\ NoDuplicates(x.wq) /\ Range(x.wq) = Range(wait_queue) \ D
      /\ Linked(x.rq, x.pri, S) /\ Strict(x.pri, Pulls(owner, x.wq, waimtx))
      /\ x.pri \in [Task -> Pri]
  BY DEF LoopOK, Strict
<1>4. Range(wait_queue) \in SUBSET Task /\ t \in Task /\ state[t] = "WAIT"
  BY <1>1, RangeOfSeq DEF KernelInv, TypeOK, QueueIntegrity
<1>5. S \in SUBSET Task /\ t \notin S
  BY <1>4 DEF Ready
<1> HIDE DEF S
<1>6. wq \in Seq(Task) /\ NoDuplicates(wq) /\ Range(wq) = Range(wait_queue) \ (D \cup {t})
  <2>1. wq \in Seq(Task) /\ NoDuplicates(wq) /\ Range(wq) = Range(x.wq) \ {t}
    BY <1>3, RemoveEntryProperties
  <2> HIDE DEF wq
  <2> QED BY <1>3, <2>1
<1> HIDE DEF wq
<1>7. Strict(pri, Pulls(owner, wq, waimtx))
  <2>1. CASE waifct[t] = "MTX"
    BY <1>6, <2>1, CalculatedPulls
  <2>2. CASE waifct[t] # "MTX"
    <3>1. waimtx[t] = 0 /\ waimtx[t] \notin Mtx
      BY <1>1, <1>4, <2>2, MtxIds DEF OwnersAlive
    <3>2. \A u \in Task : InheritsFrom(u, owner, wq, waimtx) = InheritsFrom(u, owner, x.wq, waimtx)
      BY <1>3, <1>6, <3>1 DEF InheritsFrom
    <3>3. Pulls(owner, wq, waimtx) = Pulls(owner, x.wq, waimtx)
      BY <3>2 DEF Pulls
    <3> QED BY <1>3, <2>2, <3>3
  <2> QED BY <2>1, <2>2
<1>8. pri \in [Task -> Pri]
  BY <1>7 DEF Strict
<1> HIDE DEF pri
<1>9. Linked(rq, pri, S)
  <2> DEFINE y == x.rq  old == x.pri
  <2>1. Linked(y, old, S) /\ old \in [Task -> Pri]
    BY <1>3
  <2> HIDE DEF y, old
  <2>2. Linked(Requeued(y, pri), pri, S)
    BY <1>5, <1>8, <2>1, RequeuedLinks
  <2> QED BY <2>2 DEF y
<1> HIDE DEF rq
<1>10. Linked(last, pri, S \cup {t})
  BY <1>4, <1>5, <1>8, <1>9, EnqueueLinks
<1> HIDE DEF last
<1>11. S \cup {t} = Ready \cup (D \cup {t})
  BY DEF S
<1>12. LoopOK([wq |-> wq, pri |-> pri, rq |-> last], D \cup {t})
  BY <1>6, <1>7, <1>10, <1>11 DEF LoopOK
<1> QED BY <1>2, <1>12

(* The equation of the first m rounds of the loop. *)
Rounds(k, W, m) ==
  k = [n \in 0..m |-> IF n = 0 THEN [wq |-> wait_queue, rq |-> ready_queue, pri |-> itskpri]
                      ELSE TimeOut(k[n - 1], W[n])]

LEMMA RoundsExist ==
  ASSUME NEW W, NEW N \in Nat
  PROVE  \E k : Rounds(k, W, N)
<1> DEFINE first == [wq |-> wait_queue, rq |-> ready_queue, pri |-> itskpri]
           U == {m \in Nat : \E k : Rounds(k, W, m)}
<1>1. 0 \in U
  <2> DEFINE k == [n \in 0..0 |-> first]
  <2>1. k = [n \in 0..0 |-> IF n = 0 THEN first ELSE TimeOut(k[n - 1], W[n])]
    OBVIOUS
  <2> QED BY <2>1 DEF Rounds
<1>2. ASSUME NEW m \in U PROVE m + 1 \in U
  <2>1. PICK k : Rounds(k, W, m)
    OBVIOUS
  <2> DEFINE g == [n \in 0..m + 1 |-> IF n = m + 1 THEN TimeOut(k[m], W[n]) ELSE k[n]]
             h == [n \in 0..m + 1 |-> IF n = 0 THEN first ELSE TimeOut(g[n - 1], W[n])]
  <2>2. m \in Nat /\ \A n \in 0..m : k[n] = IF n = 0 THEN first ELSE TimeOut(k[n - 1], W[n])
    BY <2>1 DEF Rounds
  <2> HIDE DEF first
  <2>3. ASSUME NEW n \in 0..m + 1 PROVE g[n] = h[n]
    <3>1. CASE n = m + 1
      <4>1. n # 0 /\ n - 1 = m /\ m \in 0..m + 1 /\ m # m + 1
        BY <2>2, <3>1
      <4>2. g[n - 1] = k[m]
        BY <4>1
      <4> QED BY <3>1, <4>1, <4>2
    <3>2. CASE n # m + 1
      <4>1. n \in 0..m /\ g[n] = k[n]
        BY <2>2, <3>2
      <4>2. CASE n = 0
        BY <2>2, <4>1, <4>2
      <4>3. CASE n # 0
        <5>1. n - 1 \in 0..m + 1 /\ n - 1 # m + 1
          BY <2>2, <4>1, <4>3
        <5>2. g[n - 1] = k[n - 1]
          BY <5>1
        <5> QED BY <2>2, <4>1, <4>3, <5>2
      <4> QED BY <4>2, <4>3
    <3> QED BY <3>1, <3>2
  <2>4. g = h
    BY <2>3
  <2>5. Rounds(g, W, m + 1)
    BY <2>4 DEF Rounds, first
  <2> HIDE DEF g, h
  <2> QED BY <2>2, <2>5
<1>3. U = Nat
  <2> HIDE DEF U
  <2>1. U \in SUBSET Nat
    BY DEF U
  <2> QED BY <1>1, <1>2, <2>1, SetInduction
<1> QED BY <1>3

(* What the rounds leave, for waiting tasks W without duplicates. *)
LEMMA RoundsProperties ==
  ASSUME MtxInv, NEW W \in Seq(Task), NoDuplicates(W), Range(W) \in SUBSET Range(wait_queue)
  PROVE  LoopOK(TimeOuts(W)[Len(W)], Range(W))
<1> DEFINE N == Len(W)
           k == CHOOSE f : Rounds(f, W, N)
           Done(n) == {W[i] : i \in 1..n}
           first == [wq |-> wait_queue, rq |-> ready_queue, pri |-> itskpri]
<1>1. N \in Nat /\ DOMAIN W = 1..N
  BY LenProperties
<1>2. TimeOuts(W) = k
  BY DEF TimeOuts, Rounds
<1>3. Rounds(k, W, N)
  <2>1. \E f : Rounds(f, W, N)
    BY <1>1, RoundsExist
  <2> QED BY <2>1
<1> HIDE DEF k, N
<1>4. \A n \in 0..N : k[n] = IF n = 0 THEN first ELSE TimeOut(k[n - 1], W[n])
  BY <1>3 DEF Rounds
<1>5. LoopOK(first, {})
  <2>1. KernelInv /\ MtxTypeOK /\ OwnersAlive /\ Strict(itskpri, Boosters)
    BY DEF MtxInv
  <2>2. Boosters = Pulls(owner, wait_queue, waimtx)
    BY <2>1, BoostersArePulls
  <2>3. Linked(ready_queue, itskpri, Ready)
    BY <2>1, ReadyLinked
  <2>4. first.wq = wait_queue /\ first.rq = ready_queue /\ first.pri = itskpri
    OBVIOUS
  <2> HIDE DEF first
  <2>5. wait_queue \in Seq(Task) /\ NoDuplicates(wait_queue)
    BY <2>1 DEF KernelInv, TypeOK, QueueIntegrity
  <2>6. Ready \cup {} = Ready /\ Range(wait_queue) \ {} = Range(wait_queue)
    OBVIOUS
  <2> QED BY <2>1, <2>2, <2>3, <2>4, <2>5, <2>6 DEF LoopOK
<1> HIDE DEF first
<1> DEFINE U == {n \in Nat : n \in 0..N => LoopOK(k[n], Done(n))}
<1>6. 0 \in U
  <2>1. Done(0) = {} /\ 0 \in 0..N
    BY <1>1
  <2>2. k[0] = first
    BY <1>4, <2>1
  <2> QED BY <1>5, <2>1, <2>2
<1>7. ASSUME NEW n \in U PROVE n + 1 \in U
  <2> SUFFICES ASSUME n + 1 \in 0..N PROVE LoopOK(k[n + 1], Done(n + 1))
    OBVIOUS
  <2> DEFINE t == W[n + 1]  D == Done(n)
  <2>1. n \in Nat /\ n \in 0..N /\ n + 1 # 0 /\ (n + 1) - 1 = n /\ n + 1 \in 1..N
    BY <1>1
  <2>2. k[n + 1] = TimeOut(k[n], t)
    BY <1>4, <2>1
  <2>3. LoopOK(k[n], D)
    BY <2>1
  <2>4. t \in Range(wait_queue) /\ D \in SUBSET Range(wait_queue) /\ t \notin D
    <3>1. \A i \in 1..N : W[i] \in Range(W)
      BY <1>1 DEF Range
    <3>2. \A i \in 1..n : i \in 1..N /\ i # n + 1
      BY <1>1, <2>1
    <3>3. \A i \in 1..n : W[i] # W[n + 1]
      BY <2>1, <3>2 DEF NoDuplicates, N
    <3> QED BY <2>1, <3>1, <3>2, <3>3
  <2>5. Done(n + 1) = D \cup {t}
    <3>1. 1..(n + 1) = (1..n) \cup {n + 1}
      BY <2>1
    <3> QED BY <3>1
  <2> HIDE DEF t, D, Done
  <2> DEFINE x == k[n]
  <2> HIDE DEF x
  <2>6. LoopOK(TimeOut(x, t), D \cup {t})
    BY <2>3, <2>4, TimeOutStep DEF x
  <2> QED BY <2>2, <2>5, <2>6 DEF x
<1>8. U = Nat
  <2>1. U \in SUBSET Nat
    OBVIOUS
  <2> HIDE DEF U
  <2> QED BY <1>6, <1>7, <2>1, SetInduction
<1>9. LoopOK(k[N], Done(N))
  <2>1. N \in U
    <3> HIDE DEF U
    <3> QED BY <1>1, <1>8
  <2>2. N \in 0..N
    BY <1>1
  <2> HIDE DEF Done
  <2> QED BY <2>1, <2>2
<1>10. Done(N) = Range(W)
  BY <1>1 DEF Range
<1> HIDE DEF Done
<1> QED BY <1>2, <1>9, <1>10 DEF N

(* The tasks whose wait ends with this tick. *)
Expiring == {t \in Range(wait_queue) : Expired(t)}

LEMMA TickMtxFields ==
  ASSUME MtxInv, systimer_handler_mtx
  PROVE  /\ LoopOK([wq |-> wait_queue', rq |-> ready_queue', pri |-> itskpri'], Expiring)
         /\ Expiring \in SUBSET Range(wait_queue) /\ Range(wait_queue) \in SUBSET Task
         /\ waitim' \in [Task -> Nat \cup {TMO_FEVR}] /\ scheduler
         /\ \A t \in Task : /\ state'[t] = IF t \in Expiring THEN "READY" ELSE state[t]
                            /\ waifct'[t] = IF t \in Expiring THEN "NON" ELSE waifct[t]
                            /\ waimtx'[t] = IF t \in Expiring THEN 0 ELSE waimtx[t]
         /\ state' \in [Task -> State] /\ waifct' \in [Task -> Waifct]
         /\ waierr' \in [Task -> {"E_OK", "E_TMOUT"}] /\ waimtx' \in [Task -> Mtx \cup {0}]
         /\ \A t \in Expiring : waifct[t] # "DLY" => waierr'[t] = "E_TMOUT"
         /\ UNCHANGED <<wupcnt, context, cur_task, disp, pc, mtxst, attr, owner>>
<1> DEFINE W == Entries(wait_queue, Expiring)
           end == TimeOuts(W)[Len(W)]
<1>1. KernelInv /\ MtxTypeOK /\ wait_queue \in Seq(Task) /\ NoDuplicates(wait_queue)
  BY DEF MtxInv, KernelInv, TypeOK, QueueIntegrity
<1>2. Expiring \in SUBSET Range(wait_queue) /\ Range(wait_queue) \in SUBSET Task
  BY <1>1, RangeOfSeq DEF Expiring
<1>3. /\ wait_queue' = end.wq /\ ready_queue' = end.rq /\ itskpri' = end.pri
      /\ state' = Readied(Expiring) /\ Elapse /\ scheduler
      /\ waierr' = [t \in Task |-> IF t \notin Expiring THEN waierr[t]
                                   ELSE IF waifct[t] = "DLY" THEN "E_OK" ELSE "E_TMOUT"]
      /\ waifct' = [t \in Task |-> IF t \in Expiring THEN "NON" ELSE waifct[t]]
      /\ waimtx' = [t \in Task |-> IF t \in Expiring THEN 0 ELSE waimtx[t]]
      /\ UNCHANGED <<wupcnt, cpuVars, cbVars, owner>>
  BY DEF systimer_handler_mtx, Expiring
<1> DEFINE X == Expiring
<1> HIDE DEF X
<1>4. W \in Seq(Task) /\ NoDuplicates(W) /\ Range(W) = Expiring
  <2>1. /\ Entries(wait_queue, X) \in Seq(Task) /\ NoDuplicates(Entries(wait_queue, X))
        /\ Range(Entries(wait_queue, X)) = Range(wait_queue) \cap X
    BY <1>1, EntriesProperties
  <2> QED BY <1>2, <2>1 DEF X
<1> HIDE DEF W
<1>5. LoopOK(end, Expiring)
  BY <1>2, <1>4, RoundsProperties
<1> HIDE DEF end
<1>6. LoopOK([wq |-> wait_queue', rq |-> ready_queue', pri |-> itskpri'], Expiring)
  BY <1>3, <1>5 DEF LoopOK
<1>7. waitim' \in [Task -> Nat \cup {TMO_FEVR}]
  <2>1. waitim \in [Task -> Nat \cup {TMO_FEVR}]
    BY <1>1 DEF KernelInv, TypeOK
  <2>2. \A t \in Task : (IF t \notin Range(wait_queue) \/ ~Finite(t) THEN waitim[t]
                         ELSE IF Expired(t) THEN 0 ELSE waitim[t] - TimerPeriod)
                          \in Nat \cup {TMO_FEVR}
    BY <2>1, TimerAssumption DEF Expired, Finite, TMO_FEVR
  <2> QED BY <1>3, <2>2 DEF Elapse
<1>8. state' \in [Task -> State]
  BY <1>1, <1>3 DEF Readied, State, KernelInv, TypeOK
<1>9. waifct' \in [Task -> Waifct] /\ waierr' \in [Task -> {"E_OK", "E_TMOUT"}]
  BY <1>1, <1>3 DEF KernelInv, TypeOK, Waifct
<1>10. waimtx' \in [Task -> Mtx \cup {0}]
  BY <1>1, <1>3 DEF MtxTypeOK
<1>11. \A t \in Task : /\ state'[t] = IF t \in Expiring THEN "READY" ELSE state[t]
                       /\ waifct'[t] = IF t \in Expiring THEN "NON" ELSE waifct[t]
                       /\ waimtx'[t] = IF t \in Expiring THEN 0 ELSE waimtx[t]
  BY <1>3 DEF Readied
<1>12. \A t \in Expiring : waifct[t] # "DLY" => waierr'[t] = "E_TMOUT"
  BY <1>2, <1>3
<1>13. UNCHANGED <<wupcnt, context, cur_task, disp, pc, mtxst, attr, owner>>
  BY <1>3 DEF cpuVars, cbVars
<1> QED BY <1>2, <1>3, <1>6, <1>7, <1>8, <1>9, <1>10, <1>11, <1>12, <1>13

LEMMA TickMtxPreserves ==
  ASSUME MtxInv, systimer_handler_mtx
  PROVE  MtxInv'
<1> DEFINE X == Expiring
           x == [wq |-> wait_queue', rq |-> ready_queue', pri |-> itskpri']
<1>1. KernelInv /\ MtxTypeOK /\ OwnersAlive
  BY DEF MtxInv
<1>2. /\ LoopOK(x, X)
      /\ X \in SUBSET Range(wait_queue) /\ Range(wait_queue) \in SUBSET Task
      /\ waitim' \in [Task -> Nat \cup {TMO_FEVR}] /\ scheduler
      /\ \A t \in Task : /\ state'[t] = IF t \in X THEN "READY" ELSE state[t]
                         /\ waifct'[t] = IF t \in X THEN "NON" ELSE waifct[t]
                         /\ waimtx'[t] = IF t \in X THEN 0 ELSE waimtx[t]
      /\ state' \in [Task -> State] /\ waifct' \in [Task -> Waifct]
      /\ waierr' \in [Task -> {"E_OK", "E_TMOUT"}] /\ waimtx' \in [Task -> Mtx \cup {0}]
      /\ UNCHANGED <<wupcnt, context, cur_task, disp, pc, mtxst, attr, owner>>
  BY TickMtxFields
<1>3. /\ wait_queue' \in Seq(Task) /\ NoDuplicates(wait_queue')
      /\ Range(wait_queue') = Range(wait_queue) \ X
      /\ Linked(ready_queue', itskpri', Ready \cup X)
      /\ Strict(itskpri', Pulls(owner, wait_queue', waimtx))
  BY <1>2 DEF LoopOK
<1> HIDE DEF X, x
<1>4. itskpri' \in [Task -> Pri]
  BY <1>3 DEF Strict
<1>5. \A t \in Task : t \in Range(wait_queue) <=> state[t] = "WAIT"
  BY <1>1 DEF KernelInv, QueueIntegrity
<1>6. KernelInv'
  <2>1. Scheduled
    BY <1>1, <1>2, SchedulerSchedules DEF KernelInv, TypeOK
  <2>2. \A t \in Task : t \in Range(wait_queue') <=> state'[t] = "WAIT"
    BY <1>2, <1>3, <1>5
  <2>3. \A t \in Task : waifct[t] = "NON" <=> state[t] # "WAIT"
    BY <1>1 DEF KernelInv, ProcessorInv
  <2>4. \A t \in Task : waifct'[t] = "NON" <=> state'[t] # "WAIT"
    BY <1>2, <2>3
  <2>5. \A t \in Task : waifct'[t] = "SLP" => waifct[t] = "SLP"
    BY <1>2
  <2>6. \A t \in Task : (~Alive(t) => state'[t] = state[t]) /\ (Alive(t) => Alive(t)')
    BY <1>2, <1>5 DEF Alive
  <2>7. Ready' = Ready \cup X
    BY <1>2 DEF Ready
  <2>8. Linked(ready_queue', itskpri', Ready')
    BY <1>3, <2>7
  <2>9. pc = "exited" => state'[cur_task] # "WAIT"
    <3>1. pc = "exited" => state[cur_task] \in {"DORMANT", "READY"} /\ cur_task \in Task
      BY <1>1, KernelAssumption DEF KernelInv, ProcessorInv, TypeOK
    <3> QED BY <1>2, <3>1
  <2> QED BY <1>1, <1>2, <1>3, <1>4, <2>1, <2>2, <2>4, <2>5, <2>6, <2>8, <2>9, MovePreserves
<1>7. MtxTypeOK'
  BY <1>1, <1>2 DEF MtxTypeOK
<1>8. OwnersAlive'
  <2>1. \A i \in Mtx : owner'[i] # NONE => mtxst'[i] = "EXIST" /\ state'[owner'[i]] \in {"READY", "WAIT"}
    BY <1>1, <1>2 DEF OwnersAlive, MtxTypeOK
  <2>2. \A t \in Task : waimtx'[t] # 0 => owner'[waimtx'[t]] \notin {NONE, t}
    BY <1>1, <1>2 DEF OwnersAlive
  <2>3. \A t \in Task : waimtx'[t] # 0 <=> waifct'[t] = "MTX"
    BY <1>1, <1>2 DEF OwnersAlive
  <2> QED BY <2>1, <2>2, <2>3 DEF OwnersAlive
<1>9. Pulls(owner', wait_queue', waimtx') = Pulls(owner, wait_queue', waimtx)
  <2>1. \A u \in Range(wait_queue') : waimtx'[u] = waimtx[u]
    BY <1>2, <1>3
  <2>2. \A t \in Task : InheritsFrom(t, owner', wait_queue', waimtx')
                        = InheritsFrom(t, owner, wait_queue', waimtx)
    BY <1>2, <2>1 DEF InheritsFrom
  <2> QED BY <2>2 DEF Pulls
<1>10. Strict(itskpri, Boosters)'
  <2>1. Strict(itskpri', Pulls(owner', wait_queue', waimtx'))
    BY <1>3, <1>9
  <2> QED BY <1>2, <1>6, <1>7, <1>8, <2>1, StrictFromPulls
<1> QED BY <1>6, <1>7, <1>8, <1>10 DEF MtxInv

(***************************************************************************)
(* The theorems.                                                           *)
(***************************************************************************)
LEMMA MtxInitInv == Init => MtxInv
<1> SUFFICES ASSUME Init PROVE MtxInv
  OBVIOUS
<1>1. /\ KernelInit /\ mtxst = [i \in Mtx |-> "NONEXIST"] /\ attr = [i \in Mtx |-> "TA_TFIFO"]
      /\ owner = [i \in Mtx |-> NONE] /\ waimtx = [t \in Task |-> 0]
      /\ waifct = [t \in Task |-> "NON"] /\ itskpri = BasePri
  BY DEF Init, KernelInit
<1>2. KernelInv
  BY <1>1, KernelInitInv
<1>3. MtxTypeOK
  BY <1>1 DEF MtxTypeOK
<1>4. OwnersAlive
  BY <1>1 DEF OwnersAlive
<1>5. Strict(itskpri, Boosters)
  <2>1. \A t \in Task : Boosters[t] = {}
    BY <1>1 DEF Boosters, Boosts
  <2>2. BasePri \in [Task -> Pri] /\ Pri \in SUBSET Nat
    BY KernelAssumption, PriNumbers
  <2>3. \A t \in Task : BasePri[t] <= BasePri[t]
    <3>1. \A t \in Task : BasePri[t] \in Nat
      BY <2>2
    <3> QED BY <3>1
  <2> QED BY <1>1, <2>1, <2>2, <2>3 DEF Strict
<1> QED BY <1>2, <1>3, <1>4, <1>5 DEF MtxInv

LEMMA MtxNextInv ==
  ASSUME MtxInv, [Next]_vars
  PROVE  MtxInv'
<1>1. CASE MutexCall
  BY <1>1, CreateMtxPreserves, UnlockPreserves, LockPreserves DEF MutexCall
<1>2. CASE KernelStep
  BY <1>2, KernelStepPreserves
<1>3. CASE tk_ext_tsk_mtx
  BY <1>3, ExitMtxPreserves
<1>4. CASE systimer_handler_mtx
  BY <1>4, TickMtxPreserves
<1>5. CASE UNCHANGED vars
  <2>1. UNCHANGED kernelVars /\ UNCHANGED <<mtxst, attr, owner, waimtx>>
    BY <1>5 DEF vars, mtxVars, cbVars
  <2>2. KernelInv'
    BY <2>1, KernelStutter DEF MtxInv
  <2>3. UNCHANGED <<state, waifct, itskpri>>
    BY <2>1 DEF kernelVars, tcbVars
  <2>4. MtxTypeOK' /\ OwnersAlive'
    BY <2>1, <2>3 DEF MtxInv, MtxTypeOK, OwnersAlive
  <2>5. Boosters' = Boosters
    BY <2>1 DEF Boosters, Boosts
  <2> QED BY <2>2, <2>3, <2>4, <2>5, StrictKept DEF MtxInv
<1> QED BY <1>1, <1>2, <1>3, <1>4, <1>5 DEF Next

(* The inductive invariant holds: the kernel core is as it is without      *)
(* mutexes, owners are alive, and priorities are those of inheritance.     *)
THEOREM MutexInvariant == Spec => []MtxInv
<1>1. Init => MtxInv
  BY MtxInitInv
<1>2. MtxInv /\ [Next]_vars => MtxInv'
  BY MtxNextInv
<1> QED BY <1>1, <1>2, PTL DEF Spec

(* A mutex is never owned by a task that has exited or does not exist, a   *)
(* mutex with waiters is owned, and not by one of them (mutex.c).          *)
THEOREM NoOrphans == Spec => []OwnersAlive
<1>1. MtxInv => OwnersAlive
  BY DEF MtxInv
<1> QED BY <1>1, MutexInvariant, PTL

(* Priorities are inherited strictly: never less and never more than the   *)
(* tasks demand that wait for a task, through however many mutexes.        *)
THEOREM InheritanceIsStrict == Spec => []StrictInheritance
<1>1. MtxInv => StrictInheritance
  <2> SUFFICES ASSUME MtxInv, NEW t \in Task
               PROVE  itskpri[t] = Min({BasePri[u] : u \in Dependents(t) \cup {t}})
    BY DEF StrictInheritance
  <2> DEFINE D == Dependents(t)
             B == Boosters
             Is(E) == /\ \A u, v \in Task : Boosts(u, v) /\ v \in E \cup {t} => u \in E
                      /\ \A F \in SUBSET Task :
                           (\A u, v \in Task : Boosts(u, v) /\ v \in F \cup {t} => u \in F)
                             => E \subseteq F
  <2>1. B \in Relations /\ \A u, v \in Task : u \in B[v] <=> Boosts(u, v)
    BY DEF Boosters, Relations
  <2> HIDE DEF B
  <2>2. \A E \in SUBSET Task : Is(E) <=> LeastClosed(E, B, t)
    <3>1. \A E \in SUBSET Task :
            (\A u, v \in Task : Boosts(u, v) /\ v \in E \cup {t} => u \in E) <=> Closed(E, B, t)
      BY <2>1 DEF Closed
    <3> QED BY <3>1 DEF LeastClosed
  <2>3. D = CHOOSE E \in SUBSET Task : Is(E)
    BY DEF Dependents
  <2>4. \E E \in SUBSET Task : Is(E)
    <3>1. Below(B, t) \in SUBSET Task /\ LeastClosed(Below(B, t), B, t)
      BY BelowIsLeast
    <3> HIDE DEF Is
    <3> QED BY <2>2, <3>1
  <2> HIDE DEF D, Is
  <2>5. D \in SUBSET Task /\ Is(D)
    BY <2>3, <2>4
  <2>6. LeastClosed(D, B, t)
    BY <2>2, <2>5
  <2>7. Strict(itskpri, B)
    BY DEF MtxInv, B
  <2>8. itskpri[t] = Min({BasePri[u] : u \in D \cup {t}})
    BY <2>1, <2>5, <2>6, <2>7, StrictIsMinimum
  <2> QED BY <2>8 DEF D
<1> QED BY <1>1, MutexInvariant, PTL

(* The running task is at least as urgent as every READY one. *)
LEMMA RunningIsMostUrgent ==
  ASSUME KernelInv, InTask, NEW t \in Task, state[t] = "READY"
  PROVE  cur_task \in Task /\ itskpri[cur_task] <= itskpri[t]
<1> DEFINE h == HighestPri(ready_queue)
           p == itskpri[t]
<1>1. /\ cur_task \in Task /\ cur_task = TopTask(ready_queue)
      /\ Head(ready_queue[itskpri[cur_task]]) = cur_task
  BY RunningIsHead
<1>2. ready_queue \in Queues /\ p \in Pri /\ Pri \in SUBSET Nat /\ Pri = 1..MaxPri
  BY PriNumbers DEF KernelInv, TypeOK, Queues
<1>3. t \in Range(ready_queue[p])
  BY <1>2 DEF KernelInv, QueueIntegrity
<1>4. ready_queue[p] # <<>>
  <2>1. Range(<<>>) = {}
    BY DEF Range
  <2> QED BY <1>3, <2>1
<1>5. h \in Pri /\ ready_queue[h] # <<>> /\ \A o \in 1..(h - 1) : ready_queue[o] = <<>>
  <2>1. \E o \in Pri : ready_queue[o] # <<>>
    BY <1>2, <1>4
  <2> QED BY <1>2, <2>1, HighestPriProperties
<1>6. cur_task = Head(ready_queue[h])
  BY <1>1, <1>2, <1>4 DEF TopTask
<1> HIDE DEF h
<1>7. cur_task \in Range(ready_queue[h])
  <2>1. ready_queue[h] \in Seq(Task)
    BY <1>2, <1>5 DEF Queues
  <2>2. Head(ready_queue[h]) = ready_queue[h][1] /\ Len(ready_queue[h]) \in Nat \ {0}
        /\ DOMAIN ready_queue[h] = 1..Len(ready_queue[h])
    BY <1>5, <2>1, EmptySeq, HeadTailProperties, LenProperties
  <2> QED BY <1>6, <2>2 DEF Range
<1>8. itskpri[cur_task] = h
  BY <1>1, <1>5, <1>7 DEF KernelInv, QueueIntegrity
<1>9. h <= p
  <2>1. h \in Nat /\ p \in Nat
    BY <1>2, <1>5
  <2>2. p \notin 1..(h - 1)
    BY <1>4, <1>5
  <2>3. 1 <= p
    BY <1>2
  <2> HIDE DEF p
  <2> QED BY <2>1, <2>2, <2>3
<1> QED BY <1>1, <1>8, <1>9

(* While the owner of a TA_INHERIT mutex could run, nothing runs that is   *)
(* less urgent than one of its waiters: inversion is bounded by the time   *)
(* that the owner itself takes.                                            *)
THEOREM InversionIsBounded == Spec => []BoundedInversion
<1>1. MtxInv => BoundedInversion
  <2> SUFFICES ASSUME MtxInv, NEW t \in Task, waimtx[t] # 0, attr[waimtx[t]] = "TA_INHERIT",
                      state[owner[waimtx[t]]] = "READY", InTask
               PROVE  itskpri[cur_task] <= itskpri[t]
    BY DEF BoundedInversion
  <2> DEFINE o == owner[waimtx[t]]
  <2>1. KernelInv /\ MtxTypeOK /\ OwnersAlive /\ Strict(itskpri, Boosters)
    BY DEF MtxInv
  <2>2. o \in Task
    BY <2>1, WaiterWaits
  <2>3. t \in Boosters[o]
    BY <2>2 DEF Boosters, Boosts
  <2>4. itskpri[o] <= itskpri[t]
    BY <2>1, <2>2, <2>3 DEF Strict
  <2>5. cur_task \in Task /\ itskpri[cur_task] <= itskpri[o]
    BY <2>1, <2>2, RunningIsMostUrgent
  <2>6. itskpri \in [Task -> Pri] /\ Pri \in SUBSET Nat
    BY <2>1, PriNumbers DEF KernelInv, TypeOK
  <2> HIDE DEF o
  <2>7. itskpri[cur_task] \in Nat /\ itskpri[o] \in Nat /\ itskpri[t] \in Nat
    BY <2>2, <2>5, <2>6
  <2> QED BY <2>4, <2>5, <2>7
<1> QED BY <1>1, MutexInvariant, PTL

(* A release hands the mutex to the waiter that is first in its order. *)
LEMMA ReleaseHandsOver ==
  ASSUME MtxInv, NEW R \in SUBSET Mtx, release_mutexes(R), NEW i \in R, Waiters(i) # <<>>,
         \A t \in Winners(R) : state'[t] = "READY"
  PROVE  \E k : /\ Chosen(owner'[i], k, Waiters(i), i)
                /\ state'[owner'[i]] = "READY" /\ waierr'[owner'[i]] = "E_OK"
<1>1. KernelInv /\ MtxTypeOK /\ OwnersAlive /\ i \in Mtx
  BY DEF MtxInv
<1>2. PICK k : Chosen(select_waiter(i), k, Waiters(i), i)
  BY <1>1, SelectProperties
<1>3. owner'[i] = select_waiter(i)
  BY <1>1, ReleaseFields
<1>4. select_waiter(i) # NONE
  <2>1. Waiters(i) \in Seq(Task)
    BY <1>1, WaitersProperties
  <2>2. select_waiter(i) \in Task
    BY <1>2, <2>1, ElementOfSeq DEF Chosen
  <2> QED BY <2>2, KernelAssumption
<1>5. select_waiter(i) \in Winners(R) /\ select_waiter(i) \in Task
  BY <1>1, <1>4, WinnersWait
<1>6. waierr'[select_waiter(i)] = "E_OK"
  BY <1>1, <1>5, ReleaseFields
<1> QED BY <1>2, <1>3, <1>5, <1>6

(* What the calls that release do to the winners. *)
LEMMA ReleasingCalls ==
  ASSUME MtxInv, NEW i \in Mtx, tk_unl_mtx(i) \/ tk_ext_tsk_mtx
  PROVE  \E R \in SUBSET Mtx :
           /\ release_mutexes(R)
           /\ \A t \in Winners(R) : state'[t] = "READY"
           /\ \A t \in Task : state[t] = "WAIT" /\ state'[t] = "READY" => t \in Winners(R)
<1>1. KernelInv /\ MtxTypeOK /\ OwnersAlive /\ state \in [Task -> State]
  BY DEF MtxInv, KernelInv, TypeOK
<1>2. CASE tk_unl_mtx(i)
  <2> DEFINE R == {i}
  <2>1. R \in SUBSET Mtx /\ release_mutexes(R) /\ state' = Readied(Range(NewOwners(R)))
    BY <1>2 DEF tk_unl_mtx
  <2> HIDE DEF R
  <2>2. Range(NewOwners(R)) = Winners(R) /\ Winners(R) \in SUBSET Task
    BY <1>1, <2>1, NewOwnersProperties, WinnersWait
  <2> QED BY <2>1, <2>2 DEF Readied
<1>3. CASE tk_ext_tsk_mtx
  <2> DEFINE R == Owned(cur_task)
  <2>1. /\ R \in SUBSET Mtx /\ release_mutexes(R) /\ InTask
        /\ state' = [Readied(Range(NewOwners(R))) EXCEPT ![cur_task] = "DORMANT"]
    BY <1>3 DEF tk_ext_tsk_mtx, OwnedByCaller, Owned
  <2> HIDE DEF R
  <2>2. /\ Range(NewOwners(R)) = Winners(R) /\ Winners(R) \in SUBSET Task
        /\ \A t \in Winners(R) : state[t] = "WAIT"
    BY <1>1, <2>1, NewOwnersProperties, WinnersWait
  <2>3. cur_task \in Task /\ state[cur_task] = "READY"
    BY <1>1, <2>1, RunningIsHead
  <2>4. \A t \in Task : t # cur_task => state'[t] = IF t \in Winners(R) THEN "READY" ELSE state[t]
    BY <2>1, <2>2, <2>3 DEF Readied
  <2>5. state'[cur_task] = "DORMANT"
    BY <2>1, <2>3 DEF Readied
  <2> QED BY <2>1, <2>2, <2>3, <2>4, <2>5
<1> QED BY <1>2, <1>3

(* The other steps change the owner of no mutex with waiters. *)
LEMMA OtherStepsKeepOwners ==
  ASSUME MtxInv, [Next]_vars, NEW i \in Mtx, Waiters(i) # <<>>
  PROVE  \/ owner'[i] = owner[i]
         \/ \E j \in Mtx : tk_unl_mtx(j)
         \/ tk_ext_tsk_mtx
<1>1. KernelInv /\ MtxTypeOK /\ OwnersAlive
  BY DEF MtxInv
<1>2. owner[i] # NONE
  <2>1. Waiters(i) \in Seq(Task) /\ \A t \in Task : t \in Range(Waiters(i)) => waimtx[t] = i
    BY <1>1, WaitersProperties
  <2>2. PICK t \in Task : waimtx[t] = i
    <3>1. Len(Waiters(i)) \in Nat \ {0} /\ DOMAIN Waiters(i) = 1..Len(Waiters(i))
      BY <2>1, EmptySeq, LenProperties
    <3>2. Waiters(i)[1] \in Range(Waiters(i)) /\ Waiters(i)[1] \in Task
      BY <2>1, <3>1, ElementOfSeq DEF Range
    <3> QED BY <2>1, <3>2
  <2> QED BY <1>1, <2>2, MtxIds DEF OwnersAlive
<1>3. ASSUME NEW j \in Mtx, NEW mtxatr \in Attrs, tk_cre_mtx(j, mtxatr) PROVE owner'[i] = owner[i]
  BY <1>3 DEF tk_cre_mtx
<1>4. ASSUME NEW j \in Mtx, NEW tmout \in MtxWaits, tk_loc_mtx(j, tmout) PROVE owner'[i] = owner[i]
  BY <1>1, <1>2, <1>4 DEF tk_loc_mtx, MtxTypeOK
<1>5. CASE KernelStep
  BY <1>5 DEF KernelStep, mtxVars
<1>6. CASE systimer_handler_mtx
  BY <1>6 DEF systimer_handler_mtx
<1>7. CASE UNCHANGED vars
  BY <1>7 DEF vars, mtxVars
<1> QED BY <1>3, <1>4, <1>5, <1>6, <1>7 DEF Next, MutexCall

(* Ownership is handed over, to the longest waiter of a TA_TFIFO mutex and *)
(* the longest among the most urgent of a TA_INHERIT one, by tk_unl_mtx    *)
(* and by tk_ext_tsk.                                                      *)
THEOREM OwnershipIsHandedOver == Spec => HandsOver
<1> DEFINE To(i, k, W) ==
             /\ owner'[i] = W[k] /\ state'[W[k]] = "READY" /\ waierr'[W[k]] = "E_OK"
             /\ attr[i] = "TA_TFIFO" => k = 1
             /\ attr[i] = "TA_INHERIT" =>
                  \A j \in 1..Len(W) : \/ itskpri[W[k]] < itskpri[W[j]]
                                       \/ itskpri[W[k]] = itskpri[W[j]] /\ k <= j
           A == \A i \in Mtx : owner'[i] # owner[i] /\ Waiters(i) # <<>> =>
                  \E k \in 1..Len(Waiters(i)) : To(i, k, Waiters(i))
<1>1. MtxInv /\ [Next]_vars => [A]_vars
  <2> SUFFICES ASSUME MtxInv, [Next]_vars, NEW i \in Mtx, owner'[i] # owner[i], Waiters(i) # <<>>
               PROVE  \E k \in 1..Len(Waiters(i)) : To(i, k, Waiters(i))
    OBVIOUS
  <2>1. \E j \in Mtx : tk_unl_mtx(j) \/ tk_ext_tsk_mtx
    BY OtherStepsKeepOwners
  <2>2. PICK R \in SUBSET Mtx : /\ release_mutexes(R)
                                /\ \A t \in Winners(R) : state'[t] = "READY"
    BY <2>1, ReleasingCalls
  <2>3. i \in R
    <3>1. KernelInv /\ MtxTypeOK /\ OwnersAlive
      BY DEF MtxInv
    <3> QED BY <2>2, <3>1, ReleaseFields
  <2>4. PICK k : /\ Chosen(owner'[i], k, Waiters(i), i)
                 /\ state'[owner'[i]] = "READY" /\ waierr'[owner'[i]] = "E_OK"
    BY <2>2, <2>3, ReleaseHandsOver
  <2>5. To(i, k, Waiters(i)) /\ k \in 1..Len(Waiters(i))
    BY <2>4 DEF Chosen
  <2> QED BY <2>5
<1> QED BY <1>1, MutexInvariant, PTL DEF Spec, HandsOver

(* A wait that ends with the mutex returns E_OK, and one that ends by its  *)
(* time-out leaves the mutex with its owner, although the SysTick handler  *)
(* and the release both take the waiter out of the wait queue.             *)
THEOREM TimeOutsGiveNothing == Spec => TimeOutGivesNothing
<1> DEFINE A == \A t \in Task : waimtx[t] # 0 /\ state[t] = "WAIT" /\ state'[t] = "READY" =>
                  (waierr'[t] = "E_OK" <=> owner'[waimtx[t]] = t)
<1>1. MtxInv /\ [Next]_vars => [A]_vars
  <2> SUFFICES ASSUME MtxInv, [Next]_vars, NEW t \in Task, waimtx[t] # 0, state[t] = "WAIT",
                      state'[t] = "READY"
               PROVE  waierr'[t] = "E_OK" <=> owner'[waimtx[t]] = t
    OBVIOUS
  <2>1. KernelInv /\ MtxTypeOK /\ OwnersAlive
    BY DEF MtxInv
  <2>2. /\ waimtx[t] \in Mtx /\ owner[waimtx[t]] # t /\ waifct[t] = "MTX"
        /\ t \in Range(wait_queue)
    BY <2>1, WaiterWaits
  <2>3. ASSUME \E j \in Mtx : tk_unl_mtx(j) \/ tk_ext_tsk_mtx
        PROVE  waierr'[t] = "E_OK" /\ owner'[waimtx[t]] = t
    <3>1. PICK R \in SUBSET Mtx :
                 /\ release_mutexes(R)
                 /\ \A u \in Task : state[u] = "WAIT" /\ state'[u] = "READY" => u \in Winners(R)
      BY <2>3, ReleasingCalls
    <3>2. t \in Winners(R)
      BY <3>1
    <3>3. waimtx[t] \in R /\ select_waiter(waimtx[t]) = t
      BY <3>2 DEF Winners
    <3> QED BY <2>1, <2>2, <3>1, <3>2, <3>3, ReleaseFields
  <2>4. CASE tk_ext_tsk_mtx
    BY <2>2, <2>3, <2>4
  <2>5. ASSUME NEW j \in Mtx, tk_unl_mtx(j) PROVE waierr'[t] = "E_OK" /\ owner'[waimtx[t]] = t
    BY <2>3, <2>5
  <2>6. ASSUME NEW j \in Mtx, NEW mtxatr \in Attrs, tk_cre_mtx(j, mtxatr) PROVE FALSE
    BY <2>6 DEF tk_cre_mtx, kernelVars, tcbVars
  <2>7. ASSUME NEW j \in Mtx, NEW tmout \in MtxWaits, tk_loc_mtx(j, tmout) PROVE FALSE
    <3>1. CASE UNCHANGED kernelVars
      BY <3>1 DEF kernelVars, tcbVars
    <3>2. CASE state' = [state EXCEPT ![cur_task] = "WAIT"]
      BY <3>2 DEF KernelInv, TypeOK
    <3> QED BY <2>7, <3>1, <3>2 DEF tk_loc_mtx, StartWait
  <2>8. CASE KernelStep
    <3>1. waifct'[t] = "MTX" /\ KernelInv'
      BY <2>1, <2>2, <2>8, KernelStepFacts, KernelNextInv
    <3>2. state'[t] = "WAIT"
      BY <3>1 DEF KernelInv, ProcessorInv
    <3> QED BY <3>2
  <2>9. CASE systimer_handler_mtx
    <3>1. t \in Expiring
      BY <2>9, TickMtxFields
    <3>2. waierr'[t] = "E_TMOUT" /\ owner' = owner
      BY <2>2, <2>9, <3>1, TickMtxFields
    <3> QED BY <2>2, <3>2
  <2>10. CASE UNCHANGED vars
    BY <2>10 DEF vars, kernelVars, tcbVars
  <2> QED BY <2>4, <2>5, <2>6, <2>7, <2>8, <2>9, <2>10 DEF Next, MutexCall
<1> QED BY <1>1, MutexInvariant, PTL DEF Spec, TimeOutGivesNothing
=============================================================================
