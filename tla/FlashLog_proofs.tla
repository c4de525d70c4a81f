-------------------------- MODULE FlashLog_proofs --------------------------
(***************************************************************************)
(* Proofs about FlashLog, for every length of the log and of its queue,    *)
(* every set of commands and all numbers of faults and resets.             *)
(***************************************************************************)
EXTENDS FlashLog, SequenceTheorems, TLAPS

Events   == {"MOVING", "STOPPED"}
Records  == {Record(n, e) : n \in Slot, e \in Events}
Contents == [seq : Nat, event : Events \cup {"erased", "garbage", "failed"}, whole : BOOLEAN]
Targets  == [slot : Nat, rec : Contents]

Single(op, arg) == [op |-> op, arg |-> arg]

Steps == [op  : reads \cup writes \cup {"wait_ready", "dly", "ask", "send", "dump",
                                        "unready", "zero", "ready"},
          arg : Nat \cup Events \cup Targets]

(***************************************************************************)
(* The script of the clearing, and what is left of it.                     *)
(***************************************************************************)
End == MaxRecords + 5

ClearStep(k) ==
  IF k = 1 THEN Single("unready", 0)
  ELSE IF k = 2 THEN Single("query", 0)
  ELSE IF k = 3 THEN Single("erase", [slot |-> 1, rec |-> Erased])
  ELSE IF k <= End - 2 THEN Single("verify", k - 3)
  ELSE IF k = End - 1 THEN Single("zero", 0)
  ELSE Single("ready", 0)

(* s is what is left when the k-th step is the next. *)
Rest(s, k) ==
  /\ k \in 1..End
  /\ s \in Seq(Steps) /\ Len(s) = End + 1 - k
  /\ \A i \in 1..Len(s) : s[i] = ClearStep(k - 1 + i)

(* Steps that leave the sector of the log alone. *)
Harmless ==
  {d \in Steps : \/ d.op \in {"query", "dly", "wait_ready", "dump", "read"}
                 \/ d.op \in writes /\ d.arg \in Targets /\ d.arg.slot = 0
                    /\ (d.op = "program" => d.arg.rec.event # "erased")}

LEMMA EndFacts == End \in Nat /\ End >= 6 /\ MaxRecords \in Nat /\ MaxRecords >= 1
                  /\ End = MaxRecords + 5
BY FlashLogAssumption DEF End

LEMMA Contained ==
  /\ Erased \in Contents /\ Garbage \in Contents /\ Failed \in Contents
  /\ Erased.event = "erased" /\ Garbage.event = "garbage" /\ Failed.event = "failed"
  /\ \A n, e : Record(n, e).seq = n /\ Record(n, e).event = e /\ Record(n, e).whole
  /\ \A r \in Records : r \in Contents /\ r.seq \in Slot /\ r.event \in Events /\ r.whole
  /\ \A r \in Contents : Part(r) \in Contents /\ Part(r).event = r.event /\ Part(r).seq = r.seq
<1>1. MaxRecords \in Nat
  BY EndFacts
<1>2. \A n, e : Record(n, e).seq = n /\ Record(n, e).event = e /\ Record(n, e).whole
  BY DEF Record
<1>4. /\ Erased \in Contents /\ Garbage \in Contents /\ Failed \in Contents
      /\ Erased.event = "erased" /\ Garbage.event = "garbage" /\ Failed.event = "failed"
  BY <1>2 DEF Record, Erased, Garbage, Failed, Contents
<1>5. ASSUME NEW r \in Records
      PROVE  r \in Contents /\ r.seq \in Slot /\ r.event \in Events /\ r.whole
  <2>1. PICK n \in Slot, e \in Events : r = Record(n, e)
    BY DEF Records
  <2>2. n \in Nat
    BY <1>1 DEF Slot
  <2> QED BY <2>1, <2>2 DEF Record, Contents
<1>6. \A r \in Contents : Part(r) \in Contents /\ Part(r).event = r.event /\ Part(r).seq = r.seq
  BY DEF Part, Contents
<1> QED BY <1>2, <1>4, <1>5, <1>6

(* Scripts of one step, and one before others. *)
LEMMA DoFacts ==
  ASSUME NEW op, NEW arg
  PROVE  /\ Do(op, arg) # <<>> /\ Head(Do(op, arg)) = Single(op, arg)
         /\ Tail(Do(op, arg)) = <<>> /\ Len(Do(op, arg)) = 1
         /\ Do(op, arg)[1] = Single(op, arg) /\ Last(Do(op, arg)) = Single(op, arg)
         /\ Single(op, arg).op = op /\ Single(op, arg).arg = arg
BY DEF Do, Single, Last

LEMMA DoIsSeq ==
  ASSUME NEW S, NEW op, NEW arg, Single(op, arg) \in S
  PROVE  Do(op, arg) \in Seq(S)
BY DEF Do, Single

LEMMA Join ==
  ASSUME NEW S, NEW s \in Seq(S), NEW t \in Seq(S)
  PROVE  /\ s \o t \in Seq(S) /\ Len(s \o t) = Len(s) + Len(t)
         /\ \A i \in 1..Len(s) : (s \o t)[i] = s[i]
         /\ \A i \in 1..Len(t) : (s \o t)[Len(s) + i] = t[i]
BY ConcatProperties, LenProperties

LEMMA JoinSteps ==
  \A s, t \in Seq(Steps) :
    /\ s \o t \in Seq(Steps) /\ Len(s \o t) = Len(s) + Len(t)
    /\ \A i \in 1..Len(s) : (s \o t)[i] = s[i]
    /\ \A i \in 1..Len(t) : (s \o t)[Len(s) + i] = t[i]
<1> TAKE s, t \in Seq(Steps)
<1> QED BY Join

(* Two steps, one after the other. *)
LEMMA Pair ==
  ASSUME NEW op, NEW arg, NEW op2, NEW arg2
  PROVE  /\ Do(op, arg) \o Do(op2, arg2) # <<>>
         /\ Head(Do(op, arg) \o Do(op2, arg2)) = Single(op, arg)
         /\ Tail(Do(op, arg) \o Do(op2, arg2)) = Do(op2, arg2)
         /\ Last(Do(op, arg) \o Do(op2, arg2)) = Single(op2, arg2)
<1> DEFINE S == {Single(op, arg), Single(op2, arg2)}
           a == Do(op, arg)
           b == Do(op2, arg2)
           s == a \o b
<1>1. /\ a \in Seq(S) /\ Len(a) = 1 /\ a[1] = Single(op, arg)
      /\ b \in Seq(S) /\ Len(b) = 1 /\ b[1] = Single(op2, arg2)
  BY DoFacts, DoIsSeq
<1> HIDE DEF S, a, b
<1>2. /\ s \in Seq(S) /\ Len(s) = Len(a) + Len(b)
      /\ \A i \in 1..Len(a) : s[i] = a[i]
      /\ \A i \in 1..Len(b) : s[Len(a) + i] = b[i]
  BY <1>1, Join
<1> HIDE DEF s
<1>3. Len(s) = 2 /\ s[1] = Single(op, arg) /\ s[1 + 1] = Single(op2, arg2)
  BY <1>1, <1>2
<1>4. s # <<>>
  BY <1>2, <1>3, EmptySeq
<1>5. /\ Head(s) = s[1] /\ Tail(s) \in Seq(S) /\ Len(Tail(s)) = Len(s) - 1
      /\ \A i \in 1..Len(Tail(s)) : Tail(s)[i] = s[i + 1]
  BY <1>2, <1>4, HeadTailProperties
<1>6. Len(Tail(s)) = 1 /\ Tail(s)[1] = s[1 + 1]
  BY <1>3, <1>5
<1> DEFINE u == Tail(s)
<1>7. u = b
  <2>1. u \in Seq(S) /\ b \in Seq(S) /\ Len(u) = Len(b) /\ \A i \in 1..Len(u) : u[i] = b[i]
    <3>1. Len(u) = 1 /\ Len(b) = 1 /\ u[1] = b[1]
      BY <1>1, <1>3, <1>6
    <3>2. \A i \in 1..1 : u[i] = b[i]
      BY <3>1
    <3>3. u \in Seq(S)
      BY <1>5
    <3> QED BY <1>1, <3>1, <3>2, <3>3
  <2> HIDE DEF u
  <2> QED BY <2>1, SeqEqual
<1>8. Last(s) = s[2]
  BY <1>3 DEF Last
<1> QED BY <1>3, <1>4, <1>5, <1>7, <1>8 DEF s, a, b

LEMMA ClearSteps ==
  /\ task_flashlog_clear \in Seq(Steps) /\ Len(task_flashlog_clear) = End
  /\ \A k \in 1..End : task_flashlog_clear[k] = ClearStep(k)
<1> DEFINE n == MaxRecords
           a == Do("unready", 0)
           b == Do("query", 0)
           c == Write("erase", 1, Erased)
           d == VerifyErased
           e == Do("zero", 0)
           f == Do("ready", 0)
<1>1. n \in Nat /\ n >= 1 /\ End = n + 5
  BY EndFacts
<1>2. /\ a \in Seq(Steps) /\ Len(a) = 1 /\ a[1] = Single("unready", 0)
      /\ b \in Seq(Steps) /\ Len(b) = 1 /\ b[1] = Single("query", 0)
      /\ e \in Seq(Steps) /\ Len(e) = 1 /\ e[1] = Single("zero", 0)
      /\ f \in Seq(Steps) /\ Len(f) = 1 /\ f[1] = Single("ready", 0)
  <2>1. /\ Single("unready", 0) \in Steps /\ Single("query", 0) \in Steps
        /\ Single("zero", 0) \in Steps /\ Single("ready", 0) \in Steps
    BY DEF Single, Steps, reads
  <2> QED BY <2>1, DoFacts, DoIsSeq
<1>3. /\ c \in Seq(Steps) /\ Len(c) = 1 /\ c[1] = Single("erase", [slot |-> 1, rec |-> Erased])
  <2>1. Single("erase", [slot |-> 1, rec |-> Erased]) \in Steps
    BY Contained DEF Single, Steps, writes, Targets
  <2>2. c = Do("erase", [slot |-> 1, rec |-> Erased])
    BY DEF Write
  <2> QED BY <2>1, <2>2, DoFacts, DoIsSeq
<1>4. d \in Seq(Steps) /\ Len(d) = n /\ \A i \in 1..n : d[i] = Single("verify", i)
  <2>1. \A i \in 1..n : d[i] = Single("verify", i) /\ d[i] \in Steps
    BY <1>1 DEF VerifyErased, Slot, Single, Steps, reads
  <2>2. d = [i \in 1..n |-> d[i]]
    BY DEF VerifyErased, Slot
  <2> HIDE DEF d, n
  <2> QED BY <1>1, <2>1, <2>2
<1>5. task_flashlog_clear = ((((a \o b) \o c) \o d) \o e) \o f
  BY DEF task_flashlog_clear
<1> HIDE DEF a, b, c, d, e, f, n
<1> DEFINE s2 == a \o b
<1>6. s2 \in Seq(Steps) /\ Len(s2) = 2 /\ s2[1] = a[1] /\ s2[2] = b[1]
  <2>1. /\ s2 \in Seq(Steps) /\ Len(s2) = Len(a) + Len(b)
        /\ \A i \in 1..Len(a) : s2[i] = a[i]
        /\ \A i \in 1..Len(b) : s2[Len(a) + i] = b[i]
    BY <1>2, JoinSteps
  <2> HIDE DEF s2
  <2> QED BY <1>2, <2>1
<1> HIDE DEF s2
<1> DEFINE s3 == s2 \o c
<1>7. s3 \in Seq(Steps) /\ Len(s3) = 3 /\ s3[1] = a[1] /\ s3[2] = b[1] /\ s3[3] = c[1]
  <2>1. /\ s3 \in Seq(Steps) /\ Len(s3) = Len(s2) + Len(c)
        /\ \A i \in 1..Len(s2) : s3[i] = s2[i]
        /\ \A i \in 1..Len(c) : s3[Len(s2) + i] = c[i]
    BY <1>3, <1>6, JoinSteps
  <2> HIDE DEF s3
  <2> QED BY <1>3, <1>6, <2>1
<1> HIDE DEF s3
<1> DEFINE s4 == s3 \o d
<1>8. /\ s4 \in Seq(Steps) /\ Len(s4) = n + 3
      /\ s4[1] = a[1] /\ s4[2] = b[1] /\ s4[3] = c[1] /\ \A i \in 1..n : s4[3 + i] = d[i]
  <2>1. /\ s4 \in Seq(Steps) /\ Len(s4) = Len(s3) + Len(d)
        /\ \A i \in 1..Len(s3) : s4[i] = s3[i]
        /\ \A i \in 1..Len(d) : s4[Len(s3) + i] = d[i]
    BY <1>4, <1>7, JoinSteps
  <2> HIDE DEF s4
  <2> QED BY <1>1, <1>4, <1>7, <2>1
<1> HIDE DEF s4
<1> DEFINE s5 == s4 \o e
<1>9. /\ s5 \in Seq(Steps) /\ Len(s5) = n + 4
      /\ \A i \in 1..n + 3 : s5[i] = s4[i]
      /\ s5[n + 4] = e[1]
  <2>1. /\ s5 \in Seq(Steps) /\ Len(s5) = Len(s4) + Len(e)
        /\ \A i \in 1..Len(s4) : s5[i] = s4[i]
        /\ \A i \in 1..Len(e) : s5[Len(s4) + i] = e[i]
    BY <1>2, <1>8, JoinSteps
  <2> HIDE DEF s5
  <2> QED BY <1>1, <1>2, <1>8, <2>1
<1> HIDE DEF s5
<1> DEFINE s6 == s5 \o f
<1>10. /\ s6 \in Seq(Steps) /\ Len(s6) = n + 5
       /\ \A i \in 1..n + 4 : s6[i] = s5[i]
       /\ s6[n + 5] = f[1]
  <2>1. /\ s6 \in Seq(Steps) /\ Len(s6) = Len(s5) + Len(f)
        /\ \A i \in 1..Len(s5) : s6[i] = s5[i]
        /\ \A i \in 1..Len(f) : s6[Len(s5) + i] = f[i]
    BY <1>2, <1>9, JoinSteps
  <2> HIDE DEF s6
  <2> QED BY <1>1, <1>2, <1>9, <2>1
<1> HIDE DEF s6
<1>11. task_flashlog_clear = s6
  BY <1>5 DEF s2, s3, s4, s5, s6
<1>12. ASSUME NEW k \in 1..End PROVE s6[k] = ClearStep(k)
  <2>1. CASE k <= 3
    <3>1. k \in 1..n + 4 /\ k \in 1..n + 3
      BY <1>1, <2>1
    <3>2. s6[k] = s4[k]
      BY <1>9, <1>10, <3>1
    <3>3. k = 1 \/ k = 2 \/ k = 3
      BY <2>1
    <3> QED BY <1>2, <1>3, <1>8, <3>2, <3>3 DEF ClearStep
  <2>2. CASE k > 3 /\ k <= End - 2
    <3>1. k - 3 \in 1..n /\ 3 + (k - 3) = k /\ k \in 1..n + 4 /\ k \in 1..n + 3
      BY <1>1, <2>2
    <3>2. s4[k] = d[k - 3]
      BY <1>8, <3>1
    <3>3. s6[k] = s4[k]
      BY <1>9, <1>10, <3>1
    <3>4. ClearStep(k) = Single("verify", k - 3)
      BY <1>1, <2>2 DEF ClearStep
    <3> QED BY <1>4, <3>1, <3>2, <3>3, <3>4
  <2>3. CASE k > End - 2
    <3>1. k = n + 4 \/ k = n + 5
      BY <1>1, <2>3
    <3>2. s6[n + 4] = e[1] /\ s6[n + 5] = f[1]
      BY <1>1, <1>9, <1>10
    <3>3. /\ k = n + 4 => ClearStep(k) = e[1]
          /\ k = n + 5 => ClearStep(k) = f[1]
      BY <1>1, <1>2 DEF ClearStep
    <3> QED BY <3>1, <3>2, <3>3
  <2>4. k <= 3 \/ (k > 3 /\ k <= End - 2) \/ k > End - 2
    BY <1>1
  <2> QED BY <2>1, <2>2, <2>3, <2>4
<1> QED BY <1>1, <1>10, <1>11, <1>12

(* Where in the clearing the steps of each kind are. *)
LEMMA ClearShape ==
  ASSUME NEW k \in 1..End
  PROVE  /\ ClearStep(k).op = "unready" <=> k = 1
         /\ ClearStep(k).op = "query" <=> k = 2
         /\ ClearStep(k).op = "erase" <=> k = 3
         /\ ClearStep(k).op = "verify" <=> k \in 4..End - 2
         /\ ClearStep(k).op = "zero" <=> k = End - 1
         /\ ClearStep(k).op = "ready" <=> k = End
         /\ k = 3 => ClearStep(k).arg = [slot |-> 1, rec |-> Erased]
         /\ k \in 4..End - 2 => ClearStep(k).arg = k - 3
         /\ ClearStep(k) \in Steps
         /\ ClearStep(k).op \notin {"program", "read", "wait_ready", "dly", "ask", "send", "dump"}
<1>1. End \in Nat /\ End >= 6
  BY EndFacts
<1>2. CASE k \in 4..End - 2
  <2>1. ClearStep(k) = Single("verify", k - 3) /\ k - 3 \in Nat
    BY <1>1, <1>2 DEF ClearStep
  <2> QED BY <1>1, <1>2, <2>1 DEF Single, Steps, reads
<1>3. CASE k \in {1, 2, 3, End - 1, End}
  <2>1. [slot |-> 1, rec |-> Erased] \in Targets
    BY Contained DEF Targets
  <2> QED BY <1>1, <1>3, <2>1 DEF ClearStep, Single, Steps, reads, writes
<1>4. k \in 4..End - 2 \/ k \in {1, 2, 3, End - 1, End}
  BY <1>1
<1> QED BY <1>2, <1>3, <1>4

LEMMA ClearRest == Rest(task_flashlog_clear, 1)
BY EndFacts, ClearSteps DEF Rest

(* What is left begins with its first step, and after it the rest is left. *)
LEMMA RestFacts ==
  ASSUME NEW s, NEW k, Rest(s, k)
  PROVE  /\ k \in 1..End /\ s \in Seq(Steps) /\ s # <<>> /\ Head(s) = ClearStep(k)
         /\ Last(s).op = "ready"
         /\ k < End => Rest(Tail(s), k + 1)
         /\ k = End => Tail(s) = <<>>
         /\ (\A i \in DOMAIN s : s[i].op # "erase") <=> k >= 4
<1>1. End \in Nat /\ End >= 6 /\ k \in Nat /\ s \in Seq(Steps) /\ Len(s) = End + 1 - k /\ k \in 1..End
  BY EndFacts DEF Rest
<1>2. s # <<>>
  BY <1>1, EmptySeq
<1>3. 1 \in 1..Len(s) /\ k - 1 + 1 = k /\ Len(s) \in 1..Len(s) /\ k - 1 + Len(s) = End /\ End \in 1..End
  BY <1>1
<1>4. /\ Head(s) = s[1] /\ Tail(s) \in Seq(Steps) /\ Len(Tail(s)) = Len(s) - 1
      /\ \A i \in 1..Len(s) - 1 : Tail(s)[i] = s[i + 1]
  BY <1>1, <1>2, HeadTailProperties
<1>5. Head(s) = ClearStep(k)
  BY <1>3, <1>4 DEF Rest
<1>6. Last(s).op = "ready"
  <2>1. s[Len(s)] = ClearStep(k - 1 + Len(s))
    BY <1>3 DEF Rest
  <2> QED BY <1>3, <2>1, ClearShape DEF Last
<1>7. ASSUME k < End PROVE Rest(Tail(s), k + 1)
  <2>1. ASSUME NEW i \in 1..Len(s) - 1 PROVE Tail(s)[i] = ClearStep((k + 1) - 1 + i)
    <3>1. i + 1 \in 1..Len(s) /\ k - 1 + (i + 1) = (k + 1) - 1 + i
      BY <1>1
    <3>2. s[i + 1] = ClearStep(k - 1 + (i + 1))
      BY <3>1 DEF Rest
    <3> QED BY <1>4, <3>1, <3>2
  <2>2. Len(Tail(s)) = End + 1 - (k + 1) /\ k + 1 \in 1..End
    BY <1>1, <1>4, <1>7
  <2> QED BY <1>4, <2>1, <2>2 DEF Rest
<1>8. ASSUME k = End PROVE Tail(s) = <<>>
  <2> DEFINE t == Tail(s)
  <2>1. t \in Seq(Steps) /\ Len(t) = 0
    BY <1>1, <1>4, <1>8
  <2> HIDE DEF t
  <2>2. t = <<>>
    BY <2>1, EmptySeq
  <2> QED BY <2>2 DEF t
<1>9. (\A i \in DOMAIN s : s[i].op # "erase") <=> k >= 4
  <2>1. DOMAIN s = 1..Len(s)
    BY <1>1, LenProperties
  <2>2. ASSUME k >= 4, NEW i \in 1..Len(s) PROVE s[i].op # "erase"
    <3>1. k - 1 + i \in 1..End /\ k - 1 + i # 3
      BY <1>1, <2>2
    <3>2. s[i] = ClearStep(k - 1 + i)
      BY DEF Rest
    <3> QED BY <3>1, <3>2, ClearShape
  <2>3. ASSUME k < 4 PROVE \E i \in 1..Len(s) : s[i].op = "erase"
    <3>1. 4 - k \in 1..Len(s) /\ k - 1 + (4 - k) = 3 /\ 3 \in 1..End
      BY <1>1, <2>3
    <3>2. s[4 - k] = ClearStep(k - 1 + (4 - k))
      BY <3>1 DEF Rest
    <3>3. s[4 - k].op = "erase"
      BY <3>1, <3>2, ClearShape
    <3> QED BY <3>1, <3>3
  <2> QED BY <1>1, <2>1, <2>2, <2>3
<1> QED BY <1>1, <1>2, <1>5, <1>6, <1>7, <1>8, <1>9

LEMMA RestUnique ==
  ASSUME NEW s, NEW k, NEW j, Rest(s, k), Rest(s, j)
  PROVE  k = j
BY EndFacts DEF Rest

(* What is left of another command. *)
LEMMA HarmlessFacts ==
  ASSUME NEW s \in Seq(Harmless), s # <<>>
  PROVE  /\ Head(s) \in Harmless /\ Tail(s) \in Seq(Harmless)
         /\ Last(s).op # "ready"
         /\ Head(s).op \notin {"verify", "unready", "zero", "ready", "ask", "send"}
         /\ Head(s).op \in writes => /\ Head(s).arg \in Targets /\ Head(s).arg.slot = 0
                                     /\ Head(s).op = "program" => Head(s).arg.rec.event # "erased"
<1>1. Head(s) \in Harmless /\ Tail(s) \in Seq(Harmless) /\ Len(s) \in Nat \ {0}
  BY HeadTailProperties, EmptySeq
<1>2. s[Len(s)] \in Harmless
  BY <1>1, ElementOfSeq
<1>3. \A d \in Harmless : /\ d.op \notin {"verify", "unready", "zero", "ready", "ask", "send"}
                          /\ d.op \in writes => /\ d.arg \in Targets /\ d.arg.slot = 0
                                                /\ d.op = "program" => d.arg.rec.event # "erased"
  BY DEF Harmless, writes
<1> QED BY <1>1, <1>2, <1>3 DEF Last

LEMMA NothingHarmless == <<>> \in Seq(Harmless)
BY EmptySeq

LEMMA NoRest ==
  ASSUME NEW s \in Seq(Harmless), NEW k
  PROVE  ~Rest(s, k)
BY RestFacts, HarmlessFacts

LEMMA ReadRecordsHarmless ==
  ASSUME NEW n \in Nat
  PROVE  ReadRecords(n) \in Seq(Harmless)
<1> DEFINE m == 2 * n
           Op(k) == IF k % 2 = 1 THEN "read" ELSE "dly"
           Of(k) == IF k % 2 = 1 THEN (k + 1) \div 2 ELSE 0
           s == ReadRecords(n)
<1>1. m \in Nat
  OBVIOUS
<1>2. s = [k \in 1..m |-> [op |-> Op(k), arg |-> Of(k)]]
  BY DEF ReadRecords
<1>3. ASSUME NEW k \in 1..m PROVE [op |-> Op(k), arg |-> Of(k)] \in Harmless
  <2>1. k \in Nat /\ Op(k) \in {"read", "dly"} /\ Of(k) \in Nat
    OBVIOUS
  <2> HIDE DEF Op, Of
  <2> QED BY <2>1 DEF Harmless, Steps, reads
<1> HIDE DEF m, Op, Of, s
<1>4. s = [k \in 1..m |-> s[k]] /\ \A k \in 1..m : s[k] \in Harmless
  BY <1>2, <1>3
<1>5. s \in Seq(Harmless)
  BY <1>1, <1>4
<1> QED BY <1>5 DEF s

LEMMA CommandScripts ==
  ASSUME NEW c \in DOMAIN command_table
  PROVE  \/ command_table[c] = task_flashlog_clear
         \/ command_table[c] = task_flashlog_notify("STOPPED")
         \/ command_table[c] \in Seq(Harmless)
<1>1. /\ Single("query", 0) \in Harmless /\ Single("wait_ready", 0) \in Harmless
      /\ Single("dump", 0) \in Harmless
      /\ Single("erase", [slot |-> 0, rec |-> Erased]) \in Harmless
      /\ Single("program", [slot |-> 0, rec |-> Garbage]) \in Harmless
  BY Contained DEF Single, Harmless, Steps, reads, writes, Targets, Events
<1> DEFINE q == Do("query", 0)
           w == Do("wait_ready", 0)
           u == Do("dump", 0)
           e == Write("erase", 0, Erased)
           p == Write("program", 0, Garbage)
           q2 == Queries(2)
           q3 == Queries(3)
<1>2. /\ q \in Seq(Harmless) /\ w \in Seq(Harmless) /\ u \in Seq(Harmless)
      /\ e \in Seq(Harmless) /\ p \in Seq(Harmless)
  BY <1>1, DoIsSeq DEF Write
<1>3. q2 \in Seq(Harmless) /\ q3 \in Seq(Harmless)
  <2>1. ASSUME NEW n \in Nat PROVE Queries(n) \in Seq(Harmless)
    <3> DEFINE s == Queries(n)
    <3>1. s = [i \in 1..n |-> Single("query", 0)]
      BY DEF Queries, Single
    <3> HIDE DEF s
    <3>2. s \in Seq(Harmless)
      BY <1>1, <3>1
    <3> QED BY <3>2 DEF s
  <2> QED BY <2>1
<1>4. /\ cmd_flashid = q /\ cmd_flashstatus = q /\ cmd_flashread = q2 /\ cmd_flashwen = w \o q3
      /\ cmd_flasherase = (q \o e) \o q /\ cmd_flashwrite = (q2 \o p) \o q
      /\ cmd_flashlog = u /\ cmd_flashlogclear = task_flashlog_clear
  BY DEF cmd_flashid, cmd_flashstatus, cmd_flashread, cmd_flashwen, cmd_flasherase, cmd_flashwrite,
         cmd_flashlog, cmd_flashlogclear, task_flashlog_dump
<1> HIDE DEF q, w, u, e, p, q2, q3
<1>5. /\ w \o q3 \in Seq(Harmless) /\ q \o e \in Seq(Harmless) /\ q2 \o p \in Seq(Harmless)
  BY <1>2, <1>3, Join
<1>6. (q \o e) \o q \in Seq(Harmless) /\ (q2 \o p) \o q \in Seq(Harmless)
  <2> DEFINE x == q \o e
             y == q2 \o p
  <2>1. x \in Seq(Harmless) /\ y \in Seq(Harmless)
    BY <1>5
  <2> HIDE DEF x, y
  <2>2. x \o q \in Seq(Harmless) /\ y \o q \in Seq(Harmless)
    BY <1>2, <2>1, Join
  <2> QED BY <2>2 DEF x, y
<1>7. DOMAIN command_table = {"flashid", "flashstatus", "flashwen", "flasherase", "flashwrite",
                              "flashread", "flashlog", "flashlogclear", "motion"}
  BY DEF command_table
<1>8. /\ command_table["flashid"] = cmd_flashid /\ command_table["flashstatus"] = cmd_flashstatus
      /\ command_table["flashwen"] = cmd_flashwen /\ command_table["flasherase"] = cmd_flasherase
      /\ command_table["flashwrite"] = cmd_flashwrite /\ command_table["flashread"] = cmd_flashread
      /\ command_table["flashlog"] = cmd_flashlog
      /\ command_table["flashlogclear"] = cmd_flashlogclear
      /\ command_table["motion"] = task_flashlog_notify("STOPPED")
  BY DEF command_table
<1> QED BY <1>2, <1>3, <1>4, <1>5, <1>6, <1>7, <1>8

(***************************************************************************)
(* The semaphore of the flash.                                             *)
(***************************************************************************)
Held       == [cnt |-> 0, wai |-> <<>>]
HeldFor(t) == [cnt |-> 0, wai |-> <<t>>]

Waits(t) == t \in ToSet(sem.wai)

LEMMA SemValues ==
  /\ FreeSem # Held /\ \A t : FreeSem # HeldFor(t) /\ Held # HeldFor(t)
  /\ \A t, u : HeldFor(t) = HeldFor(u) => t = u
  /\ \A t : tk_wai_sem(FreeSem, t) = Held /\ tk_wai_sem(Held, t) = HeldFor(t)
  /\ tk_sig_sem(Held) = FreeSem /\ \A t : tk_sig_sem(HeldFor(t)) = Held
  /\ ToSet(FreeSem.wai) = {} /\ ToSet(Held.wai) = {} /\ \A t : ToSet(HeldFor(t).wai) = {t}
<1>1. FreeSem # Held /\ \A t : FreeSem # HeldFor(t)
  BY DEF FreeSem, Held, HeldFor
<1>2. \A t : <<t>> # <<>> /\ <<t>>[1] = t /\ Tail(<<t>>) = <<>>
  OBVIOUS
<1>3. \A t : Held # HeldFor(t)
  BY <1>2 DEF Held, HeldFor
<1>4. \A t, u : HeldFor(t) = HeldFor(u) => t = u
  BY <1>2 DEF HeldFor
<1>5. \A t : tk_wai_sem(FreeSem, t) = Held
  BY DEF tk_wai_sem, FreeSem, Held
<1>6. \A t : tk_wai_sem(Held, t) = HeldFor(t)
  BY DEF tk_wai_sem, Held, HeldFor
<1>7. tk_sig_sem(Held) = FreeSem
  BY DEF tk_sig_sem, FreeSem, Held
<1>8. \A t : tk_sig_sem(HeldFor(t)) = Held
  BY <1>2 DEF tk_sig_sem, HeldFor, Held
<1>9. ToSet(FreeSem.wai) = {} /\ ToSet(Held.wai) = {}
  BY DEF ToSet, FreeSem, Held
<1>10. \A t : ToSet(HeldFor(t).wai) = {t}
  BY <1>2 DEF ToSet, HeldFor
<1> QED BY <1>1, <1>3, <1>4, <1>5, <1>6, <1>7, <1>8, <1>9, <1>10

(***************************************************************************)
(* The inductive invariant, first part: who may do what.                   *)
(***************************************************************************)
flashing == {"exec", "exec_dly", "poll", "poll_dly", "unlock"}
InFlash(t) == pc[t] \in flashing

Jobs == [cmd : {"none", "program", "erase"}, slot : Nat, rec : Contents]

Scans == log.at <= MaxRecords

Valid(i) == record_is_valid(chip.cell[i]) /\ chip.cell[i].seq = i

FlashTypes ==
  /\ pc = [t \in Task |-> pc[t]] /\ script = [t \in Task |-> script[t]]
  /\ got = [t \in User |-> got[t]] /\ got["flashlog"] \in Contents
  /\ \A t \in Task : pc[t] \in {"call", "dly"} \cup flashing
  /\ queue \in [msg : Seq(Events), wai : BOOLEAN]
  /\ log \in [ready : BOOLEAN, count : Nat, at : 0..MaxRecords + 1, retry : BOOLEAN,
              rec : {Erased} \cup Records]
  /\ chip \in [cell : [Slot -> Contents], busy : Jobs]
  /\ chip.busy.cmd = "none" <=> chip.busy = Idle
  /\ chip.busy.cmd = "program" => chip.busy.rec.event # "erased"
  /\ kept \in SUBSET Nat /\ overtaken \in BOOLEAN

(* The log is being notified of an event.                                  *)
Notifies(t) == \E e \in Events : script[t] \in {task_flashlog_notify(e), Do("send", e)}

(* The console is in the middle of a clearing, or does something harmless. *)
ConsoleScript ==
  \/ script["rx"] \in Seq(Harmless)
  \/ Notifies("rx")
  \/ \E k \in 1..End : Rest(script["rx"], k)

NotifierScript == pc["mpuirq"] = "call" /\ (script["mpuirq"] = <<>> \/ Notifies("mpuirq"))

(* The log task asks for the ID, reads a slot, or writes a record and      *)
(* reads it back.                                                          *)
Retry     == Do("dly", 0) \o Do("query", 0)
Append1(r) == Write("program", r.seq, r) \o Do("read", r.seq)

LogScript ==
  /\ Scans => log.count = 0
  /\ \/ log.at = 0 /\ log.rec = Erased /\ script["flashlog"] \in {Retry, Do("query", 0), <<>>}
     \/ log.at \in Slot /\ log.rec = Erased /\ script["flashlog"] \in {Do("read", log.at), <<>>}
     \/ ~Scans /\ log.rec = Erased /\ script["flashlog"] = <<>>
     \/ /\ ~Scans /\ log.rec \in Records
        /\ script["flashlog"] \in {Append1(log.rec), Do("read", log.rec.seq), <<>>}

(* Where a task stands fits what it does.                                  *)
Calls ==
  /\ \A t \in Task : InFlash(t) => Doing(t, reads \cup writes \cup {"wait_ready"})
  /\ \A t \in Task : pc[t] \in {"poll", "poll_dly"} => Doing(t, writes \cup {"wait_ready"})
  /\ \A t \in Task : pc[t] = "exec_dly" => Doing(t, writes)
  /\ \A t \in Task : pc[t] = "dly" => Doing(t, {"dly"})
  /\ queue.wai => /\ pc["flashlog"] = "call" /\ script["flashlog"] = <<>>
                  /\ ~Scans /\ log.rec = Erased /\ queue.msg = <<>>

SemTurn ==
  \/ sem = FreeSem /\ ~InFlash("flashlog") /\ ~InFlash("rx")
  \/ \E t, u \in User : /\ t # u /\ InFlash(t)
                        /\ \/ sem = Held /\ ~InFlash(u)
                           \/ sem = HeldFor(u) /\ pc[u] = "exec"

(* From the moment the scan has the ID, the flash is its own.              *)
ScanTurn ==
  /\ Scans
  /\ log.at # 0 \/ script["flashlog"] = <<>> \/ (InFlash("flashlog") /\ ~Waits("flashlog"))
  => ~InFlash("rx")

Scanned ==
  log.at \in Slot =>
    /\ \A j \in 1..log.at - 1 : Valid(j)
    /\ log.at # 1 => chip.busy = Idle

(* The slot that the log task is at.                                       *)
Place == IF log.rec = Erased THEN log.at ELSE log.rec.seq

HasRead ==
  \/ pc["flashlog"] = "unlock" /\ Doing("flashlog", {"read"})
  \/ pc["flashlog"] = "call" /\ script["flashlog"] = <<>>

ReadsCell ==
  Place \in Slot /\ HasRead =>
    \/ got["flashlog"] \in {Failed, Garbage}
    \/ chip.busy = Idle /\ got["flashlog"] = chip.cell[Place]

Discipline ==
  /\ FlashTypes /\ ConsoleScript /\ NotifierScript /\ LogScript /\ Calls
  /\ SemTurn /\ ScanTurn /\ Scanned /\ ReadsCell

LEMMA LogScripts ==
  /\ Retry # <<>> /\ Head(Retry) = Single("dly", 0) /\ Tail(Retry) = Do("query", 0)
  /\ \A r \in Records : /\ Append1(r) # <<>> /\ Tail(Append1(r)) = Do("read", r.seq)
                        /\ Head(Append1(r)) = Single("program", [slot |-> r.seq, rec |-> r])
BY Pair DEF Retry, Append1, Write

(* What a task that notifies does next, and what is left after it.         *)
LEMMA NotifyDoes ==
  ASSUME NEW t, Notifies(t)
  PROVE  /\ script[t] # <<>> /\ Last(script[t]).op = "send"
         /\ Head(script[t]).op \in {"ask", "send"}
         /\ \E e \in Events :
              \/ /\ Head(script[t]) = Single("ask", e)
                 /\ Tail(script[t]) = Do("send", e) /\ Tail(Tail(script[t])) = <<>>
              \/ Head(script[t]) = Single("send", e) /\ Tail(script[t]) = <<>>
<1>1. PICK e \in Events : script[t] \in {task_flashlog_notify(e), Do("send", e)}
  BY DEF Notifies
<1>2. Single("ask", e).op = "ask" /\ Single("send", e).op = "send"
  BY DEF Single
<1>3. CASE script[t] = task_flashlog_notify(e)
  <2>1. /\ task_flashlog_notify(e) # <<>> /\ Last(task_flashlog_notify(e)) = Single("send", e)
        /\ Head(task_flashlog_notify(e)) = Single("ask", e)
        /\ Tail(task_flashlog_notify(e)) = Do("send", e)
    BY Pair DEF task_flashlog_notify
  <2>2. Tail(Do("send", e)) = <<>>
    BY DoFacts
  <2> QED BY <1>2, <1>3, <2>1, <2>2
<1>4. CASE script[t] = Do("send", e)
  BY <1>2, <1>4, DoFacts
<1> QED BY <1>1, <1>3, <1>4

LEMMA NotRecords == Erased \notin Records /\ Failed \notin Records /\ Garbage \notin Records
BY Contained DEF Events

LEMMA UserTask == /\ Task = {"flashlog", "rx", "mpuirq"} /\ User = {"flashlog", "rx"}
                  /\ "flashlog" \in Task /\ "rx" \in Task /\ "mpuirq" \in Task
                  /\ User \subseteq Task
BY DEF Task, User

(* What the log task does, by the step it is at.                           *)
LEMMA LogDoes ==
  ASSUME Discipline, script["flashlog"] # <<>>
  PROVE  \/ /\ log.at = 0 /\ log.rec = Erased /\ Scans /\ Place = 0
            /\ script["flashlog"] = Retry /\ Head(script["flashlog"]) = Single("dly", 0)
            /\ Tail(script["flashlog"]) = Do("query", 0)
         \/ /\ log.at = 0 /\ log.rec = Erased /\ Scans /\ Place = 0
            /\ script["flashlog"] = Do("query", 0)
            /\ Head(script["flashlog"]) = Single("query", 0)
            /\ Tail(script["flashlog"]) = <<>>
         \/ /\ log.at \in Slot /\ log.rec = Erased /\ Scans /\ Place = log.at
            /\ script["flashlog"] = Do("read", log.at)
            /\ Head(script["flashlog"]) = Single("read", log.at)
            /\ Tail(script["flashlog"]) = <<>>
         \/ /\ ~Scans /\ log.rec \in Records /\ Place = log.rec.seq /\ Place \in Slot
            /\ script["flashlog"] = Append1(log.rec)
            /\ Head(script["flashlog"]) = Single("program", [slot |-> log.rec.seq, rec |-> log.rec])
            /\ Tail(script["flashlog"]) = Do("read", log.rec.seq)
         \/ /\ ~Scans /\ log.rec \in Records /\ Place = log.rec.seq /\ Place \in Slot
            /\ script["flashlog"] = Do("read", log.rec.seq)
            /\ Head(script["flashlog"]) = Single("read", log.rec.seq)
            /\ Tail(script["flashlog"]) = <<>>
<1>1. MaxRecords \in Nat /\ MaxRecords >= 1
  BY EndFacts
<1>2. CASE log.at = 0 /\ log.rec = Erased /\ script["flashlog"] \in {Retry, Do("query", 0)}
  BY <1>1, <1>2, LogScripts, DoFacts DEF Scans, Place
<1>3. CASE log.at \in Slot /\ log.rec = Erased /\ script["flashlog"] = Do("read", log.at)
  BY <1>1, <1>3, LogScripts, DoFacts DEF Scans, Place, Slot
<1>4. CASE /\ ~Scans /\ log.rec \in Records
           /\ script["flashlog"] \in {Append1(log.rec), Do("read", log.rec.seq)}
  <2>1. log.rec # Erased /\ log.rec.seq \in Slot
    BY <1>4, NotRecords, Contained
  <2>2. CASE script["flashlog"] = Append1(log.rec)
    BY <1>4, <2>1, <2>2, LogScripts DEF Place
  <2>3. CASE script["flashlog"] = Do("read", log.rec.seq)
    BY <1>4, <2>1, <2>3, DoFacts DEF Place
  <2> QED BY <1>4, <2>2, <2>3
<1> QED BY <1>2, <1>3, <1>4 DEF Discipline, LogScript

(***************************************************************************)
(* Who runs.                                                               *)
(***************************************************************************)
LEMMA Running ==
  ASSUME Discipline, NEW t \in Task, NEW from, NEW to, Step(t, from, to)
  PROVE  /\ pc[t] = from /\ pc' = [pc EXCEPT ![t] = to] /\ pc'[t] = to
         /\ \A u \in Task : u # t => pc'[u] = pc[u]
         /\ ~Waits(t) /\ from \notin Delayed
         /\ t # "flashlog" => script[t] # <<>> /\ "flashlog" \notin Ready
         /\ t = "flashlog" => ~queue.wai
         /\ t = "mpuirq" => "rx" \notin Ready
<1>1. pc[t] = from /\ pc' = [pc EXCEPT ![t] = to] /\ t \in Ready
  BY DEF Step, Runs
<1>2. pc'[t] = to /\ \A u \in Task : u # t => pc'[u] = pc[u]
  BY <1>1 DEF Discipline, FlashTypes
<1>3. /\ ~Waits(t) /\ from \notin Delayed
      /\ t # "flashlog" => script[t] # <<>>
      /\ t = "flashlog" => ~queue.wai
  BY <1>1, UserTask DEF Ready, Waits
<1>4. \A u \in Ready : Priority[t] <= Priority[u]
  BY DEF Step, Runs
<1>5. /\ Priority["flashlog"] \in Nat /\ Priority["rx"] \in Nat /\ Priority["mpuirq"] \in Nat
      /\ Priority["flashlog"] < Priority["rx"] /\ Priority["rx"] < Priority["mpuirq"]
  BY FlashLogAssumption, UserTask
<1>6. t # "flashlog" => "flashlog" \notin Ready
  BY <1>4, <1>5, UserTask
<1>7. t = "mpuirq" => "rx" \notin Ready
  BY <1>4, <1>5
<1> QED BY <1>1, <1>2, <1>3, <1>6, <1>7

LEMMA NotReadyFacts ==
  ASSUME Discipline
  PROVE  /\ "flashlog" \in Ready <=> /\ ~Waits("flashlog") /\ pc["flashlog"] \notin Delayed
                                     /\ ~queue.wai
         /\ "rx" \in Ready <=> /\ ~Waits("rx") /\ pc["rx"] \notin Delayed
                               /\ script["rx"] # <<>>
BY UserTask DEF Ready, Waits

LEMMA WaitsFacts ==
  /\ sem \in {FreeSem, Held} => \A t : ~Waits(t)
  /\ \A u : sem = HeldFor(u) => \A t : Waits(t) <=> t = u
<1>1. /\ ToSet(FreeSem.wai) = {} /\ ToSet(Held.wai) = {}
      /\ \A t : ToSet(HeldFor(t).wai) = {t}
  BY SemValues
<1>2. sem \in {FreeSem, Held} => ToSet(sem.wai) = {}
  BY <1>1
<1>3. ASSUME NEW u, sem = HeldFor(u)
      PROVE  \A t : Waits(t) <=> t = u
  <2>1. ToSet(sem.wai) = {u}
    BY <1>1, <1>3
  <2> QED BY <2>1 DEF Waits
<1> QED BY <1>2, <1>3 DEF Waits

LEMMA Waiting ==
  ASSUME Discipline, NEW t \in User, NEW u \in User, t # u, Waits(u)
  PROVE  sem = HeldFor(u) /\ InFlash(t) /\ pc[u] = "exec" /\ InFlash(u) /\ ~Waits(t)
<1>1. \/ sem = FreeSem
      \/ \E x, y \in User : /\ x # y /\ InFlash(x)
                            /\ \/ sem = Held
                               \/ sem = HeldFor(y) /\ pc[y] = "exec"
  BY DEF Discipline, SemTurn
<1>2. sem # FreeSem /\ sem # Held
  BY WaitsFacts
<1>3. PICK x, y \in User : x # y /\ InFlash(x) /\ sem = HeldFor(y) /\ pc[y] = "exec"
  BY <1>1, <1>2
<1>4. y = u /\ x = t
  BY <1>3, SemValues, WaitsFacts, UserTask
<1>5. ~Waits(t)
  BY <1>3, <1>4, SemValues, WaitsFacts
<1> QED BY <1>3, <1>4, <1>5 DEF InFlash, flashing

(* The user that is in the flash and does not wait holds the semaphore.    *)
LEMMA Holding ==
  ASSUME Discipline, NEW t \in User, NEW u \in User, t # u, InFlash(t), ~Waits(t)
  PROVE  \/ sem = Held /\ ~InFlash(u) /\ ~Waits(u)
         \/ sem = HeldFor(u) /\ pc[u] = "exec" /\ Waits(u)
<1>1. PICK x, y \in User : /\ x # y /\ InFlash(x)
                           /\ \/ sem = Held /\ ~InFlash(y)
                              \/ sem = HeldFor(y) /\ pc[y] = "exec"
  BY UserTask DEF Discipline, SemTurn
<1>2. x = t /\ y = u
  BY <1>1, SemValues, WaitsFacts, UserTask
<1> QED BY <1>1, <1>2, SemValues, WaitsFacts

LEMMA NotHolding ==
  ASSUME Discipline, NEW t \in User, NEW u \in User, t # u, ~InFlash(t)
  PROVE  \/ sem = FreeSem /\ ~InFlash(u) /\ ~Waits(u)
         \/ sem = Held /\ InFlash(u) /\ ~Waits(u)
<1>1. \/ sem = FreeSem /\ ~InFlash("flashlog") /\ ~InFlash("rx")
      \/ \E x, y \in User : /\ x # y /\ InFlash(x)
                            /\ \/ sem = Held /\ ~InFlash(y)
                               \/ sem = HeldFor(y) /\ pc[y] = "exec"
  BY DEF Discipline, SemTurn
<1>2. CASE sem = FreeSem /\ ~InFlash("flashlog") /\ ~InFlash("rx")
  BY <1>2, SemValues, WaitsFacts, UserTask
<1>3. CASE \E x, y \in User : /\ x # y /\ InFlash(x)
                            /\ \/ sem = Held /\ ~InFlash(y)
                               \/ sem = HeldFor(y) /\ pc[y] = "exec"
  <2>1. PICK x, y \in User : /\ x # y /\ InFlash(x)
                            /\ \/ sem = Held /\ ~InFlash(y)
                               \/ sem = HeldFor(y) /\ pc[y] = "exec"
    BY <1>3
  <2>2. x = u /\ y = t /\ sem = Held
    BY <2>1, UserTask DEF InFlash, flashing
  <2> QED BY <2>1, <2>2, SemValues, WaitsFacts
<1> QED BY <1>1, <1>2, <1>3

(* While another task runs, the log task waits: for its next attempt, for  *)
(* the console to leave the flash, for the flash, or for a message.        *)
LEMMA LogAsleep ==
  ASSUME Discipline, "flashlog" \notin Ready
  PROVE  \/ /\ pc["flashlog"] = "dly" /\ Scans /\ log.at = 0 /\ script["flashlog"] = Retry
            /\ ~Waits("flashlog") /\ ~queue.wai
         \/ /\ pc["flashlog"] = "exec" /\ Waits("flashlog") /\ InFlash("rx")
            /\ sem = HeldFor("flashlog") /\ ~queue.wai /\ (Scans => log.at = 0)
            /\ script["flashlog"] # <<>>
         \/ /\ pc["flashlog"] \in {"exec_dly", "poll_dly"} /\ ~Scans /\ log.rec \in Records
            /\ script["flashlog"] = Append1(log.rec) /\ ~Waits("flashlog") /\ ~queue.wai
         \/ /\ queue.wai /\ pc["flashlog"] = "call" /\ script["flashlog"] = <<>>
            /\ ~Scans /\ log.rec = Erased /\ queue.msg = <<>> /\ ~Waits("flashlog")
<1>1. Waits("flashlog") \/ pc["flashlog"] \in Delayed \/ queue.wai
  BY NotReadyFacts
<1>2. queue.wai => /\ pc["flashlog"] = "call" /\ script["flashlog"] = <<>>
                   /\ ~Scans /\ log.rec = Erased /\ queue.msg = <<>>
  BY DEF Discipline, Calls
<1>3. CASE Waits("flashlog")
  <2>1. sem = HeldFor("flashlog") /\ InFlash("rx") /\ pc["flashlog"] = "exec" /\ InFlash("flashlog")
    BY <1>3, Waiting, UserTask
  <2>2. script["flashlog"] # <<>>
    BY <2>1, UserTask DEF Discipline, Calls, Doing
  <2>3. Scans => log.at = 0
    BY <2>1 DEF Discipline, ScanTurn
  <2> QED BY <1>2, <1>3, <2>1, <2>2, <2>3
<1>4. CASE ~Waits("flashlog") /\ pc["flashlog"] \in Delayed
  <2>1. script["flashlog"] # <<>> /\ ~queue.wai
    BY <1>2, <1>4, UserTask DEF Discipline, Calls, Delayed, Doing, InFlash, flashing
  <2>2. /\ pc["flashlog"] = "dly" => Head(script["flashlog"]).op = "dly"
        /\ pc["flashlog"] \in {"exec_dly", "poll_dly"} =>
             Head(script["flashlog"]).op \in writes \cup {"wait_ready"}
    BY UserTask DEF Discipline, Calls, Doing
  <2>3. /\ Single("dly", 0).op = "dly" /\ Single("query", 0).op = "query"
        /\ \A n : Single("read", n).op = "read" /\ Single("program", n).op = "program"
    BY DEF Single
  <2>4. CASE pc["flashlog"] = "dly"
    BY <1>4, <2>1, <2>2, <2>3, <2>4, LogDoes
  <2>5. CASE pc["flashlog"] \in {"exec_dly", "poll_dly"}
    BY <1>4, <2>1, <2>2, <2>3, <2>5, LogDoes DEF writes
  <2> QED BY <1>4, <2>4, <2>5 DEF Delayed
<1>5. CASE ~Waits("flashlog") /\ queue.wai
  BY <1>2, <1>5
<1> QED BY <1>1, <1>3, <1>4, <1>5

(***************************************************************************)
(* What every step leaves alone.                                           *)
(***************************************************************************)
LEMMA ReadNothing ==
  ASSUME Discipline, "flashlog" \notin Ready
  PROVE  ~(Place \in Slot /\ HasRead)
<1>1. ~Scans => log.at \notin Slot
  BY EndFacts DEF Scans, Slot, Discipline, FlashTypes
<1> QED BY <1>1, LogAsleep, LogScripts DEF HasRead, Place

(* A step of a call in the flash, between its lock and its unlock.         *)
LEMMA FlashStep ==
  ASSUME Discipline, NEW t \in User, NEW from \in flashing, NEW to \in flashing, Step(t, from, to),
         UNCHANGED <<script, sem, logVars>>,
         got' = [u \in User |-> got'[u]], got'["flashlog"] \in Contents,
         t = "rx" => got'["flashlog"] = got["flashlog"],
         to \in {"poll", "poll_dly"} => Doing(t, writes \cup {"wait_ready"}),
         to = "exec_dly" => Doing(t, writes),
         t = "flashlog" /\ to = "unlock" /\ Doing(t, {"read"}) =>
           \/ got'["flashlog"] \in {Failed, Garbage}
           \/ chip.busy = Idle /\ got'["flashlog"] = chip.cell[Place],
         chip' = chip \/ Doing(t, writes),
         chip'.cell = chip.cell,
         chip' \in [cell : [Slot -> Contents], busy : Jobs],
         chip'.busy.cmd = "none" <=> chip'.busy = Idle,
         chip'.busy.cmd = "program" => chip'.busy.rec.event # "erased"
  PROVE  Discipline'
<1>1. /\ pc[t] = from /\ pc' = [pc EXCEPT ![t] = to] /\ pc'[t] = to
      /\ \A u \in Task : u # t => pc'[u] = pc[u]
      /\ ~Waits(t) /\ InFlash(t) /\ InFlash(t)'
      /\ t # "flashlog" => script[t] # <<>> /\ "flashlog" \notin Ready
  BY Running, UserTask DEF InFlash
<1>2. script' = script /\ sem' = sem /\ queue' = queue /\ log' = log /\ kept' = kept
      /\ overtaken' = overtaken
  BY DEF logVars
<1>3. FlashTypes'
  BY <1>1, <1>2 DEF Discipline, FlashTypes
<1>4. ConsoleScript' /\ LogScript' /\ NotifierScript'
  BY <1>1, <1>2, UserTask DEF Discipline, ConsoleScript, LogScript, NotifierScript, Notifies, Scans
<1>5. \A u \in Task : InFlash(u)' <=> InFlash(u)
  BY <1>1 DEF InFlash
<1>6. \A u, ops : Doing(u, ops)' <=> Doing(u, ops)
  BY <1>2 DEF Doing
<1>7. Calls'
  <2>1. ~queue.wai \/ t # "flashlog"
    BY <1>1 DEF Discipline, Calls, InFlash, flashing
  <2>2. \A u \in Task : InFlash(u)' => Doing(u, reads \cup writes \cup {"wait_ready"})'
    BY <1>5, <1>6 DEF Discipline, Calls
  <2>3. ASSUME NEW u \in Task
        PROVE  /\ pc'[u] \in {"poll", "poll_dly"} => Doing(u, writes \cup {"wait_ready"})'
               /\ pc'[u] = "exec_dly" => Doing(u, writes)'
               /\ pc'[u] = "dly" => Doing(u, {"dly"})'
    BY <1>1, <1>6 DEF Discipline, Calls, flashing
  <2>4. queue'.wai => /\ pc'["flashlog"] = "call" /\ script'["flashlog"] = <<>>
                      /\ ~Scans' /\ log'.rec = Erased /\ queue'.msg = <<>>
    BY <1>1, <1>2, <2>1, UserTask DEF Discipline, Calls, Scans
  <2> QED BY <2>2, <2>3, <2>4 DEF Calls
<1>8. \A u : Waits(u)' <=> Waits(u)
  BY <1>2 DEF Waits
<1>9. SemTurn'
  <2>1. PICK u \in User : u # t
    BY UserTask
  <2>2. \/ sem = Held /\ ~InFlash(u)
        \/ sem = HeldFor(u) /\ pc[u] = "exec"
    BY <1>1, <2>1, Holding
  <2> QED BY <1>1, <1>2, <1>5, <2>1, <2>2, UserTask DEF SemTurn
<1>10. ScanTurn'
  BY <1>2, <1>5, <1>8, UserTask DEF Discipline, ScanTurn, Scans
<1>11. Scanned'
  <2>1. CASE chip' = chip
    BY <1>2, <2>1 DEF Discipline, Scanned, Valid
  <2>2. CASE Doing(t, writes)
    <3>1. CASE t = "rx"
      <4>1. ~(Scans /\ log.at # 0)
        BY <1>1, <3>1 DEF Discipline, ScanTurn
      <4>2. log.at \in Slot => Scans /\ log.at # 0
        BY EndFacts DEF Slot, Scans
      <4> QED BY <1>2, <4>1, <4>2 DEF Scanned
    <3>2. CASE t = "flashlog"
      <4>1. ~Scans
        BY <2>2, <3>2, LogDoes DEF Doing, writes, Single
      <4>2. log.at \notin Slot
        BY <4>1, EndFacts DEF Slot, Scans, Discipline, FlashTypes
      <4> QED BY <1>2, <4>2 DEF Scanned
    <3> QED BY <3>1, <3>2, UserTask
  <2> QED BY <2>1, <2>2
<1>12. ReadsCell'
  <2>1. Place' = Place
    BY <1>2 DEF Place
  <2>2. CASE t = "rx"
    <3>1. ~(Place \in Slot /\ HasRead)
      BY <1>1, <2>2, ReadNothing
    <3>2. HasRead' <=> HasRead
      BY <1>1, <1>2, <1>6, <2>2, UserTask DEF HasRead
    <3> QED BY <2>1, <3>1, <3>2 DEF ReadsCell
  <2>3. CASE t = "flashlog"
    <3>1. HasRead' => to = "unlock" /\ Doing(t, {"read"})
      BY <1>1, <1>6, <2>3 DEF HasRead, flashing
    <3>2. Doing(t, {"read"}) => chip' = chip
      BY DEF Doing, writes
    <3> QED BY <2>1, <2>3, <3>1, <3>2 DEF ReadsCell
  <2> QED BY <2>2, <2>3, UserTask
<1> QED BY <1>3, <1>4, <1>7, <1>9, <1>10, <1>11, <1>12 DEF Discipline

LEMMA LockPreserves ==
  ASSUME Discipline, NEW t \in User, w25qxx_lock(t), UNCHANGED logVars
  PROVE  Discipline'
<1> DEFINE ops == reads \cup writes \cup {"wait_ready"}
<1>1. /\ Step(t, "call", "exec") /\ sem' = tk_wai_sem(sem, t) /\ script' = script
      /\ got' = got /\ chip' = chip /\ Doing(t, ops)
  BY DEF w25qxx_lock
<1>2. queue' = queue /\ log' = log /\ kept' = kept /\ overtaken' = overtaken
  BY DEF logVars
<1>3. /\ pc[t] = "call" /\ pc' = [pc EXCEPT ![t] = "exec"] /\ pc'[t] = "exec"
      /\ \A u \in Task : u # t => pc'[u] = pc[u]
      /\ ~Waits(t) /\ ~InFlash(t) /\ InFlash(t)'
      /\ t = "rx" => "flashlog" \notin Ready
      /\ t = "flashlog" => ~queue.wai
  BY <1>1, Running, UserTask DEF InFlash, flashing
<1>4. FlashTypes'
  BY <1>1, <1>2, <1>3 DEF Discipline, FlashTypes, flashing
<1>5. ConsoleScript' /\ LogScript' /\ NotifierScript'
  BY <1>1, <1>2, <1>3, UserTask DEF Discipline, ConsoleScript, LogScript, NotifierScript, Notifies, Scans
<1>6. \A u \in Task : u # t => (InFlash(u)' <=> InFlash(u))
  BY <1>3 DEF InFlash
<1>7. \A u, o : Doing(u, o)' <=> Doing(u, o)
  BY <1>1 DEF Doing
<1>8. Calls'
  <2>1. \A u \in Task : InFlash(u)' => Doing(u, ops)'
    BY <1>1, <1>6, <1>7 DEF Discipline, Calls
  <2>2. ASSUME NEW u \in Task
        PROVE  /\ pc'[u] \in {"poll", "poll_dly"} => Doing(u, writes \cup {"wait_ready"})'
               /\ pc'[u] = "exec_dly" => Doing(u, writes)'
               /\ pc'[u] = "dly" => Doing(u, {"dly"})'
    BY <1>3, <1>7 DEF Discipline, Calls
  <2>3. queue'.wai => /\ pc'["flashlog"] = "call" /\ script'["flashlog"] = <<>>
                      /\ ~Scans' /\ log'.rec = Erased /\ queue'.msg = <<>>
    BY <1>1, <1>2, <1>3, UserTask DEF Discipline, Calls, Scans
  <2> QED BY <2>1, <2>2, <2>3 DEF Calls
<1>9. PICK u \in User : u # t
  BY UserTask
<1>10. \/ sem = FreeSem /\ ~InFlash(u) /\ ~Waits(u) /\ sem' = Held
       \/ sem = Held /\ InFlash(u) /\ ~Waits(u) /\ sem' = HeldFor(t)
  BY <1>1, <1>3, <1>9, NotHolding, SemValues
<1>11. SemTurn'
  <2>1. u \in Task
    BY UserTask
  <2> QED BY <1>3, <1>6, <1>9, <1>10, <2>1 DEF SemTurn
<1>12. ScanTurn'
  <2>1. Scans' = Scans
    BY <1>2 DEF Scans
  <2>2. CASE t = "rx"
    <3>1. /\ Scans => log.at = 0 /\ script["flashlog"] # <<>>
          /\ Scans => pc["flashlog"] = "dly" \/ InFlash("rx")
      BY <1>3, <2>2, LogAsleep, LogScripts
    <3>2. Scans => ~InFlash("flashlog")'
      BY <1>3, <1>6, <2>2, <3>1, UserTask DEF InFlash, flashing
    <3> QED BY <1>1, <1>2, <2>1, <3>1, <3>2 DEF ScanTurn
  <2>3. CASE t = "flashlog"
    <3>1. u = "rx" /\ (InFlash("rx")' <=> InFlash("rx"))
      BY <1>6, <1>9, <2>3, UserTask
    <3>2. script["flashlog"] # <<>>
      BY <1>1, <2>3 DEF Doing
    <3>3. InFlash("rx") => sem' = HeldFor("flashlog")
      BY <1>10, <2>3, <3>1
    <3>4. sem' = HeldFor("flashlog") => Waits("flashlog")'
      BY SemValues DEF Waits
    <3> QED BY <1>1, <1>2, <2>1, <3>1, <3>2, <3>3, <3>4 DEF ScanTurn, Discipline
  <2> QED BY <2>2, <2>3, UserTask
<1>13. Scanned'
  BY <1>1, <1>2 DEF Discipline, Scanned, Valid
<1>14. ReadsCell'
  <2>1. Place' = Place
    BY <1>2 DEF Place
  <2>2. HasRead' => HasRead
    BY <1>1, <1>3, <1>7, UserTask DEF HasRead
  <2> QED BY <1>1, <2>1, <2>2 DEF ReadsCell, Discipline
<1> QED BY <1>4, <1>5, <1>8, <1>11, <1>12, <1>13, <1>14 DEF Discipline

LEMMA ReadPreserves ==
  ASSUME Discipline, NEW t \in User, w25qxx_read(t), UNCHANGED logVars
  PROVE  Discipline'
<1>1. /\ Step(t, "exec", "unlock") /\ script' = script /\ sem' = sem /\ chip' = chip
      /\ Doing(t, reads)
      /\ \/ got' = [got EXCEPT ![t] = IF Doing(t, {"query"}) THEN Erased
                                      ELSE IF chip.busy = Idle THEN chip.cell[Arg(t)]
                                      ELSE Garbage]
         \/ got' = [got EXCEPT ![t] = Failed]
  BY DEF w25qxx_read
<1>2. got' = [u \in User |-> got'[u]] /\ (t = "rx" => got'["flashlog"] = got["flashlog"])
  BY <1>1, UserTask DEF Discipline, FlashTypes
<1>3. t = "flashlog" => Doing(t, {"query"}) \/ (Arg(t) = Place /\ Place \in Slot)
  BY <1>1, LogDoes DEF Doing, Arg, reads, Single
<1>4. t = "flashlog" =>
        \/ got'["flashlog"] = Erased /\ Doing(t, {"query"})
        \/ got'["flashlog"] \in {Failed, Garbage}
        \/ chip.busy = Idle /\ got'["flashlog"] = chip.cell[Place] /\ Place \in Slot
  BY <1>1, <1>3, UserTask DEF Discipline, FlashTypes
<1>5. got'["flashlog"] \in Contents
  BY <1>2, <1>4, UserTask, Contained DEF Discipline, FlashTypes
<1>6. Doing(t, {"query"}) => ~Doing(t, {"read"})
  BY DEF Doing
<1>7. "exec" \in flashing /\ "unlock" \in flashing
  BY DEF flashing
<1>8. /\ chip' \in [cell : [Slot -> Contents], busy : Jobs]
      /\ chip'.busy.cmd = "none" <=> chip'.busy = Idle
      /\ chip'.busy.cmd = "program" => chip'.busy.rec.event # "erased"
  BY <1>1 DEF Discipline, FlashTypes
<1> QED BY <1>1, <1>2, <1>4, <1>5, <1>6, <1>7, <1>8, FlashStep

LEMMA WaitReadyPreserves ==
  ASSUME Discipline, NEW t \in User, w25qxx_wait_ready(t), UNCHANGED logVars
  PROVE  Discipline'
<1>1. /\ script' = script /\ sem' = sem /\ chip' = chip
      /\ got' = got \/ got' = [got EXCEPT ![t] = Erased] \/ got' = [got EXCEPT ![t] = Failed]
  BY DEF w25qxx_wait_ready
<1>2. \E from \in {"exec", "poll"}, to \in {"poll", "exec_dly", "poll_dly", "unlock"} :
        /\ Step(t, from, to)
        /\ to = "poll" => Doing(t, {"wait_ready"})
        /\ to = "exec_dly" => Doing(t, writes)
        /\ to = "poll_dly" => from = "poll"
        /\ to = "unlock" => from = "poll" \/ Doing(t, writes)
  BY DEF w25qxx_wait_ready
<1>3. PICK from \in {"exec", "poll"}, to \in {"poll", "exec_dly", "poll_dly", "unlock"} :
        /\ Step(t, from, to)
        /\ to = "poll" => Doing(t, {"wait_ready"})
        /\ to = "exec_dly" => Doing(t, writes)
        /\ to = "poll_dly" => from = "poll"
        /\ to = "unlock" => from = "poll" \/ Doing(t, writes)
  BY <1>2
<1>4. pc[t] = from
  BY <1>3, Running, UserTask
<1>5. from = "poll" => Doing(t, writes \cup {"wait_ready"})
  BY <1>4, UserTask DEF Discipline, Calls
<1>6. /\ to \in {"poll", "poll_dly"} => Doing(t, writes \cup {"wait_ready"})
      /\ to = "unlock" => ~Doing(t, {"read"})
  BY <1>3, <1>5 DEF Doing, writes
<1>7. got' = [u \in User |-> got'[u]] /\ (t = "rx" => got'["flashlog"] = got["flashlog"])
  BY <1>1, UserTask DEF Discipline, FlashTypes
<1>8. got'["flashlog"] \in Contents
  BY <1>1, UserTask, Contained DEF Discipline, FlashTypes
<1>9. from \in flashing /\ to \in flashing
  BY DEF flashing
<1>10. /\ chip' \in [cell : [Slot -> Contents], busy : Jobs]
       /\ chip'.busy.cmd = "none" <=> chip'.busy = Idle
       /\ chip'.busy.cmd = "program" => chip'.busy.rec.event # "erased"
  BY <1>1 DEF Discipline, FlashTypes
<1> QED BY <1>1, <1>3, <1>6, <1>7, <1>8, <1>9, <1>10, FlashStep

(* What a task gives the flash to write.                                   *)
LEMMA Written ==
  ASSUME Discipline, NEW t \in User, Doing(t, writes)
  PROVE  /\ Arg(t) \in Targets /\ Head(script[t]).op \in writes
         /\ Head(script[t]).op = "program" => Arg(t).rec.event # "erased"
<1>1. CASE t = "flashlog"
  <2>1. /\ log.rec \in Records /\ Head(script[t]) = Single("program", [slot |-> log.rec.seq, rec |-> log.rec])
    BY <1>1, LogDoes DEF Doing, writes, Single
  <2>2. log.rec \in Contents /\ log.rec.seq \in Nat /\ log.rec.event # "erased"
    BY <2>1, Contained, EndFacts DEF Slot, Events
  <2> QED BY <2>1, <2>2 DEF Arg, Single, Targets, writes
<1>2. CASE t = "rx"
  <2>1. CASE script["rx"] \in Seq(Harmless)
    BY <1>2, <2>1, HarmlessFacts DEF Doing, Arg
  <2>2. CASE \E k \in 1..End : Rest(script["rx"], k)
    <3>1. PICK k \in 1..End : Rest(script["rx"], k)
      BY <2>2
    <3>2. Head(script["rx"]) = ClearStep(k)
      BY <3>1, RestFacts
    <3>3. k = 3 /\ Head(script["rx"]).op = "erase"
      BY <1>2, <3>2, ClearShape DEF Doing, writes
    <3>4. Arg("rx") = [slot |-> 1, rec |-> Erased]
      BY <3>2, <3>3, ClearShape DEF Arg
    <3>5. Arg("rx") \in Targets
      BY <3>4, Contained DEF Targets
    <3> QED BY <1>2, <3>3, <3>5 DEF writes
  <2>3. ~Notifies("rx")
    BY <1>2, NotifyDoes DEF Doing, writes
  <2> QED BY <2>1, <2>2, <2>3 DEF Discipline, ConsoleScript
<1> QED BY <1>1, <1>2, UserTask

LEMMA SendPreserves ==
  ASSUME Discipline, NEW t \in User, Send(t), UNCHANGED logVars
  PROVE  Discipline'
<1>1. /\ Doing(t, writes) /\ chip.busy = Idle /\ script' = script /\ sem' = sem
  BY DEF Send
<1>2. PICK rec \in {Arg(t).rec, Part(Arg(t).rec), Garbage} :
        /\ \/ Step(t, "exec", "poll") /\ got' = got
           \/ Step(t, "exec", "unlock") /\ got' = [got EXCEPT ![t] = Failed]
        /\ chip' = [chip EXCEPT !.busy =
             [cmd |-> Head(script[t]).op, slot |-> Arg(t).slot, rec |-> rec]]
  BY DEF Send
<1>3. /\ Arg(t) \in Targets /\ Head(script[t]).op \in writes
      /\ Head(script[t]).op = "program" => Arg(t).rec.event # "erased"
  BY <1>1, Written
<1>4. Arg(t).rec \in Contents /\ Arg(t).slot \in Nat
  BY <1>3 DEF Targets
<1>5. rec \in Contents /\ (rec.event = Arg(t).rec.event \/ rec.event = "garbage")
  BY <1>4, Contained
<1>6. /\ chip'.cell = chip.cell
      /\ chip'.busy = [cmd |-> Head(script[t]).op, slot |-> Arg(t).slot, rec |-> rec]
      /\ chip' \in [cell : [Slot -> Contents], busy : Jobs]
  BY <1>2, <1>3, <1>4, <1>5 DEF Discipline, FlashTypes, Jobs, writes
<1>7. chip'.busy.cmd # "none" /\ chip'.busy # Idle
  BY <1>3, <1>6 DEF writes, Idle
<1>8. chip'.busy.cmd = "program" => chip'.busy.rec.event # "erased"
  BY <1>3, <1>5, <1>6
<1>9. got' = [u \in User |-> got'[u]] /\ (t = "rx" => got'["flashlog"] = got["flashlog"])
  BY <1>2, UserTask DEF Discipline, FlashTypes
<1>10. got'["flashlog"] \in Contents
  BY <1>2, UserTask, Contained DEF Discipline, FlashTypes
<1>11. ~Doing(t, {"read"}) /\ Doing(t, writes \cup {"wait_ready"})
  BY <1>1 DEF Doing, writes
<1>12. "exec" \in flashing /\ "poll" \in flashing /\ "unlock" \in flashing
  BY DEF flashing
<1>13. CASE Step(t, "exec", "poll")
  BY <1>1, <1>6, <1>7, <1>8, <1>9, <1>10, <1>11, <1>12, <1>13, FlashStep
<1>14. CASE Step(t, "exec", "unlock")
  BY <1>1, <1>6, <1>7, <1>8, <1>9, <1>10, <1>11, <1>12, <1>14, FlashStep
<1> QED BY <1>2, <1>13, <1>14

(* What is left of a command after its next step. *)
LEMMA ConsoleTail ==
  ASSUME Discipline, script["rx"] # <<>>, ~Notifies("rx")
  PROVE  \/ Tail(script["rx"]) \in Seq(Harmless)
         \/ \E k \in 1..End : Rest(Tail(script["rx"]), k)
<1>1. CASE script["rx"] \in Seq(Harmless)
  BY <1>1, HarmlessFacts
<1>2. CASE \E k \in 1..End : Rest(script["rx"], k)
  <2>1. PICK k \in 1..End : Rest(script["rx"], k)
    BY <1>2
  <2>2. CASE k = End
    BY <2>1, <2>2, RestFacts, NothingHarmless
  <2>3. CASE k < End
    <3>1. k + 1 \in 1..End /\ Rest(Tail(script["rx"]), k + 1)
      BY <2>1, <2>3, RestFacts, EndFacts
    <3> QED BY <3>1
  <2> QED BY <2>2, <2>3, EndFacts
<1> QED BY <1>1, <1>2 DEF Discipline, ConsoleScript

(* The call returns: the function goes on, or ends.                        *)
LEMMA UnlockPreserves ==
  ASSUME Discipline, NEW t \in User, w25qxx_unlock(t), UNCHANGED logVars
  PROVE  Discipline'
<1>1. /\ Step(t, "unlock", "call") /\ sem' = tk_sig_sem(sem) /\ chip' = chip
      /\ script' = [script EXCEPT ![t] = IF Stops(t) THEN <<>> ELSE Tail(@)]
      /\ got' = [got EXCEPT !["rx"] = Erased]
  BY DEF w25qxx_unlock
<1>2. queue' = queue /\ log' = log /\ kept' = kept /\ overtaken' = overtaken
  BY DEF logVars
<1>3. /\ pc[t] = "unlock" /\ pc' = [pc EXCEPT ![t] = "call"] /\ pc'[t] = "call"
      /\ \A u \in Task : u # t => pc'[u] = pc[u]
      /\ ~Waits(t) /\ InFlash(t) /\ ~InFlash(t)'
      /\ t = "rx" => "flashlog" \notin Ready
      /\ t = "flashlog" => ~queue.wai
  BY <1>1, Running, UserTask DEF InFlash, flashing
<1>4. /\ script' = [u \in Task |-> script'[u]]
      /\ script'[t] = <<>> \/ script'[t] = Tail(script[t])
      /\ Stops(t) => script'[t] = <<>>
      /\ ~Stops(t) => script'[t] = Tail(script[t])
      /\ \A u \in Task : u # t => script'[u] = script[u]
  BY <1>1, UserTask DEF Discipline, FlashTypes
<1>5. got' = [u \in User |-> got'[u]] /\ got'["flashlog"] = got["flashlog"]
  BY <1>1, UserTask DEF Discipline, FlashTypes
<1>6. script[t] # <<>> /\ Head(script[t]).op \in reads \cup writes \cup {"wait_ready"}
  BY <1>3, UserTask DEF Discipline, Calls, Doing
<1>7. FlashTypes'
  BY <1>1, <1>2, <1>3, <1>4, <1>5 DEF Discipline, FlashTypes
<1>8. ConsoleScript'
  <2>1. CASE t = "rx"
    <3>1. ~Notifies("rx")
      BY <1>6, <2>1, NotifyDoes DEF reads, writes
    <3>2. script'["rx"] = <<>> \/ script'["rx"] = Tail(script["rx"])
      BY <1>4, <2>1
    <3> QED BY <1>6, <2>1, <3>1, <3>2, ConsoleTail, NothingHarmless DEF ConsoleScript
  <2>2. CASE t # "rx"
    BY <1>4, <2>2, UserTask DEF Discipline, ConsoleScript, Notifies
  <2> QED BY <2>1, <2>2
<1>9. NotifierScript'
  BY <1>3, <1>4, UserTask DEF Discipline, NotifierScript, Notifies
<1>10. ASSUME t = "flashlog" PROVE LogScript' /\ ReadsCell' /\ ScanTurn'
  <2>1. /\ \/ /\ log.at = 0 /\ log.rec = Erased /\ Scans /\ Place = 0
              /\ script'["flashlog"] = <<>>
           \/ /\ log.at \in Slot /\ log.rec = Erased /\ Scans /\ Place = log.at
              /\ script'["flashlog"] = <<>> /\ Doing("flashlog", {"read"})
           \/ /\ ~Scans /\ log.rec \in Records
              /\ \/ script'["flashlog"] = Do("read", log.rec.seq)
                 \/ script'["flashlog"] = <<>> /\ Stops("flashlog")
           \/ /\ ~Scans /\ log.rec \in Records
              /\ script'["flashlog"] = <<>> /\ Doing("flashlog", {"read"})
    <3>1. /\ Single("dly", 0).op = "dly" /\ Single("query", 0).op = "query"
          /\ \A n : Single("read", n).op = "read" /\ Single("program", n).op = "program"
      BY DEF Single
    <3>2. Head(script["flashlog"]).op # "dly"
      BY <1>6, <1>10 DEF reads, writes
    <3> HIDE DEF Stops
    <3> QED BY <1>4, <1>6, <1>10, <3>1, <3>2, LogDoes DEF Doing
  <2>2. LogScript'
    BY <1>2, <2>1 DEF LogScript, Scans, Discipline
  <2>3. Stops("flashlog") => got["flashlog"] = Failed
    <3>1. ~Doing("flashlog", {"verify"})
      <4>1. /\ Single("dly", 0).op = "dly" /\ Single("query", 0).op = "query"
            /\ \A n : Single("read", n).op = "read" /\ Single("program", n).op = "program"
        BY DEF Single
      <4> QED BY <1>6, <1>10, <4>1, LogDoes DEF Doing
    <3> QED BY <3>1 DEF Stops
  <2>4. ReadsCell'
    <3>1. Place' = Place
      BY <1>2 DEF Place
    <3>2. 0 \notin Slot
      BY EndFacts DEF Slot
    <3>3. CASE Doing("flashlog", {"read"})
      <4>1. HasRead
        BY <1>3, <1>10, <3>3 DEF HasRead
      <4> QED BY <1>1, <1>5, <3>1, <4>1 DEF ReadsCell, Discipline
    <3>4. CASE Place = 0
      BY <3>1, <3>2, <3>4 DEF ReadsCell
    <3>5. CASE script'["flashlog"] = Do("read", log.rec.seq)
      BY <1>3, <1>10, <3>5, DoFacts DEF ReadsCell, HasRead
    <3>6. CASE Stops("flashlog")
      BY <1>5, <2>3, <3>6 DEF ReadsCell
    <3> QED BY <2>1, <3>3, <3>4, <3>5, <3>6
  <2>5. ScanTurn'
    <3>1. ~InFlash("rx") \/ Waits("rx")
      BY <1>3, <1>10, Holding, UserTask
    <3>2. CASE ~InFlash("rx")
      <4>1. ~InFlash("rx")'
        BY <1>3, <1>10, <3>2, UserTask DEF InFlash
      <4> QED BY <4>1 DEF ScanTurn
    <3>3. CASE InFlash("rx")
      <4>1. ~Scans
        BY <1>3, <1>10, <3>3 DEF Discipline, ScanTurn
      <4> QED BY <1>2, <4>1 DEF ScanTurn, Scans
    <3> QED BY <3>2, <3>3
  <2> QED BY <2>2, <2>4, <2>5
<1>11. ASSUME t = "rx" PROVE LogScript' /\ ReadsCell' /\ ScanTurn'
  <2>0. script'["flashlog"] = script["flashlog"] /\ pc'["flashlog"] = pc["flashlog"]
    BY <1>3, <1>4, <1>11, UserTask
  <2>1. LogScript'
    BY <1>2, <2>0 DEF LogScript, Scans, Discipline
  <2>2. ReadsCell'
    <3>1. ~(Place \in Slot /\ HasRead)
      BY <1>3, <1>11, ReadNothing
    <3>2. Place' = Place /\ (HasRead' <=> HasRead)
      BY <1>2, <2>0 DEF HasRead, Place, Doing
    <3> QED BY <3>1, <3>2 DEF ReadsCell
  <2>3. ScanTurn'
    BY <1>3, <1>11 DEF ScanTurn
  <2> QED BY <2>1, <2>2, <2>3
<1>12. Calls'
  <2>1. \A u \in Task : u # t => pc'[u] = pc[u] /\ script'[u] = script[u]
    BY <1>3, <1>4
  <2>2. ASSUME NEW u \in Task
        PROVE  /\ InFlash(u)' => Doing(u, reads \cup writes \cup {"wait_ready"})'
               /\ pc'[u] \in {"poll", "poll_dly"} => Doing(u, writes \cup {"wait_ready"})'
               /\ pc'[u] = "exec_dly" => Doing(u, writes)'
               /\ pc'[u] = "dly" => Doing(u, {"dly"})'
    <3>1. CASE u = t
      BY <1>3, <3>1
    <3>2. CASE u # t
      BY <2>1, <3>2 DEF Discipline, Calls, InFlash, Doing
    <3> QED BY <3>1, <3>2
  <2>3. queue'.wai => /\ pc'["flashlog"] = "call" /\ script'["flashlog"] = <<>>
                      /\ ~Scans' /\ log'.rec = Erased /\ queue'.msg = <<>>
    BY <1>2, <1>3, <2>1, UserTask DEF Discipline, Calls, Scans
  <2> QED BY <2>2, <2>3 DEF Calls
<1>13. SemTurn'
  <2>1. PICK u \in User : u # t
    BY UserTask
  <2>2. \/ sem' = FreeSem /\ ~InFlash(u)
        \/ sem' = Held /\ pc[u] = "exec"
    BY <1>1, <1>3, <2>1, Holding, SemValues
  <2>3. pc'[u] = pc[u]
    BY <1>3, <2>1, UserTask
  <2> QED BY <1>3, <2>1, <2>2, <2>3, UserTask DEF SemTurn, InFlash, flashing
<1>14. Scanned'
  BY <1>1, <1>2 DEF Discipline, Scanned, Valid
<1> QED BY <1>7, <1>8, <1>9, <1>10, <1>11, <1>12, <1>13, <1>14, UserTask DEF Discipline

LEMMA FlashCallPreserves ==
  ASSUME Discipline, NEW t \in Task, FlashCall(t)
  PROVE  Discipline'
<1>1. UNCHANGED logVars
  BY DEF FlashCall
<1>2. t \in User
  <2>1. ASSUME t = "mpuirq" PROVE FALSE
    <3>1. pc["mpuirq"] = "call"
      BY DEF Discipline, NotifierScript
    <3>2. w25qxx_lock(t)
      BY <2>1, <3>1 DEF FlashCall, w25qxx_read, Send, w25qxx_wait_ready, w25qxx_unlock, Step
    <3>3. script["mpuirq"] # <<>> /\ Head(script["mpuirq"]).op \in reads \cup writes \cup {"wait_ready"}
      BY <2>1, <3>2 DEF w25qxx_lock, Doing
    <3>4. Head(script["mpuirq"]).op \in {"ask", "send"}
      BY <3>3, NotifyDoes DEF Discipline, NotifierScript
    <3> QED BY <3>3, <3>4 DEF reads, writes
  <2> QED BY <2>1, UserTask
<1> QED BY <1>1, <1>2, LockPreserves, ReadPreserves, SendPreserves, WaitReadyPreserves, UnlockPreserves
     DEF FlashCall

(* The chip is done.                                                       *)
LEMMA ProgrammedFacts ==
  ASSUME NEW old \in Contents, NEW new \in Contents, NEW r \in Programmed(old, new)
  PROVE  /\ r \in Contents
         /\ new.event # "erased" => r # Erased
<1>1. CASE r = new
  BY <1>1, Contained
<1>2. CASE \E w \in BOOLEAN : r = [new EXCEPT !.whole = w]
  <2>1. r \in Contents /\ r.event = new.event
    BY <1>2 DEF Contents
  <2> QED BY <2>1, Contained
<1>3. CASE r = Garbage
  BY <1>3, Contained
<1> QED BY <1>1, <1>2, <1>3 DEF Programmed

LEMMA EffectFacts ==
  ASSUME Discipline, NEW cell \in Effects(chip.busy)
  PROVE  /\ cell \in [Slot -> Contents]
         /\ chip.busy.cmd = "erase" /\ chip.busy.slot \in Slot => \A i \in Slot : cell[i] = Erased
         /\ chip.busy.cmd = "program" =>
              \A i \in Slot : IF i = chip.busy.slot THEN cell[i] # Erased
                               ELSE cell[i] = chip.cell[i]
         /\ chip.busy.slot \notin Slot => cell = chip.cell
<1>1. chip.cell \in [Slot -> Contents] /\ chip.busy \in Jobs
      /\ (chip.busy.cmd = "program" => chip.busy.rec.event # "erased")
  BY DEF Discipline, FlashTypes
<1>2. CASE chip.busy.cmd = "program" /\ chip.busy.slot \in Slot
  <2>1. PICK r \in Programmed(chip.cell[chip.busy.slot], chip.busy.rec) :
          cell = [chip.cell EXCEPT ![chip.busy.slot] = r]
    BY <1>2 DEF Effects
  <2>2. chip.cell[chip.busy.slot] \in Contents /\ chip.busy.rec \in Contents
    BY <1>1, <1>2 DEF Jobs
  <2>3. r \in Contents /\ r # Erased
    BY <1>1, <1>2, <2>2, ProgrammedFacts
  <2> QED BY <1>1, <1>2, <2>1, <2>3
<1>3. CASE chip.busy.cmd = "erase" /\ chip.busy.slot \in Slot
  <2>1. cell = [i \in Slot |-> Erased]
    BY <1>3 DEF Effects
  <2> QED BY <1>3, <2>1, Contained
<1>4. CASE /\ ~(chip.busy.cmd = "program" /\ chip.busy.slot \in Slot)
           /\ ~(chip.busy.cmd = "erase" /\ chip.busy.slot \in Slot)
  <2>1. cell = chip.cell
    BY <1>4 DEF Effects
  <2> QED BY <1>1, <1>4, <2>1
<1> QED BY <1>2, <1>3, <1>4

LEMMA CompletePreserves ==
  ASSUME Discipline, Complete
  PROVE  Discipline'
<1>1. PICK cell \in Effects(chip.busy) : chip' = [cell |-> cell, busy |-> Idle]
  BY DEF Complete
<1>2. chip.busy # Idle
  BY DEF Complete
<1>3. /\ pc' = pc /\ script' = script /\ got' = got /\ sem' = sem /\ queue' = queue /\ log' = log
      /\ kept' = kept /\ overtaken' = overtaken
  BY DEF Complete, logVars
<1>4. chip' \in [cell : [Slot -> Contents], busy : Jobs] /\ chip'.busy = Idle
      /\ chip'.busy.cmd = "none"
  <2>1. cell \in [Slot -> Contents]
    BY EffectFacts
  <2>2. Idle \in Jobs /\ Idle.cmd = "none"
    BY Contained DEF Idle, Jobs
  <2> QED BY <1>1, <2>1, <2>2
<1>5. FlashTypes'
  BY <1>3, <1>4 DEF Discipline, FlashTypes
<1>6. ConsoleScript' /\ LogScript' /\ NotifierScript' /\ SemTurn' /\ ScanTurn'
  BY <1>3 DEF Discipline, ConsoleScript, LogScript, NotifierScript, Notifies, Scans, SemTurn, ScanTurn,
              InFlash, Waits
<1>7. Calls'
  BY <1>3 DEF Discipline, Calls, Scans, InFlash, Doing
<1>8. Scanned'
  <2>1. log.at \in Slot => log.at = 1
    BY <1>2 DEF Discipline, Scanned
  <2>2. \A j \in 1..1 - 1 : FALSE
    OBVIOUS
  <2> QED BY <1>3, <1>4, <2>1, <2>2 DEF Scanned
<1>9. ReadsCell'
  BY <1>2, <1>3 DEF Discipline, ReadsCell, Place, HasRead, Doing
<1> QED BY <1>5, <1>6, <1>7, <1>8, <1>9 DEF Discipline

(* A step of a task outside the flash.                                     *)
LEMMA OutsideFlash ==
  ASSUME Discipline, pc' = pc, sem' = sem, NEW t \in Task, pc[t] = "call",
         \A u \in Task : u # t => script'[u] = script[u],
         queue'.wai => /\ pc'["flashlog"] = "call" /\ script'["flashlog"] = <<>>
                       /\ ~Scans' /\ log'.rec = Erased /\ queue'.msg = <<>>
  PROVE  Calls' /\ SemTurn'
<1>1. ASSUME NEW u \in Task
      PROVE  /\ InFlash(u)' => Doing(u, reads \cup writes \cup {"wait_ready"})'
             /\ pc'[u] \in {"poll", "poll_dly"} => Doing(u, writes \cup {"wait_ready"})'
             /\ pc'[u] = "exec_dly" => Doing(u, writes)'
             /\ pc'[u] = "dly" => Doing(u, {"dly"})'
  <2>1. CASE u = t
    BY <2>1 DEF InFlash, flashing
  <2>2. CASE u # t
    BY <2>2 DEF Discipline, Calls, InFlash, Doing
  <2> QED BY <2>1, <2>2
<1>2. Calls'
  BY <1>1 DEF Calls
<1>3. SemTurn'
  BY DEF Discipline, SemTurn, InFlash
<1> QED BY <1>2, <1>3

(* A step of the console or of the notifier outside the flash.             *)
LEMMA Elsewhere ==
  ASSUME Discipline, pc' = pc, sem' = sem, chip' = chip, got' = got,
         NEW t \in {"rx", "mpuirq"}, pc[t] = "call",
         script' = [u \in Task |-> script'[u]],
         \A u \in Task : u # t => script'[u] = script[u],
         ConsoleScript', NotifierScript',
         log' \in [ready : BOOLEAN, count : Nat, at : 0..MaxRecords + 1, retry : BOOLEAN,
                   rec : {Erased} \cup Records],
         log'.at = log.at, log'.rec = log.rec, log'.count \in {0, log.count},
         queue' \in [msg : Seq(Events), wai : BOOLEAN], queue'.wai => queue' = queue,
         kept' \in SUBSET Nat, overtaken' = overtaken
  PROVE  Discipline'
<1>1. FlashTypes'
  BY DEF Discipline, FlashTypes
<1>2. script'["flashlog"] = script["flashlog"]
  BY UserTask
<1>3. Scans' <=> Scans
  BY DEF Scans
<1>4. LogScript'
  BY <1>2, <1>3 DEF Discipline, LogScript
<1>5. Calls' /\ SemTurn'
  <2>1. queue'.wai => /\ pc'["flashlog"] = "call" /\ script'["flashlog"] = <<>>
                      /\ ~Scans' /\ log'.rec = Erased /\ queue'.msg = <<>>
    BY <1>2, <1>3 DEF Discipline, Calls
  <2> QED BY <2>1, UserTask, OutsideFlash
<1>6. ScanTurn'
  BY <1>2, <1>3 DEF Discipline, ScanTurn, InFlash, Waits
<1>7. Scanned'
  BY DEF Discipline, Scanned, Valid
<1>8. ReadsCell'
  BY <1>2 DEF Discipline, ReadsCell, Place, HasRead, Doing
<1> QED BY <1>1, <1>4, <1>5, <1>6, <1>7, <1>8 DEF Discipline

LEMMA CallScript ==
  ASSUME Discipline, NEW t \in Task, Step(t, "call", "call")
  PROVE  /\ pc' = pc /\ pc[t] = "call" /\ ~Waits(t)
         /\ t # "flashlog" => script[t] # <<>> /\ "flashlog" \notin Ready
         /\ t = "flashlog" => ~queue.wai
         /\ t = "mpuirq" => "rx" \notin Ready
<1>1. pc' = [pc EXCEPT ![t] = "call"] /\ pc[t] = "call"
  BY Running
<1>2. pc' = pc
  BY <1>1 DEF Discipline, FlashTypes
<1> QED BY <1>1, <1>2, Running

LEMMA ReportPreserves ==
  ASSUME Discipline, NEW e \in Events, Report(e)
  PROVE  Discipline'
<1>1. /\ pc' = pc /\ sem' = sem /\ chip' = chip /\ got' = got /\ queue' = queue /\ log' = log
      /\ kept' = kept /\ overtaken' = overtaken
  BY DEF Report, flashVars, logVars
<1>2. script' = [script EXCEPT !["mpuirq"] = task_flashlog_notify(e)]
  BY DEF Report
<1>3. /\ script'["mpuirq"] = task_flashlog_notify(e) /\ script' = [u \in Task |-> script'[u]]
      /\ \A u \in Task : u # "mpuirq" => script'[u] = script[u]
  BY <1>2, UserTask DEF Discipline, FlashTypes
<1>4. pc["mpuirq"] = "call"
  BY DEF Discipline, NotifierScript
<1>5. NotifierScript'
  BY <1>1, <1>3, <1>4 DEF NotifierScript, Notifies
<1>6. ConsoleScript'
  BY <1>3, UserTask DEF Discipline, ConsoleScript, Notifies
<1>7. /\ log' \in [ready : BOOLEAN, count : Nat, at : 0..MaxRecords + 1, retry : BOOLEAN,
                   rec : {Erased} \cup Records]
      /\ queue' \in [msg : Seq(Events), wai : BOOLEAN] /\ kept' \in SUBSET Nat
  BY <1>1 DEF Discipline, FlashTypes
<1> QED BY <1>1, <1>3, <1>4, <1>5, <1>6, <1>7, Elsewhere

LEMMA CommandPreserves ==
  ASSUME Discipline, NEW c \in Commands, Command(c)
  PROVE  Discipline'
<1>1. /\ pc' = pc /\ sem' = sem /\ chip' = chip /\ got' = got /\ queue' = queue /\ log' = log
      /\ kept' = kept /\ overtaken' = overtaken /\ script["rx"] = <<>>
  BY DEF Command, flashVars, logVars
<1>2. script' = [script EXCEPT !["rx"] = command_table[c]]
  BY DEF Command
<1>3. /\ script'["rx"] = command_table[c] /\ script' = [u \in Task |-> script'[u]]
      /\ \A u \in Task : u # "rx" => script'[u] = script[u]
  BY <1>2, UserTask DEF Discipline, FlashTypes
<1>4. pc["rx"] = "call"
  BY <1>1, UserTask DEF Discipline, FlashTypes, Calls, InFlash, Doing
<1>5. ConsoleScript'
  <2>1. c \in DOMAIN command_table
    BY CommandsAssumption
  <2>2. CASE command_table[c] = task_flashlog_clear
    BY <1>3, <2>2, ClearRest, EndFacts DEF ConsoleScript
  <2>3. CASE command_table[c] = task_flashlog_notify("STOPPED")
    BY <1>3, <2>3 DEF ConsoleScript, Notifies, Events
  <2>4. CASE command_table[c] \in Seq(Harmless)
    BY <1>3, <2>4 DEF ConsoleScript
  <2> QED BY <2>1, <2>2, <2>3, <2>4, CommandScripts
<1>6. NotifierScript'
  BY <1>1, <1>3, UserTask DEF Discipline, NotifierScript, Notifies
<1> QED BY <1>1, <1>3, <1>4, <1>5, <1>6, Elsewhere DEF Discipline, FlashTypes

LEMMA NotifyPreserves ==
  ASSUME Discipline, NEW t \in Task, Notify(t)
  PROVE  Discipline'
<1>1. /\ got' = got /\ sem' = sem /\ chip' = chip /\ log' = log
      /\ kept' = kept /\ overtaken' = overtaken
      /\ \/ /\ Doing(t, {"ask"}) /\ Step(t, "call", "call") /\ queue' = queue
            /\ script' = [script EXCEPT ![t] = IF log.ready THEN Tail(@) ELSE Tail(Tail(@))]
         \/ /\ Doing(t, {"send"}) /\ Step(t, "call", "call")
            /\ script' = [script EXCEPT ![t] = Tail(@)]
            /\ queue' = IF Len(queue.msg) < QueueDepth
                        THEN [msg |-> Append(queue.msg, Arg(t)), wai |-> FALSE] ELSE queue
  BY DEF Notify, Does, flashVars
<1>2. /\ pc' = pc /\ pc[t] = "call" /\ script[t] # <<>> /\ Head(script[t]).op \in {"ask", "send"}
  BY <1>1, CallScript DEF Doing
<1>3. t # "flashlog"
  BY <1>2, LogDoes DEF Single
<1>4. Notifies(t)
  <2>1. CASE t = "mpuirq"
    BY <1>2, <2>1 DEF Discipline, NotifierScript
  <2>2. CASE t = "rx"
    <3>1. ASSUME NEW k \in 1..End, Rest(script["rx"], k) PROVE FALSE
      <4>1. Head(script["rx"]) = ClearStep(k)
        BY <3>1, RestFacts
      <4> QED BY <1>2, <2>2, <4>1, ClearShape
    <3>2. script["rx"] \notin Seq(Harmless)
      BY <1>2, <2>2, HarmlessFacts
    <3> QED BY <2>2, <3>1, <3>2 DEF Discipline, ConsoleScript
  <2> QED BY <1>3, <2>1, <2>2, UserTask
<1>5. PICK e \in Events :
        \/ /\ Head(script[t]) = Single("ask", e)
           /\ Tail(script[t]) = Do("send", e) /\ Tail(Tail(script[t])) = <<>>
        \/ Head(script[t]) = Single("send", e) /\ Tail(script[t]) = <<>>
  BY <1>4, NotifyDoes
<1>6. /\ script' = [u \in Task |-> script'[u]]
      /\ \A u \in Task : u # t => script'[u] = script[u]
      /\ script'[t] \in {<<>>, Do("send", e)}
  <2>1. /\ script' = [u \in Task |-> script'[u]]
        /\ \A u \in Task : u # t => script'[u] = script[u]
        /\ Head(script[t]).op = "send" => script'[t] = Tail(script[t])
        /\ script'[t] \in {Tail(script[t]), Tail(Tail(script[t]))}
    BY <1>1, UserTask DEF Discipline, FlashTypes, Doing
  <2>2. Single("send", e).op = "send"
    BY DEF Single
  <2>3. CASE /\ Head(script[t]) = Single("ask", e)
             /\ Tail(script[t]) = Do("send", e) /\ Tail(Tail(script[t])) = <<>>
    <3>1. script'[t] = Do("send", e) \/ script'[t] = <<>>
      BY <2>1, <2>3
    <3> QED BY <2>1, <3>1
  <2>4. CASE Head(script[t]) = Single("send", e) /\ Tail(script[t]) = <<>>
    BY <2>1, <2>2, <2>4
  <2> QED BY <1>5, <2>3, <2>4
<1>7. script'[t] = <<>> \/ Notifies(t)'
  BY <1>6 DEF Notifies
<1>8. ConsoleScript'
  <2>1. CASE t = "rx"
    BY <1>7, <2>1, NothingHarmless DEF ConsoleScript
  <2>2. CASE t # "rx"
    <3>1. script'["rx"] = script["rx"]
      BY <1>6, <2>2, UserTask
    <3> QED BY <3>1 DEF Discipline, ConsoleScript, Notifies
  <2> QED BY <2>1, <2>2
<1>9. NotifierScript'
  <2>1. pc'["mpuirq"] = "call"
    BY <1>2 DEF Discipline, NotifierScript
  <2>2. CASE t = "mpuirq"
    BY <1>7, <2>1, <2>2 DEF NotifierScript
  <2>3. CASE t # "mpuirq"
    <3>1. script'["mpuirq"] = script["mpuirq"]
      BY <1>6, <2>3, UserTask
    <3> QED BY <2>1, <3>1 DEF Discipline, NotifierScript, Notifies
  <2> QED BY <2>2, <2>3
<1>10. queue' \in [msg : Seq(Events), wai : BOOLEAN] /\ (queue'.wai => queue' = queue)
  <2>1. Arg(t) \in Events
    BY <1>5 DEF Arg, Single
  <2>2. queue \in [msg : Seq(Events), wai : BOOLEAN]
    BY DEF Discipline, FlashTypes
  <2>3. Append(queue.msg, Arg(t)) \in Seq(Events)
    BY <2>1, <2>2, AppendProperties
  <2>4. queue' = queue \/ queue' = [msg |-> Append(queue.msg, Arg(t)), wai |-> FALSE]
    BY <1>1
  <2> DEFINE m == Append(queue.msg, Arg(t))
             q == [msg |-> m, wai |-> FALSE]
  <2>5. m \in Seq(Events) /\ (queue' = queue \/ queue' = q)
    BY <2>3, <2>4
  <2> HIDE DEF m
  <2>6. q \in [msg : Seq(Events), wai : BOOLEAN] /\ ~q.wai
    BY <2>5
  <2> HIDE DEF q
  <2> QED BY <2>2, <2>5, <2>6
<1>11. log \in [ready : BOOLEAN, count : Nat, at : 0..MaxRecords + 1, retry : BOOLEAN,
                rec : {Erased} \cup Records] /\ kept \in SUBSET Nat
  BY DEF Discipline, FlashTypes
<1> QED BY <1>1, <1>2, <1>3, <1>6, <1>8, <1>9, <1>10, <1>11, Elsewhere, UserTask

(* The last steps of the clearing, its first, and the beginning of a dump. *)
LEMMA LogCommandSteps ==
  ASSUME LogCommand
  PROVE  /\ Step("rx", "call", "call") /\ script["rx"] # <<>>
         /\ got' = got /\ sem' = sem /\ chip' = chip /\ queue' = queue /\ overtaken' = overtaken
         /\ \/ /\ Head(script["rx"]).op = "unready" /\ kept' = {}
               /\ script' = [script EXCEPT !["rx"] = Tail(@)]
               /\ log' = [log EXCEPT !.ready = FALSE]
            \/ /\ Head(script["rx"]).op = "zero" /\ kept' = kept
               /\ script' = [script EXCEPT !["rx"] = Tail(@)]
               /\ log' = [log EXCEPT !.count = 0]
            \/ /\ Head(script["rx"]).op = "ready" /\ kept' = kept
               /\ script' = [script EXCEPT !["rx"] = Tail(@)]
               /\ log' = [log EXCEPT !.ready = TRUE]
            \/ /\ Head(script["rx"]).op = "dump" /\ kept' = kept /\ log' = log
               /\ script' = [script EXCEPT !["rx"] =
                    IF log.ready THEN Do("wait_ready", 0) \o ReadRecords(log.count) ELSE <<>>]
<1>1. /\ got' = got /\ sem' = sem /\ chip' = chip /\ queue' = queue /\ overtaken' = overtaken
  BY Zenon DEF LogCommand, flashVars
<1>2. CASE Does("rx", "unready") /\ log' = [log EXCEPT !.ready = FALSE] /\ kept' = {}
  BY <1>1, <1>2 DEF Does, Doing
<1>3. CASE Does("rx", "zero") /\ log' = [log EXCEPT !.count = 0] /\ UNCHANGED kept
  BY <1>1, <1>3 DEF Does, Doing
<1>4. CASE Does("rx", "ready") /\ log' = [log EXCEPT !.ready = TRUE] /\ UNCHANGED kept
  BY <1>1, <1>4 DEF Does, Doing
<1>5. CASE /\ Doing("rx", {"dump"}) /\ Step("rx", "call", "call")
           /\ script' = [script EXCEPT !["rx"] =
                IF log.ready THEN Do("wait_ready", 0) \o ReadRecords(log.count) ELSE <<>>]
           /\ UNCHANGED <<log, kept>>
  BY <1>1, <1>5 DEF Doing
<1> QED BY <1>2, <1>3, <1>4, <1>5 DEF LogCommand

LEMMA LogCommandPreserves ==
  ASSUME Discipline, LogCommand
  PROVE  Discipline'
<1>1. /\ Step("rx", "call", "call") /\ script["rx"] # <<>>
      /\ Head(script["rx"]).op \in {"unready", "zero", "ready", "dump"}
      /\ \/ script' = [script EXCEPT !["rx"] = Tail(@)]
         \/ script' = [script EXCEPT !["rx"] =
                        IF log.ready THEN Do("wait_ready", 0) \o ReadRecords(log.count) ELSE <<>>]
      /\ got' = got /\ sem' = sem /\ chip' = chip /\ queue' = queue /\ overtaken' = overtaken
      /\ \/ log' = log \/ log' = [log EXCEPT !.ready = FALSE] \/ log' = [log EXCEPT !.ready = TRUE]
         \/ log' = [log EXCEPT !.count = 0]
      /\ kept' = kept \/ kept' = {}
  <2> DEFINE dump == IF log.ready THEN Do("wait_ready", 0) \o ReadRecords(log.count) ELSE <<>>
             tail == [script EXCEPT !["rx"] = Tail(@)]
             shown == [script EXCEPT !["rx"] = dump]
             off == [log EXCEPT !.ready = FALSE]
             on == [log EXCEPT !.ready = TRUE]
             none == [log EXCEPT !.count = 0]
  <2>1. /\ Step("rx", "call", "call") /\ script["rx"] # <<>>
        /\ got' = got /\ sem' = sem /\ chip' = chip /\ queue' = queue /\ overtaken' = overtaken
        /\ \/ Head(script["rx"]).op = "unready" /\ kept' = {} /\ script' = tail /\ log' = off
           \/ Head(script["rx"]).op = "zero" /\ kept' = kept /\ script' = tail /\ log' = none
           \/ Head(script["rx"]).op = "ready" /\ kept' = kept /\ script' = tail /\ log' = on
           \/ Head(script["rx"]).op = "dump" /\ kept' = kept /\ log' = log /\ script' = shown
    BY LogCommandSteps
  <2> HIDE DEF dump, tail, shown, off, on, none
  <2>2. /\ Head(script["rx"]).op \in {"unready", "zero", "ready", "dump"}
        /\ script' = tail \/ script' = shown
        /\ log' = log \/ log' = off \/ log' = on \/ log' = none
        /\ kept' = kept \/ kept' = {}
    BY <2>1
  <2> QED BY Zenon, <2>1, <2>2 DEF dump, tail, shown, off, on, none
<1>2. pc' = pc /\ pc["rx"] = "call"
  BY <1>1, CallScript, UserTask
<1>3. /\ script' = [u \in Task |-> script'[u]]
      /\ \A u \in Task : u # "rx" => script'[u] = script[u]
      /\ script'["rx"] \in {Tail(script["rx"]), Do("wait_ready", 0) \o ReadRecords(log.count), <<>>}
  BY <1>1, UserTask DEF Discipline, FlashTypes
<1>4. log \in [ready : BOOLEAN, count : Nat, at : 0..MaxRecords + 1, retry : BOOLEAN,
               rec : {Erased} \cup Records] /\ kept \in SUBSET Nat
      /\ queue \in [msg : Seq(Events), wai : BOOLEAN]
  BY DEF Discipline, FlashTypes
<1>5. ConsoleScript'
  <2>1. ~Notifies("rx")
    BY <1>1, NotifyDoes
  <2>2. Do("wait_ready", 0) \o ReadRecords(log.count) \in Seq(Harmless)
    <3>1. Single("wait_ready", 0) \in Harmless
      BY DEF Single, Harmless, Steps
    <3>2. Do("wait_ready", 0) \in Seq(Harmless) /\ ReadRecords(log.count) \in Seq(Harmless)
      BY <1>4, <3>1, DoIsSeq, ReadRecordsHarmless
    <3> QED BY <3>2, Join
  <2>3. CASE script'["rx"] = Tail(script["rx"])
    BY <1>1, <2>1, <2>3, ConsoleTail DEF ConsoleScript
  <2>4. CASE script'["rx"] # Tail(script["rx"])
    BY <1>3, <2>2, <2>4, NothingHarmless DEF ConsoleScript
  <2> QED BY <2>3, <2>4
<1>6. NotifierScript'
  BY <1>2, <1>3, UserTask DEF Discipline, NotifierScript, Notifies
<1>7. /\ log' \in [ready : BOOLEAN, count : Nat, at : 0..MaxRecords + 1, retry : BOOLEAN,
                   rec : {Erased} \cup Records]
      /\ log'.at = log.at /\ log'.rec = log.rec /\ log'.count \in {0, log.count}
  <2>1. \/ log' = log \/ log' = [log EXCEPT !.ready = FALSE] \/ log' = [log EXCEPT !.ready = TRUE]
        \/ log' = [log EXCEPT !.count = 0]
    BY Zenon, <1>1
  <2> DEFINE Logs == [ready : BOOLEAN, count : Nat, at : 0..MaxRecords + 1, retry : BOOLEAN,
                      rec : {Erased} \cup Records]
  <2>2. log \in Logs
    BY <1>4
  <2>3. CASE log' = log
    BY <2>2, <2>3
  <2>4. CASE log' = [log EXCEPT !.ready = FALSE]
    BY <2>2, <2>4
  <2>5. CASE log' = [log EXCEPT !.ready = TRUE]
    BY <2>2, <2>5
  <2>6. CASE log' = [log EXCEPT !.count = 0]
    BY <2>2, <2>6
  <2> QED BY <2>1, <2>3, <2>4, <2>5, <2>6
<1> QED BY <1>1, <1>2, <1>3, <1>4, <1>5, <1>6, <1>7, Elsewhere

(***************************************************************************)
(* Delays.                                                                 *)
(***************************************************************************)
LEMMA StartDelayPreserves ==
  ASSUME Discipline, NEW t \in Task, StartDelay(t)
  PROVE  Discipline'
<1>1. /\ Doing(t, {"dly"}) /\ Step(t, "call", "dly") /\ script' = script /\ got' = got
      /\ sem' = sem /\ chip' = chip /\ queue' = queue /\ log' = log /\ kept' = kept
      /\ overtaken' = overtaken
  BY DEF StartDelay, flashVars, logVars
<1>2. /\ pc[t] = "call" /\ pc' = [pc EXCEPT ![t] = "dly"] /\ pc'[t] = "dly"
      /\ \A u \in Task : u # t => pc'[u] = pc[u]
      /\ t = "flashlog" => ~queue.wai
  BY <1>1, Running
<1>3. t # "mpuirq"
  <2>1. ASSUME t = "mpuirq" PROVE FALSE
    <3>1. script[t] # <<>> /\ Head(script[t]).op = "dly"
      BY <1>1 DEF Doing
    <3> QED BY <2>1, <3>1, NotifyDoes DEF Discipline, NotifierScript
  <2> QED BY <2>1
<1>4. FlashTypes'
  BY <1>1, <1>2 DEF Discipline, FlashTypes
<1>5. ConsoleScript' /\ LogScript' /\ NotifierScript'
  BY <1>1, <1>2, <1>3, UserTask DEF Discipline, ConsoleScript, LogScript, NotifierScript, Notifies, Scans
<1>6. \A u \in Task : InFlash(u)' <=> InFlash(u)
  BY <1>2 DEF InFlash, flashing
<1>7. Calls'
  <2>1. ASSUME NEW u \in Task
        PROVE  /\ InFlash(u)' => Doing(u, reads \cup writes \cup {"wait_ready"})'
               /\ pc'[u] \in {"poll", "poll_dly"} => Doing(u, writes \cup {"wait_ready"})'
               /\ pc'[u] = "exec_dly" => Doing(u, writes)'
               /\ pc'[u] = "dly" => Doing(u, {"dly"})'
    BY <1>1, <1>2, <1>6 DEF Discipline, Calls, Doing
  <2>2. queue'.wai => /\ pc'["flashlog"] = "call" /\ script'["flashlog"] = <<>>
                      /\ ~Scans' /\ log'.rec = Erased /\ queue'.msg = <<>>
    BY <1>1, <1>2, UserTask DEF Discipline, Calls, Scans
  <2> QED BY <2>1, <2>2 DEF Calls
<1>8. SemTurn'
  <2>1. \A u \in Task : pc[u] = "exec" => pc'[u] = "exec"
    BY <1>2
  <2> QED BY <1>1, <1>6, <2>1, UserTask DEF Discipline, SemTurn
<1>9. ScanTurn' /\ Scanned'
  BY <1>1, <1>6, UserTask DEF Discipline, ScanTurn, Scanned, Valid, Scans, Waits
<1>10. ReadsCell'
  <2>1. HasRead' => HasRead
    BY <1>1, <1>2, UserTask DEF HasRead, Doing
  <2> QED BY <1>1, <2>1 DEF Discipline, ReadsCell, Place
<1> QED BY <1>4, <1>5, <1>7, <1>8, <1>9, <1>10 DEF Discipline

(* The end of a delay: its call is over, or the task polls again. *)
LEMMA TimeUpFacts ==
  ASSUME Discipline, NEW t \in Task, TimeUp(t)
  PROVE  /\ got' = got /\ sem' = sem /\ chip' = chip /\ queue' = queue /\ log' = log
         /\ kept' = kept /\ overtaken' = overtaken
         /\ pc' = [u \in Task |-> pc'[u]] /\ \A u \in Task : u # t => pc'[u] = pc[u]
         /\ script' = [u \in Task |-> script'[u]]
         /\ \A u \in Task : u # t => script'[u] = script[u]
         /\ \/ pc[t] = "dly" /\ pc'[t] = "call" /\ script'[t] = Tail(script[t])
            \/ pc[t] = "exec_dly" /\ pc'[t] = "exec" /\ script' = script
            \/ pc[t] = "poll_dly" /\ pc'[t] = "poll" /\ script' = script
<1>1. /\ got' = got /\ sem' = sem /\ chip' = chip /\ queue' = queue /\ log' = log /\ kept' = kept
      /\ overtaken' = overtaken
  BY DEF TimeUp, flashVars, logVars
<1>2. \/ /\ pc[t] = "dly" /\ pc' = [pc EXCEPT ![t] = "call"]
         /\ script' = [script EXCEPT ![t] = Tail(@)]
      \/ pc[t] = "exec_dly" /\ pc' = [pc EXCEPT ![t] = "exec"] /\ script' = script
      \/ pc[t] = "poll_dly" /\ pc' = [pc EXCEPT ![t] = "poll"] /\ script' = script
  BY DEF TimeUp
<1>3. pc = [u \in Task |-> pc[u]] /\ script = [u \in Task |-> script[u]]
  BY DEF Discipline, FlashTypes
<1>4. /\ pc' = [u \in Task |-> pc'[u]] /\ \A u \in Task : u # t => pc'[u] = pc[u]
      /\ script' = [u \in Task |-> script'[u]]
      /\ \A u \in Task : u # t => script'[u] = script[u]
  BY <1>2, <1>3
<1>5. \/ pc[t] = "dly" /\ pc'[t] = "call" /\ script'[t] = Tail(script[t])
      \/ pc[t] = "exec_dly" /\ pc'[t] = "exec" /\ script' = script
      \/ pc[t] = "poll_dly" /\ pc'[t] = "poll" /\ script' = script
  BY <1>2, <1>3
<1> QED BY <1>1, <1>4, <1>5

LEMMA TimeUpPreserves ==
  ASSUME Discipline, NEW t \in Task, TimeUp(t)
  PROVE  Discipline'
<1>1. /\ got' = got /\ sem' = sem /\ chip' = chip /\ queue' = queue /\ log' = log /\ kept' = kept
      /\ overtaken' = overtaken
  BY TimeUpFacts
<1>2. /\ pc' = [u \in Task |-> pc'[u]] /\ \A u \in Task : u # t => pc'[u] = pc[u]
      /\ script' = [u \in Task |-> script'[u]]
      /\ \A u \in Task : u # t => script'[u] = script[u]
      /\ \/ pc[t] = "dly" /\ pc'[t] = "call" /\ script'[t] = Tail(script[t])
         \/ pc[t] = "exec_dly" /\ pc'[t] = "exec" /\ script' = script
         \/ pc[t] = "poll_dly" /\ pc'[t] = "poll" /\ script' = script
  BY TimeUpFacts
<1>3. t # "mpuirq"
  BY <1>2 DEF Discipline, NotifierScript
<1>4. FlashTypes'
  BY <1>1, <1>2 DEF Discipline, FlashTypes, flashing
<1>5. NotifierScript'
  BY <1>2, <1>3, UserTask DEF Discipline, NotifierScript, Notifies
<1>6. \A u \in Task : InFlash(u)' <=> InFlash(u)
  BY <1>2 DEF InFlash, flashing
<1>7. pc[t] = "dly" => script[t] # <<>> /\ Head(script[t]).op = "dly"
  BY DEF Discipline, Calls, Doing
<1>8. ConsoleScript'
  <2>1. CASE t = "rx" /\ pc[t] = "dly"
    <3>1. ~Notifies("rx") /\ script'["rx"] = Tail(script["rx"]) /\ script["rx"] # <<>>
      BY <1>2, <1>7, <2>1, NotifyDoes
    <3> QED BY <3>1, ConsoleTail DEF ConsoleScript
  <2>2. CASE t # "rx" \/ pc[t] # "dly"
    <3>1. script'["rx"] = script["rx"]
      BY <1>2, <2>2, UserTask
    <3> QED BY <3>1 DEF Discipline, ConsoleScript, Notifies
  <2> QED BY <2>1, <2>2
<1>9. /\ script'["flashlog"] = script["flashlog"] /\ (HasRead' => HasRead)
      \/ /\ log.at = 0 /\ log.rec = Erased /\ Scans /\ script["flashlog"] = Retry
         /\ script'["flashlog"] = Do("query", 0) /\ pc'["flashlog"] = "call"
         /\ ~InFlash("flashlog")'
  <2>1. CASE t = "flashlog" /\ pc[t] = "dly"
    <3>1. Head(script["flashlog"]).op = "dly"
      BY <1>7, <2>1
    <3>2. log.at = 0 /\ log.rec = Erased /\ Scans /\ script["flashlog"] = Retry
          /\ Tail(script["flashlog"]) = Do("query", 0)
      BY <1>7, <2>1, <3>1, LogDoes DEF Single
    <3> QED BY <1>2, <2>1, <3>2 DEF InFlash, flashing
  <2>2. CASE t # "flashlog" \/ pc[t] # "dly"
    <3>1. script'["flashlog"] = script["flashlog"]
      BY <1>2, <2>2, UserTask
    <3>2. pc'["flashlog"] \in {"unlock", "call"} => pc["flashlog"] = pc'["flashlog"]
      BY <1>2, <2>2, UserTask
    <3> QED BY <3>1, <3>2 DEF HasRead, Doing
  <2> QED BY <2>1, <2>2
<1>10. LogScript'
  BY <1>1, <1>9 DEF Discipline, LogScript, Scans
<1>11. Calls'
  <2>1. ASSUME NEW u \in Task
        PROVE  /\ InFlash(u)' => Doing(u, reads \cup writes \cup {"wait_ready"})'
               /\ pc'[u] \in {"poll", "poll_dly"} => Doing(u, writes \cup {"wait_ready"})'
               /\ pc'[u] = "exec_dly" => Doing(u, writes)'
               /\ pc'[u] = "dly" => Doing(u, {"dly"})'
    <3>1. CASE u = t /\ pc[t] = "dly"
      BY <1>2, <3>1 DEF InFlash, flashing
    <3>2. CASE u # t \/ pc[t] # "dly"
      <4>1. script'[u] = script[u]
        BY <1>2, <3>2
      <4>2. /\ pc'[u] \in {"poll", "poll_dly"} => pc[u] \in {"poll", "poll_dly"}
            /\ pc'[u] = "exec_dly" => pc[u] = "exec_dly"
            /\ pc'[u] = "dly" => pc[u] = "dly"
        BY <1>2
      <4> QED BY <1>6, <4>1, <4>2 DEF Discipline, Calls, Doing
    <3> QED BY <3>1, <3>2
  <2>2. queue'.wai => /\ pc'["flashlog"] = "call" /\ script'["flashlog"] = <<>>
                      /\ ~Scans' /\ log'.rec = Erased /\ queue'.msg = <<>>
    BY <1>1, <1>2, UserTask DEF Discipline, Calls, Scans
  <2> QED BY <2>1, <2>2 DEF Calls
<1>12. SemTurn'
  <2>1. \A u \in Task : pc[u] = "exec" => pc'[u] = "exec"
    BY <1>2
  <2> QED BY <1>1, <1>6, <2>1, UserTask DEF Discipline, SemTurn
<1>13. ScanTurn'
  <2>1. Scans' = Scans /\ log'.at = log.at /\ \A u : Waits(u)' <=> Waits(u)
    BY <1>1 DEF Scans, Waits
  <2> QED BY <1>6, <1>9, <2>1, DoFacts, UserTask DEF Discipline, ScanTurn
<1>14. Scanned'
  BY <1>1 DEF Discipline, Scanned, Valid
<1>15. ReadsCell'
  <2>1. 0 \notin Slot /\ Place' = Place
    BY <1>1, EndFacts DEF Slot, Place
  <2> QED BY <1>1, <1>9, <2>1 DEF Discipline, ReadsCell, Place
<1> QED BY <1>4, <1>5, <1>8, <1>10, <1>11, <1>12, <1>13, <1>14, <1>15 DEF Discipline

(***************************************************************************)
(* The log task.                                                           *)
(***************************************************************************)
(* What the updates of the log keep and change. *)
LEMMA LogAgain ==
  ASSUME Discipline, log' = [log EXCEPT !.at = 0, !.retry = TRUE]
  PROVE  /\ log' \in [ready : BOOLEAN, count : Nat, at : 0..MaxRecords + 1, retry : BOOLEAN,
                     rec : {Erased} \cup Records]
         /\ log'.at = 0 /\ log'.rec = log.rec /\ log'.count = log.count
<1> DEFINE Slots == 0..MaxRecords + 1
           Logs == [ready : BOOLEAN, count : Nat, at : Slots, retry : BOOLEAN,
                    rec : {Erased} \cup Records]
<1>1. log \in Logs
  BY DEF Discipline, FlashTypes
<1>2. 0 \in Slots
  BY EndFacts
<1> HIDE DEF Slots
<1>3. log' \in Logs /\ log'.at = 0 /\ log'.rec = log.rec /\ log'.count = log.count
  BY <1>1, <1>2
<1> QED BY <1>3 DEF Slots

LEMMA LogNext ==
  ASSUME Discipline, NEW n \in Slot, log' = [log EXCEPT !.at = n, !.count = 0]
  PROVE  /\ log' \in [ready : BOOLEAN, count : Nat, at : 0..MaxRecords + 1, retry : BOOLEAN,
                     rec : {Erased} \cup Records]
         /\ log'.at = n /\ log'.rec = log.rec /\ log'.count = 0
<1> DEFINE Slots == 0..MaxRecords + 1
           Logs == [ready : BOOLEAN, count : Nat, at : Slots, retry : BOOLEAN,
                    rec : {Erased} \cup Records]
<1>1. log \in Logs
  BY DEF Discipline, FlashTypes
<1>2. n \in Slots /\ 0 \in Nat
  BY EndFacts DEF Slot
<1> HIDE DEF Slots
<1>3. log' \in Logs /\ log'.at = n /\ log'.rec = log.rec /\ log'.count = 0
  BY <1>1, <1>2
<1> QED BY <1>3 DEF Slots

LEMMA LogServed ==
  ASSUME Discipline, NEW n \in 0..MaxRecords,
         log' = [log EXCEPT !.ready = TRUE, !.count = n, !.at = MaxRecords + 1, !.retry = FALSE]
  PROVE  /\ log' \in [ready : BOOLEAN, count : Nat, at : 0..MaxRecords + 1, retry : BOOLEAN,
                     rec : {Erased} \cup Records]
         /\ log'.at = MaxRecords + 1 /\ log'.rec = log.rec /\ log'.count = n
<1> DEFINE Slots == 0..MaxRecords + 1
           Logs == [ready : BOOLEAN, count : Nat, at : Slots, retry : BOOLEAN,
                    rec : {Erased} \cup Records]
<1>1. log \in Logs
  BY DEF Discipline, FlashTypes
<1>2. MaxRecords + 1 \in Slots /\ n \in Nat
  BY EndFacts
<1> HIDE DEF Slots
<1>3. log' \in Logs /\ log'.at = MaxRecords + 1 /\ log'.rec = log.rec /\ log'.count = n
  BY <1>1, <1>2
<1> QED BY <1>3 DEF Slots

LEMMA LogCounted ==
  ASSUME Discipline, log' = [log EXCEPT !.rec = Erased, !.count = @ + 1]
  PROVE  /\ log' \in [ready : BOOLEAN, count : Nat, at : 0..MaxRecords + 1, retry : BOOLEAN,
                     rec : {Erased} \cup Records]
         /\ log'.at = log.at /\ log'.rec = Erased /\ log'.count = log.count + 1 /\ log'.ready = log.ready
<1> DEFINE Slots == 0..MaxRecords + 1
           Logs == [ready : BOOLEAN, count : Nat, at : Slots, retry : BOOLEAN,
                    rec : {Erased} \cup Records]
<1>1. log \in Logs
  BY DEF Discipline, FlashTypes
<1>2. log.count + 1 \in Nat
  BY <1>1
<1> HIDE DEF Slots
<1>3. log' \in Logs /\ log'.at = log.at /\ log'.rec = Erased /\ log'.count = log.count + 1 /\ log'.ready = log.ready
  BY <1>1, <1>2
<1> QED BY <1>3 DEF Slots

LEMMA LogStep ==
  ASSUME Discipline, pc' = pc, pc["flashlog"] = "call", sem' = sem, chip' = chip,
         got' = [u \in User |-> got'[u]], got'["flashlog"] \in Contents,
         script' = [u \in Task |-> script'[u]],
         \A u \in Task : u # "flashlog" => script'[u] = script[u],
         log' \in [ready : BOOLEAN, count : Nat, at : 0..MaxRecords + 1, retry : BOOLEAN,
                   rec : {Erased} \cup Records],
         queue' \in [msg : Seq(Events), wai : BOOLEAN],
         queue'.wai => /\ script'["flashlog"] = <<>> /\ ~Scans' /\ log'.rec = Erased
                       /\ queue'.msg = <<>>,
         kept' \in SUBSET Nat, overtaken' \in BOOLEAN,
         LogScript', ScanTurn', Scanned', ReadsCell'
  PROVE  Discipline'
<1>1. FlashTypes'
  BY DEF Discipline, FlashTypes
<1>2. script'["rx"] = script["rx"] /\ script'["mpuirq"] = script["mpuirq"]
  BY UserTask
<1>3. ConsoleScript' /\ NotifierScript'
  BY <1>2 DEF Discipline, ConsoleScript, NotifierScript, Notifies
<1>4. Calls' /\ SemTurn'
  BY UserTask, OutsideFlash
<1> QED BY <1>1, <1>3, <1>4 DEF Discipline

(* What a scan finds, and what it does then.                               *)
LEMMA ScanSteps ==
  ASSUME Discipline, flashlog_scan
  PROVE  /\ Step("flashlog", "call", "call") /\ script["flashlog"] = <<>>
         /\ Scans /\ log.rec = Erased /\ log.count = 0 /\ ~InFlash("rx")
         /\ queue' = queue /\ kept' = kept /\ got' = got
         /\ \/ /\ log' = [log EXCEPT !.at = 0, !.retry = TRUE] /\ overtaken' = overtaken
               /\ \/ script' = [script EXCEPT !["flashlog"] = Retry]
                  \/ script' = [script EXCEPT !["flashlog"] = Do("query", 0)]
            \/ \E n \in Slot :
                 /\ log' = [log EXCEPT !.at = n, !.count = 0] /\ overtaken' = overtaken
                 /\ script' = [script EXCEPT !["flashlog"] = Do("read", n)]
                 /\ (n # 1 => chip.busy = Idle) /\ \A j \in 1..n - 1 : Valid(j)
            \/ \E n \in 0..MaxRecords :
                 /\ log' = [log EXCEPT !.ready = TRUE, !.count = n, !.at = MaxRecords + 1,
                                       !.retry = FALSE]
                 /\ overtaken' = (overtaken \/
                      (/\ script["rx"] # <<>> /\ Last(script["rx"]).op = "ready"
                       /\ ~(/\ \A k \in DOMAIN script["rx"] : script["rx"][k].op # "erase"
                            /\ queue.msg = <<>>)))
                 /\ script' = script /\ chip.busy = Idle /\ \A j \in 1..n : Valid(j)
                 /\ n < MaxRecords => chip.cell[n + 1] = Erased
<1> DEFINE i == log.at
           over == (overtaken \/
                      (/\ script["rx"] # <<>> /\ Last(script["rx"]).op = "ready"
                       /\ ~(/\ \A k \in DOMAIN script["rx"] : script["rx"][k].op # "erase"
                            /\ queue.msg = <<>>)))
           accepts == record_is_valid(got["flashlog"]) /\ got["flashlog"].seq = i
           Serve(n) == /\ log' = [log EXCEPT !.ready = TRUE, !.count = n, !.at = MaxRecords + 1,
                                                !.retry = FALSE]
                       /\ overtaken' = over
                       /\ script' = script
           Read(n)  == /\ log' = [log EXCEPT !.at = n, !.count = 0]
                       /\ script' = [script EXCEPT !["flashlog"] = Do("read", n)]
                       /\ overtaken' = overtaken
           Again == /\ log' = [log EXCEPT !.at = 0, !.retry = TRUE] /\ overtaken' = overtaken
                    /\ script' = [script EXCEPT !["flashlog"] =
                          (IF log.retry THEN Do("dly", 0) ELSE <<>>) \o Do("query", 0)]
<1>1. /\ i <= MaxRecords /\ script["flashlog"] = <<>> /\ Step("flashlog", "call", "call")
      /\ queue' = queue /\ kept' = kept /\ got' = got
  BY DEF flashlog_scan, Called
<1>2. \/ i = 0 /\ Read(1)
      \/ i > 0 /\ got["flashlog"] = Erased /\ Serve(i - 1)
      \/ i > 0 /\ accepts /\ i = MaxRecords /\ Serve(i)
      \/ i > 0 /\ accepts /\ i # MaxRecords /\ Read(i + 1)
      \/ Again
  BY DEF flashlog_scan
<1> HIDE DEF over, Again
<1>3. MaxRecords \in Nat /\ MaxRecords >= 1 /\ i \in 0..MaxRecords /\ Slot = 1..MaxRecords
  BY <1>1, EndFacts DEF Discipline, FlashTypes, Slot
<1>4. Scans /\ log.rec = Erased /\ log.count = 0 /\ ~InFlash("rx")
  BY <1>1 DEF Scans, Discipline, LogScript, ScanTurn
<1>5. ASSUME i > 0, got["flashlog"] = Erased \/ accepts
      PROVE  /\ i \in Slot /\ chip.busy = Idle /\ got["flashlog"] = chip.cell[i]
             /\ \A j \in 1..i - 1 : Valid(j)
             /\ accepts => Valid(i)
  <2>1. i \in Slot /\ Place = i /\ HasRead
    BY <1>1, <1>3, <1>4, <1>5, Running, UserTask DEF Place, HasRead
  <2>2. got["flashlog"] \notin {Failed, Garbage}
    BY <1>5, Contained DEF record_is_valid
  <2>3. chip.busy = Idle /\ got["flashlog"] = chip.cell[i]
    BY <2>1, <2>2 DEF Discipline, ReadsCell
  <2>4. \A j \in 1..i - 1 : Valid(j)
    BY <2>1 DEF Discipline, Scanned
  <2> QED BY <2>1, <2>3, <2>4 DEF Valid
<1>6. ASSUME i = 0, Read(1)
      PROVE  \E n \in Slot : Read(n) /\ (n # 1 => chip.busy = Idle) /\ \A j \in 1..n - 1 : Valid(j)
  <2>1. 1 \in Slot /\ \A j \in 1..1 - 1 : Valid(j)
    BY <1>3
  <2> HIDE DEF Read
  <2> QED BY <1>6, <2>1
<1>7. ASSUME i > 0, got["flashlog"] = Erased, Serve(i - 1)
      PROVE  \E n \in 0..MaxRecords : /\ Serve(n) /\ chip.busy = Idle /\ \A j \in 1..n : Valid(j)
                                      /\ n < MaxRecords => chip.cell[n + 1] = Erased
  <2>1. i - 1 \in 0..MaxRecords /\ (i - 1) + 1 = i
    BY <1>3, <1>7
  <2> HIDE DEF Serve
  <2> QED BY <1>5, <1>7, <2>1
<1>8. ASSUME i > 0, accepts, i = MaxRecords, Serve(i)
      PROVE  \E n \in 0..MaxRecords : /\ Serve(n) /\ chip.busy = Idle /\ \A j \in 1..n : Valid(j)
                                      /\ n < MaxRecords => chip.cell[n + 1] = Erased
  <2>1. i \in 0..MaxRecords /\ \A j \in 1..i : j = i \/ j \in 1..i - 1
    BY <1>3, <1>8
  <2> HIDE DEF Serve
  <2> QED BY <1>5, <1>8, <2>1
<1>9. ASSUME i > 0, accepts, i # MaxRecords, Read(i + 1)
      PROVE  \E n \in Slot : Read(n) /\ (n # 1 => chip.busy = Idle) /\ \A j \in 1..n - 1 : Valid(j)
  <2>1. i + 1 \in Slot /\ (i + 1) - 1 = i /\ \A j \in 1..i : j = i \/ j \in 1..i - 1
    BY <1>3, <1>9
  <2>2. chip.busy = Idle /\ \A j \in 1..(i + 1) - 1 : Valid(j)
    BY <1>5, <1>9, <2>1
  <2> HIDE DEF Read
  <2> QED BY <1>9, <2>1, <2>2
<1>10. ASSUME Again
       PROVE  /\ log' = [log EXCEPT !.at = 0, !.retry = TRUE] /\ overtaken' = overtaken
              /\ \/ script' = [script EXCEPT !["flashlog"] = Retry]
                 \/ script' = [script EXCEPT !["flashlog"] = Do("query", 0)]
  <2> DEFINE q == Do("query", 0)
  <2>1. <<>> \o q = q
    <3>1. q \in Seq({Single("query", 0)})
      BY DoIsSeq
    <3> HIDE DEF q
    <3> QED BY <3>1, ConcatEmptySeq
  <2>2. CASE log.retry
    BY <1>10, <2>2 DEF Again, Retry
  <2>3. CASE ~log.retry
    BY <1>10, <2>1, <2>3 DEF Again
  <2> QED BY <2>2, <2>3
<1>11. \/ /\ log' = [log EXCEPT !.at = 0, !.retry = TRUE] /\ overtaken' = overtaken
          /\ \/ script' = [script EXCEPT !["flashlog"] = Retry]
             \/ script' = [script EXCEPT !["flashlog"] = Do("query", 0)]
       \/ \E n \in Slot : Read(n) /\ (n # 1 => chip.busy = Idle) /\ \A j \in 1..n - 1 : Valid(j)
       \/ \E n \in 0..MaxRecords : /\ Serve(n) /\ chip.busy = Idle /\ \A j \in 1..n : Valid(j)
                                   /\ n < MaxRecords => chip.cell[n + 1] = Erased
  <2> HIDE DEF Serve, Read, accepts
  <2> QED BY <1>2, <1>6, <1>7, <1>8, <1>9, <1>10
<1> QED BY Zenon, <1>1, <1>4, <1>11 DEF over

LEMMA ScanPreserves ==
  ASSUME Discipline, flashlog_scan, UNCHANGED <<sem, chip>>
  PROVE  Discipline'
<1>1. /\ Step("flashlog", "call", "call") /\ script["flashlog"] = <<>>
      /\ Scans /\ log.rec = Erased /\ log.count = 0 /\ ~InFlash("rx")
      /\ queue' = queue /\ kept' = kept /\ got' = got /\ sem' = sem /\ chip' = chip
  BY ScanSteps
<1>2. pc' = pc /\ pc["flashlog"] = "call" /\ ~queue.wai
  BY <1>1, CallScript, UserTask
<1>3. MaxRecords \in Nat /\ MaxRecords >= 1 /\ Slot = 1..MaxRecords
  BY EndFacts DEF Slot
<1>4. /\ log \in [ready : BOOLEAN, count : Nat, at : 0..MaxRecords + 1, retry : BOOLEAN,
                  rec : {Erased} \cup Records]
      /\ queue \in [msg : Seq(Events), wai : BOOLEAN] /\ kept \in SUBSET Nat /\ overtaken \in BOOLEAN
      /\ got = [u \in User |-> got[u]] /\ got["flashlog"] \in Contents
      /\ script = [u \in Task |-> script[u]]
  BY DEF Discipline, FlashTypes
<1>5. ~InFlash("rx")' /\ ~InFlash("flashlog")'
  BY <1>1, <1>2 DEF InFlash, flashing
<1>6. ASSUME log' = [log EXCEPT !.at = 0, !.retry = TRUE], overtaken' = overtaken,
             NEW s \in {Retry, Do("query", 0)}, script' = [script EXCEPT !["flashlog"] = s]
      PROVE  Discipline'
  <2>1. /\ log' \in [ready : BOOLEAN, count : Nat, at : 0..MaxRecords + 1, retry : BOOLEAN,
                     rec : {Erased} \cup Records]
        /\ log'.at = 0 /\ log'.rec = Erased /\ log'.count = 0
    BY <1>1, <1>6, LogAgain
  <2>2. /\ script'["flashlog"] = s /\ script' = [u \in Task |-> script'[u]]
        /\ \A u \in Task : u # "flashlog" => script'[u] = script[u]
    BY <1>4, <1>6, UserTask
  <2>3. LogScript'
    BY <2>1, <2>2 DEF LogScript
  <2>4. ScanTurn'
    BY <1>5 DEF ScanTurn
  <2>5. Scanned' /\ ReadsCell'
    BY <1>3, <2>1 DEF Scanned, ReadsCell, Place
  <2> QED BY <1>1, <1>2, <1>4, <1>6, <2>1, <2>2, <2>3, <2>4, <2>5, LogStep
<1>7. ASSUME NEW n \in Slot, log' = [log EXCEPT !.at = n, !.count = 0], overtaken' = overtaken,
             script' = [script EXCEPT !["flashlog"] = Do("read", n)],
             n # 1 => chip.busy = Idle, \A j \in 1..n - 1 : Valid(j)
      PROVE  Discipline'
  <2>1. /\ log' \in [ready : BOOLEAN, count : Nat, at : 0..MaxRecords + 1, retry : BOOLEAN,
                     rec : {Erased} \cup Records]
        /\ log'.at = n /\ log'.rec = Erased /\ log'.count = 0
    BY <1>1, <1>7, LogNext
  <2>2. /\ script'["flashlog"] = Do("read", n) /\ script' = [u \in Task |-> script'[u]]
        /\ \A u \in Task : u # "flashlog" => script'[u] = script[u]
    BY <1>4, <1>7, UserTask
  <2>3. LogScript'
    BY <2>1, <2>2 DEF LogScript
  <2>4. ScanTurn'
    BY <1>5 DEF ScanTurn
  <2>5. Scanned'
    BY <1>1, <1>7, <2>1 DEF Scanned, Valid
  <2>6. ReadsCell'
    BY <1>2, <2>2, DoFacts DEF ReadsCell, HasRead
  <2> QED BY <1>1, <1>2, <1>4, <1>7, <2>1, <2>2, <2>3, <2>4, <2>5, <2>6, LogStep
<1>8. ASSUME NEW n \in 0..MaxRecords, overtaken' \in BOOLEAN, script' = script,
             log' = [log EXCEPT !.ready = TRUE, !.count = n, !.at = MaxRecords + 1, !.retry = FALSE]
      PROVE  Discipline'
  <2>1. /\ log' \in [ready : BOOLEAN, count : Nat, at : 0..MaxRecords + 1, retry : BOOLEAN,
                     rec : {Erased} \cup Records]
        /\ log'.at = MaxRecords + 1 /\ log'.rec = Erased
    BY <1>1, <1>8, LogServed
  <2>2. ~Scans' /\ MaxRecords + 1 \notin Slot
    <3>1. MaxRecords + 1 \notin Slot /\ MaxRecords + 1 > MaxRecords
      BY <1>3
    <3> QED BY <1>3, <2>1, <3>1 DEF Scans
  <2>3. LogScript'
    BY <1>1, <1>8, <2>1, <2>2 DEF LogScript
  <2>4. ScanTurn'
    BY <1>5 DEF ScanTurn
  <2>5. Scanned' /\ ReadsCell'
    BY <2>1, <2>2 DEF Scanned, ReadsCell, Place
  <2>6. script' = [u \in Task |-> script'[u]]
    BY <1>4, <1>8
  <2> QED BY <1>1, <1>2, <1>4, <1>8, <2>1, <2>3, <2>4, <2>5, <2>6, LogStep
<1>9. CASE /\ log' = [log EXCEPT !.at = 0, !.retry = TRUE] /\ overtaken' = overtaken
           /\ \/ script' = [script EXCEPT !["flashlog"] = Retry]
              \/ script' = [script EXCEPT !["flashlog"] = Do("query", 0)]
  BY <1>6, <1>9
<1>10. CASE \E n \in Slot :
              /\ log' = [log EXCEPT !.at = n, !.count = 0] /\ overtaken' = overtaken
              /\ script' = [script EXCEPT !["flashlog"] = Do("read", n)]
              /\ (n # 1 => chip.busy = Idle) /\ \A j \in 1..n - 1 : Valid(j)
  BY <1>7, <1>10
<1>11. CASE \E n \in 0..MaxRecords :
              /\ log' = [log EXCEPT !.ready = TRUE, !.count = n, !.at = MaxRecords + 1,
                                    !.retry = FALSE]
              /\ script' = script
              /\ overtaken' = (overtaken \/
                      (/\ script["rx"] # <<>> /\ Last(script["rx"]).op = "ready"
                       /\ ~(/\ \A k \in DOMAIN script["rx"] : script["rx"][k].op # "erase"
                            /\ queue.msg = <<>>)))
  <2>1. overtaken' \in BOOLEAN
    BY <1>11
  <2> QED BY <1>8, <1>11, <2>1
<1> QED BY Zenon, <1>9, <1>10, <1>11, ScanSteps

LEMMA ReceiveSteps ==
  ASSUME Discipline, Receive
  PROVE  /\ Step("flashlog", "call", "call") /\ script["flashlog"] = <<>>
         /\ ~Scans /\ log.rec = Erased /\ log.at = MaxRecords + 1
         /\ kept' = kept /\ overtaken' = overtaken /\ got' = got
         /\ \/ /\ queue.msg = <<>> /\ queue' = [queue EXCEPT !.wai = TRUE]
               /\ script' = script /\ log' = log
            \/ /\ queue.msg # <<>> /\ queue' = [queue EXCEPT !.msg = Tail(@)]
               /\ script' = script /\ log' = log
            \/ /\ queue.msg # <<>> /\ queue' = [queue EXCEPT !.msg = Tail(@)]
               /\ log.count < MaxRecords
               /\ \E r \in Records :
                    /\ r.seq = log.count + 1 /\ log' = [log EXCEPT !.rec = r]
                    /\ script' = [script EXCEPT !["flashlog"] = Append1(r)]
<1>1. /\ log.at > MaxRecords /\ log.rec = Erased
      /\ Step("flashlog", "call", "call") /\ script["flashlog"] = <<>>
      /\ kept' = kept /\ overtaken' = overtaken /\ got' = got
  BY DEF Receive, Called
<1>2. MaxRecords \in Nat /\ log.count \in Nat /\ log.at \in 0..MaxRecords + 1
      /\ queue \in [msg : Seq(Events), wai : BOOLEAN]
  BY EndFacts DEF Discipline, FlashTypes
<1>3. ~Scans /\ log.at = MaxRecords + 1
  BY <1>1, <1>2 DEF Scans
<1>4. CASE queue.msg = <<>>
  <2>1. queue' = [queue EXCEPT !.wai = TRUE] /\ script' = script /\ log' = log
    BY <1>4 DEF Receive
  <2> QED BY <1>1, <1>3, <1>4, <2>1
<1>5. CASE queue.msg # <<>> /\ log.count >= MaxRecords
  <2>1. queue' = [queue EXCEPT !.msg = Tail(@)] /\ script' = script /\ log' = log
    BY <1>5 DEF Receive
  <2> QED BY <1>1, <1>3, <1>5, <2>1
<1>6. CASE queue.msg # <<>> /\ ~(log.count >= MaxRecords)
  <2> DEFINE r == Record(log.count + 1, Head(queue.msg))
  <2>1. /\ queue' = [queue EXCEPT !.msg = Tail(@)] /\ log' = [log EXCEPT !.rec = r]
        /\ script' = [script EXCEPT !["flashlog"] =
                        Write("program", log.count + 1, r) \o Do("read", log.count + 1)]
    BY <1>6 DEF Receive
  <2>2. Head(queue.msg) \in Events
    BY <1>2, <1>6, HeadTailProperties
  <2>3. log.count + 1 \in Slot
    BY <1>2, <1>6 DEF Slot
  <2>4. r \in Records /\ r.seq = log.count + 1
    BY <2>2, <2>3, Contained DEF Records
  <2> HIDE DEF r
  <2>5. script' = [script EXCEPT !["flashlog"] = Append1(r)]
    BY Zenon, <2>1, <2>4 DEF Append1
  <2>6. ~(log.count >= MaxRecords) => log.count < MaxRecords
    BY <1>2
  <2> QED BY Zenon, <1>1, <1>3, <1>6, <2>1, <2>4, <2>5, <2>6
<1> QED BY <1>4, <1>5, <1>6

LEMMA ReceivePreserves ==
  ASSUME Discipline, Receive, UNCHANGED <<sem, chip>>
  PROVE  Discipline'
<1>1. /\ Step("flashlog", "call", "call") /\ script["flashlog"] = <<>>
      /\ ~Scans /\ log.rec = Erased /\ log.at = MaxRecords + 1
      /\ kept' = kept /\ overtaken' = overtaken /\ got' = got /\ sem' = sem /\ chip' = chip
  BY ReceiveSteps
<1>2. pc' = pc /\ pc["flashlog"] = "call" /\ ~queue.wai
  BY <1>1, CallScript, UserTask
<1>3. MaxRecords \in Nat /\ MaxRecords >= 1 /\ Slot = 1..MaxRecords /\ MaxRecords + 1 \notin Slot
  BY EndFacts DEF Slot
<1>4. /\ log \in [ready : BOOLEAN, count : Nat, at : 0..MaxRecords + 1, retry : BOOLEAN,
                  rec : {Erased} \cup Records]
      /\ queue \in [msg : Seq(Events), wai : BOOLEAN] /\ kept \in SUBSET Nat /\ overtaken \in BOOLEAN
      /\ got = [u \in User |-> got[u]] /\ got["flashlog"] \in Contents
      /\ script = [u \in Task |-> script[u]]
  BY DEF Discipline, FlashTypes
<1>5. ASSUME script' = script, log' = log, queue' \in [msg : Seq(Events), wai : BOOLEAN],
             queue'.wai => queue'.msg = <<>>
      PROVE  Discipline'
  <2>1. Scans' = Scans
    BY <1>5 DEF Scans
  <2>2. LogScript' /\ ScanTurn' /\ Scanned'
    BY <1>1, <1>2, <1>5, <2>1 DEF Discipline, LogScript, ScanTurn, Scanned, Valid
  <2>3. ReadsCell'
    BY <1>1, <1>3, <1>5 DEF ReadsCell, Place
  <2>4. script' = [u \in Task |-> script'[u]]
    BY <1>4, <1>5
  <2> QED BY <1>1, <1>2, <1>4, <1>5, <2>1, <2>2, <2>3, <2>4, LogStep
<1>6. ASSUME queue.msg = <<>>, queue' = [queue EXCEPT !.wai = TRUE]
      PROVE  queue' \in [msg : Seq(Events), wai : BOOLEAN] /\ queue'.msg = <<>>
  BY <1>4, <1>6
<1>7. ASSUME queue.msg # <<>>, queue' = [queue EXCEPT !.msg = Tail(@)]
      PROVE  queue' \in [msg : Seq(Events), wai : BOOLEAN] /\ ~queue'.wai
  <2> DEFINE m == Tail(queue.msg)
  <2>1. m \in Seq(Events)
    BY <1>4, <1>7, HeadTailProperties
  <2>2. queue' = [queue EXCEPT !.msg = m]
    BY <1>7
  <2> HIDE DEF m
  <2> QED BY <1>2, <1>4, <2>1, <2>2
<1>8. ASSUME NEW r \in Records, log' = [log EXCEPT !.rec = r],
             script' = [script EXCEPT !["flashlog"] = Append1(r)],
             queue' \in [msg : Seq(Events), wai : BOOLEAN], ~queue'.wai
      PROVE  Discipline'
  <2>1. /\ log' \in [ready : BOOLEAN, count : Nat, at : 0..MaxRecords + 1, retry : BOOLEAN,
                     rec : {Erased} \cup Records]
        /\ log'.at = log.at /\ log'.rec = r
    BY <1>4, <1>8
  <2>2. Scans' = Scans
    BY <2>1 DEF Scans
  <2>3. /\ script'["flashlog"] = Append1(r) /\ script' = [u \in Task |-> script'[u]]
        /\ \A u \in Task : u # "flashlog" => script'[u] = script[u]
    BY <1>4, <1>8, UserTask
  <2>4. LogScript' /\ ScanTurn'
    BY <1>1, <2>1, <2>2, <2>3 DEF LogScript, ScanTurn
  <2>5. Scanned'
    BY <1>1, <1>3, <2>1 DEF Scanned
  <2>6. ReadsCell'
    BY <1>2, <2>3, LogScripts DEF ReadsCell, HasRead
  <2> QED BY <1>1, <1>2, <1>4, <1>8, <2>1, <2>3, <2>4, <2>5, <2>6, LogStep
<1> QED BY <1>5, <1>6, <1>7, <1>8, ReceiveSteps

LEMMA VerifySteps ==
  ASSUME Discipline, Verify
  PROVE  /\ Step("flashlog", "call", "call") /\ script["flashlog"] = <<>>
         /\ ~Scans /\ log.rec \in Records /\ log.at = MaxRecords + 1
         /\ queue' = queue /\ overtaken' = overtaken /\ script' = script
         /\ got' = [got EXCEPT !["flashlog"] = Erased]
         /\ \/ /\ chip.busy = Idle /\ chip.cell[log.rec.seq] = log.rec
               /\ log' = [log EXCEPT !.rec = Erased, !.count = @ + 1]
               /\ kept' = IF log.ready THEN kept \cup {log.count + 1} ELSE kept
            \/ /\ log' = [log EXCEPT !.rec = Erased] /\ kept' = kept
<1>1. /\ log.at > MaxRecords /\ log.rec # Erased
      /\ Step("flashlog", "call", "call") /\ script["flashlog"] = <<>>
      /\ queue' = queue /\ overtaken' = overtaken /\ script' = script
      /\ got' = [got EXCEPT !["flashlog"] = Erased]
  BY DEF Verify, Called
<1>2. MaxRecords \in Nat /\ log.at \in 0..MaxRecords + 1 /\ log.rec \in Records
  BY <1>1, EndFacts DEF Discipline, FlashTypes
<1>3. ~Scans /\ log.at = MaxRecords + 1
  BY <1>1, <1>2 DEF Scans
<1>4. CASE got["flashlog"] = log.rec
  <2>1. /\ log' = [log EXCEPT !.rec = Erased, !.count = @ + 1]
        /\ kept' = IF log.ready THEN kept \cup {log.count + 1} ELSE kept
    BY <1>4 DEF Verify
  <2>2. Place = log.rec.seq /\ Place \in Slot /\ HasRead
    BY <1>1, <1>2, Contained, Running, UserTask DEF Place, HasRead
  <2>3. log.rec \notin {Failed, Garbage}
    BY <1>2, NotRecords
  <2>4. chip.busy = Idle /\ chip.cell[log.rec.seq] = log.rec
    BY <1>4, <2>2, <2>3 DEF Discipline, ReadsCell
  <2> QED BY <1>1, <1>2, <1>3, <2>1, <2>4
<1>5. CASE got["flashlog"] # log.rec
  <2>1. log' = [log EXCEPT !.rec = Erased] /\ kept' = kept
    BY <1>5 DEF Verify
  <2> QED BY <1>1, <1>2, <1>3, <2>1
<1> QED BY <1>4, <1>5

LEMMA VerifyPreserves ==
  ASSUME Discipline, Verify, UNCHANGED <<sem, chip>>
  PROVE  Discipline'
<1>1. /\ Step("flashlog", "call", "call") /\ script["flashlog"] = <<>>
      /\ ~Scans /\ log.rec \in Records /\ log.at = MaxRecords + 1
      /\ queue' = queue /\ overtaken' = overtaken /\ script' = script
      /\ got' = [got EXCEPT !["flashlog"] = Erased]
      /\ sem' = sem /\ chip' = chip
  BY VerifySteps
<1>2. pc' = pc /\ pc["flashlog"] = "call" /\ ~queue.wai
  BY <1>1, CallScript, UserTask
<1>3. MaxRecords \in Nat /\ MaxRecords >= 1 /\ Slot = 1..MaxRecords /\ MaxRecords + 1 \notin Slot
  BY EndFacts DEF Slot
<1>4. /\ log \in [ready : BOOLEAN, count : Nat, at : 0..MaxRecords + 1, retry : BOOLEAN,
                  rec : {Erased} \cup Records]
      /\ queue \in [msg : Seq(Events), wai : BOOLEAN] /\ kept \in SUBSET Nat /\ overtaken \in BOOLEAN
      /\ got = [u \in User |-> got[u]] /\ got["flashlog"] \in Contents
      /\ script = [u \in Task |-> script[u]]
  BY DEF Discipline, FlashTypes
<1>5. /\ log' \in [ready : BOOLEAN, count : Nat, at : 0..MaxRecords + 1, retry : BOOLEAN,
                   rec : {Erased} \cup Records]
      /\ log'.at = log.at /\ log'.rec = Erased /\ kept' \in SUBSET Nat
  <2>1. CASE log' = [log EXCEPT !.rec = Erased] /\ kept' = kept
    BY <1>4, <2>1
  <2>2. CASE /\ log' = [log EXCEPT !.rec = Erased, !.count = @ + 1]
             /\ kept' = IF log.ready THEN kept \cup {log.count + 1} ELSE kept
    <3>1. kept' \in SUBSET Nat
      <4>1. log.count + 1 \in Nat
        BY <1>4
      <4> QED BY <1>4, <2>2, <4>1
    <3> QED BY <2>2, <3>1, LogCounted
  <2> QED BY <2>1, <2>2, VerifySteps
<1>6. Scans' = Scans
  BY <1>5 DEF Scans
<1>7. LogScript' /\ ScanTurn'
  BY <1>1, <1>5, <1>6 DEF LogScript, ScanTurn
<1>8. Scanned' /\ ReadsCell'
  BY <1>1, <1>3, <1>5 DEF Scanned, ReadsCell, Place
<1>9. /\ got' = [u \in User |-> got'[u]] /\ got'["flashlog"] \in Contents
      /\ script' = [u \in Task |-> script'[u]]
  BY <1>1, <1>4, UserTask, Contained
<1> QED BY <1>1, <1>2, <1>4, <1>5, <1>7, <1>8, <1>9, LogStep

(***************************************************************************)
(* The start, and every step.                                              *)
(***************************************************************************)
LEMMA Started ==
  ASSUME pc = [t \in Task |-> "call"], script = AtStart, got = [t \in User |-> Erased],
         sem = FreeSem, queue = Empty, log = NotReady,
         chip \in [cell : [Slot -> Contents], busy : Jobs], chip.busy = Idle,
         kept \in SUBSET Nat, overtaken \in BOOLEAN
  PROVE  Discipline
<1>1. MaxRecords \in Nat /\ MaxRecords >= 1 /\ 0 \notin Slot
  BY EndFacts DEF Slot
<1>2. /\ script["flashlog"] = Do("query", 0) /\ script["rx"] = <<>> /\ script["mpuirq"] = <<>>
      /\ script = [t \in Task |-> script[t]]
  BY UserTask DEF AtStart
<1>3. \A t \in Task : pc[t] = "call"
  OBVIOUS
<1>4. log.at = 0 /\ log.rec = Erased /\ log.count = 0 /\ Scans /\ ~queue.wai
  BY <1>1 DEF NotReady, Empty, Scans
<1>5. FlashTypes
  <2>1. log \in [ready : BOOLEAN, count : Nat, at : 0..MaxRecords + 1, retry : BOOLEAN,
                 rec : {Erased} \cup Records]
    BY <1>1 DEF NotReady
  <2>2. queue \in [msg : Seq(Events), wai : BOOLEAN]
    BY DEF Empty
  <2>3. Idle.cmd = "none"
    BY DEF Idle
  <2> QED BY <1>2, <1>3, <2>1, <2>2, <2>3, UserTask, Contained DEF FlashTypes
<1>6. ConsoleScript /\ NotifierScript
  BY <1>2, <1>3, NothingHarmless, UserTask DEF ConsoleScript, NotifierScript
<1>7. LogScript
  BY <1>2, <1>4 DEF LogScript
<1>8. Calls /\ SemTurn /\ ScanTurn
  BY <1>3, <1>4, UserTask DEF Calls, SemTurn, ScanTurn, InFlash, flashing
<1>9. Scanned /\ ReadsCell
  BY <1>1, <1>4 DEF Scanned, ReadsCell, Place
<1> QED BY <1>5, <1>6, <1>7, <1>8, <1>9 DEF Discipline

LEMMA InitDiscipline == Init => Discipline
<1> SUFFICES ASSUME Init PROVE Discipline
  OBVIOUS
<1>1. chip \in [cell : [Slot -> Contents], busy : Jobs] /\ chip.busy = Idle
  <2>1. chip = [cell |-> [i \in Slot |-> Erased], busy |-> Idle]
    BY DEF Init
  <2>2. [i \in Slot |-> Erased] \in [Slot -> Contents] /\ Idle \in Jobs
    BY Contained DEF Idle, Jobs
  <2> QED BY <2>1, <2>2
<1>2. /\ pc = [t \in Task |-> "call"] /\ script = AtStart /\ got = [t \in User |-> Erased]
      /\ sem = FreeSem /\ queue = Empty /\ log = NotReady
      /\ kept \in SUBSET Nat /\ overtaken \in BOOLEAN
  BY DEF Init
<1> QED BY <1>1, <1>2, Started

(* What a reset leaves in the cells.                                       *)
LEMMA TornFacts ==
  ASSUME Discipline, NEW cell \in Torn(chip.busy)
  PROVE  /\ cell \in [Slot -> Contents]
         /\ chip.busy = Idle => cell = chip.cell
         /\ chip.busy.cmd = "program" => \A i \in Slot : cell[i] = chip.cell[i] \/ i = chip.busy.slot
         /\ chip.busy.slot \notin Slot => cell = chip.cell
<1>1. chip.cell \in [Slot -> Contents] /\ chip.busy \in Jobs
      /\ (chip.busy.cmd = "none" <=> chip.busy = Idle)
  BY DEF Discipline, FlashTypes
<1>2. Idle.slot \notin Slot
  BY EndFacts DEF Idle, Slot
<1>3. CASE cell = chip.cell
  BY <1>1, <1>3
<1>4. CASE cell \in Effects(chip.busy)
  BY <1>2, <1>4, EffectFacts
<1>5. CASE /\ chip.busy.slot \in Slot /\ chip.busy.cmd = "program"
           /\ \E r \in {Garbage, Part(chip.busy.rec)} : cell = [chip.cell EXCEPT ![chip.busy.slot] = r]
  <2>1. PICK r \in {Garbage, Part(chip.busy.rec)} : cell = [chip.cell EXCEPT ![chip.busy.slot] = r]
    BY <1>5
  <2>2. r \in Contents
    BY <1>1, Contained DEF Jobs
  <2> QED BY <1>1, <1>2, <1>5, <2>1, <2>2
<1>6. CASE /\ chip.busy.slot \in Slot /\ chip.busy.cmd # "program"
           /\ \E done \in SUBSET Slot, half \in SUBSET Slot :
                cell = [i \in Slot |-> IF i \in done THEN Erased ELSE IF i \in half THEN Garbage
                                       ELSE chip.cell[i]]
  <2>1. PICK done \in SUBSET Slot, half \in SUBSET Slot :
          cell = [i \in Slot |-> IF i \in done THEN Erased ELSE IF i \in half THEN Garbage
                                 ELSE chip.cell[i]]
    BY <1>6
  <2>2. cell \in [Slot -> Contents]
    BY <1>1, <2>1, Contained
  <2> QED BY <1>2, <1>6, <2>2
<1> QED BY <1>3, <1>4, <1>5, <1>6 DEF Torn

LEMMA ResetPreserves ==
  ASSUME Discipline, Reset
  PROVE  Discipline'
<1>1. /\ pc' = [t \in Task |-> "call"] /\ script' = AtStart /\ got' = [t \in User |-> Erased]
      /\ sem' = FreeSem /\ queue' = Empty /\ log' = NotReady
      /\ kept' = kept /\ overtaken' = overtaken
  BY DEF Reset, Boot
<1>2. PICK cell \in Torn(chip.busy) : chip' = [cell |-> cell, busy |-> Idle]
  BY DEF Reset
<1>3. chip' \in [cell : [Slot -> Contents], busy : Jobs] /\ chip'.busy = Idle
  <2>1. cell \in [Slot -> Contents]
    BY TornFacts
  <2>2. Idle \in Jobs
    BY Contained DEF Idle, Jobs
  <2> QED BY <1>2, <2>1, <2>2
<1>4. MaxRecords \in Nat /\ MaxRecords >= 1 /\ 0 \notin Slot
  BY EndFacts DEF Slot
<1>5. /\ script'["flashlog"] = Do("query", 0) /\ script'["rx"] = <<>> /\ script'["mpuirq"] = <<>>
      /\ script' = [t \in Task |-> script'[t]]
  BY <1>1, UserTask DEF AtStart
<1>6. \A t \in Task : pc'[t] = "call"
  BY <1>1
<1>7. log'.at = 0 /\ log'.rec = Erased /\ log'.count = 0 /\ Scans' /\ ~queue'.wai
  BY <1>1, <1>4 DEF NotReady, Empty, Scans
<1>8. FlashTypes'
  <2>1. log' \in [ready : BOOLEAN, count : Nat, at : 0..MaxRecords + 1, retry : BOOLEAN,
                  rec : {Erased} \cup Records]
    BY <1>1, <1>4 DEF NotReady
  <2>2. queue' \in [msg : Seq(Events), wai : BOOLEAN]
    BY <1>1 DEF Empty
  <2>3. Idle.cmd = "none"
    BY DEF Idle
  <2>4. kept' \in SUBSET Nat /\ overtaken' \in BOOLEAN
    BY <1>1 DEF Discipline, FlashTypes
  <2> QED BY <1>1, <1>3, <1>5, <1>6, <2>1, <2>2, <2>3, <2>4, UserTask, Contained DEF FlashTypes
<1>9. ConsoleScript' /\ NotifierScript'
  BY <1>5, <1>6, NothingHarmless, UserTask DEF ConsoleScript, NotifierScript
<1>10. LogScript'
  BY <1>5, <1>7 DEF LogScript
<1>11. Calls' /\ SemTurn' /\ ScanTurn'
  BY <1>1, <1>6, <1>7, UserTask DEF Calls, SemTurn, ScanTurn, InFlash, flashing
<1>12. Scanned' /\ ReadsCell'
  BY <1>4, <1>7 DEF Scanned, ReadsCell, Place
<1> QED BY <1>8, <1>9, <1>10, <1>11, <1>12 DEF Discipline

LEMMA DisciplineNext == Discipline /\ [Next]_vars => Discipline'
<1> SUFFICES ASSUME Discipline, [Next]_vars PROVE Discipline'
  OBVIOUS
<1>1. CASE \E t \in Task : TaskStep(t) \/ TimeUp(t)
  <2>1. PICK t \in Task : TaskStep(t) \/ TimeUp(t)
    BY <1>1
  <2>2. CASE t = "flashlog" /\ task_flashlog
    BY <2>2, ScanPreserves, ReceivePreserves, VerifyPreserves DEF task_flashlog
  <2>3. CASE FlashCall(t) \/ StartDelay(t) \/ Notify(t) \/ TimeUp(t) \/ LogCommand
    BY <2>3, FlashCallPreserves, StartDelayPreserves, NotifyPreserves, TimeUpPreserves,
       LogCommandPreserves
  <2> QED BY <2>1, <2>2, <2>3 DEF TaskStep
<1>2. CASE \E c \in Commands : Command(c)
  BY <1>2, CommandPreserves
<1>3. CASE \E e \in {"MOVING", "STOPPED"} : Report(e)
  BY <1>3, ReportPreserves DEF Events
<1>4. CASE Complete
  BY <1>4, CompletePreserves
<1>5. CASE Reset
  BY <1>5, ResetPreserves
<1>6. CASE UNCHANGED vars
  BY <1>6 DEF vars, flashVars, logVars, Discipline, FlashTypes, ConsoleScript, NotifierScript, Notifies,
              LogScript, Scans, Calls, InFlash, Doing, SemTurn, ScanTurn, Waits, Scanned, Valid,
              ReadsCell, Place, HasRead
<1> QED BY <1>1, <1>2, <1>3, <1>4, <1>5, <1>6 DEF Next

(***************************************************************************)
(* The inductive invariant, second part: what the cells hold, as long as   *)
(* no scan was done while the log was to be erased.                        *)
(***************************************************************************)

(* What was counted since the last clearing began is there, and all before *)
(* it; the scan must find it.                                              *)
Solid == \A i \in kept : i \in Slot /\ chip.cell[i].whole /\ \A j \in 1..i : Valid(j)

Counted ==
  /\ log.ready /\ ~Scans => \A i \in 1..log.count : Valid(i)
  /\ ~Scans => \A i \in kept : i <= log.count
  /\ (~log.ready /\ ~Scans) \/ (log.ready /\ Scans) => kept = {}
  /\ log.rec # Erased => log.rec.seq = log.count + 1
  /\ log.count <= MaxRecords

(* What the chip has yet to do spares it. *)
BusyKept ==
  /\ chip.busy.cmd = "erase" /\ chip.busy.slot \in Slot => kept = {} /\ ~log.ready
  /\ chip.busy.cmd = "program" /\ chip.busy.slot \in Slot =>
       (\A i \in kept : i < chip.busy.slot) /\ (log.ready => log.count < chip.busy.slot)

(* After the erase either the log task keeps away from the erased sector,  *)
(* or what it writes is in a cell that is still to be verified, or it is   *)
(* about to run, before the console does.                                  *)
AllErased == chip.busy = Idle /\ \A i \in Slot : chip.cell[i] = Erased

Quiet ==
  /\ AllErased /\ log.rec = Erased
  /\ Scans \/ (pc["flashlog"] = "call" /\ script["flashlog"] = <<>> /\ queue.msg = <<>>)

Dirty(i) ==
  /\ ~Scans /\ ~log.ready /\ chip.busy.cmd # "erase"
  /\ \E x \in i..MaxRecords :
       chip.cell[x] # Erased \/ (chip.busy.cmd = "program" /\ chip.busy.slot = x)

HandOver ==
  ~Scans /\ ~log.ready /\ AllErased /\ pc["rx"] = "call" /\ "flashlog" \in Ready

ClearingAt(k) ==
  /\ k >= 2 => kept = {}
  /\ k \in 2..3 => ~log.ready
  /\ k >= 4 /\ log.ready => Quiet
  /\ k = 3 /\ pc["rx"] \in {"poll", "poll_dly"} =>
       AllErased \/ (chip.busy.cmd = "erase" /\ chip.busy.slot = 1)
  /\ k = 3 /\ pc["rx"] = "unlock" /\ got["rx"] # Failed => AllErased
  /\ k \in 4..End - 2 /\ pc["rx"] = "unlock" /\ got["rx"] = Erased =>
       chip.busy = Idle /\ chip.cell[k - 3] = Erased
  /\ k \in 4..End - 2 => Quiet \/ Dirty(k - 3) \/ (k = 4 /\ HandOver)
  /\ k >= End - 1 => Quiet
  /\ k = End => log.count = 0

Clearing == \A k \in 1..End : Rest(script["rx"], k) => ClearingAt(k)

Recorded == Solid /\ Counted /\ BusyKept /\ Clearing

LEMMA SameRecords ==
  ASSUME Recorded, chip' = chip, log' = log, kept' = kept
  PROVE  Solid' /\ Counted' /\ BusyKept'
BY DEF Recorded, Solid, Counted, BusyKept, Valid, Scans

LEMMA LogReady ==
  /\ "flashlog" \in Ready <=> ~Waits("flashlog") /\ pc["flashlog"] \notin Delayed /\ ~queue.wai
  /\ ("flashlog" \in Ready <=> ~Waits("flashlog") /\ pc["flashlog"] \notin Delayed /\ ~queue.wai)'
BY UserTask DEF Ready, Waits

(* What the console does next in a clearing.                               *)
LEMMA ClearDoes ==
  ASSUME Discipline, NEW k \in 1..End, Rest(script["rx"], k)
  PROVE  /\ script["rx"] # <<>> /\ Head(script["rx"]) = ClearStep(k)
         /\ \A ops : Doing("rx", ops) <=> ClearStep(k).op \in ops
         /\ Arg("rx") = ClearStep(k).arg
         /\ pc["rx"] # "dly"
         /\ k # 3 => pc["rx"] \in {"call", "exec", "unlock"}
         /\ pc["rx"] \in flashing => k \in 2..End - 2
<1>1. script["rx"] # <<>> /\ Head(script["rx"]) = ClearStep(k)
  BY RestFacts
<1>2. \A ops : Doing("rx", ops) <=> ClearStep(k).op \in ops
  BY <1>1 DEF Doing
<1>3. pc["rx"] # "dly"
  BY <1>2, ClearShape, UserTask DEF Discipline, Calls
<1>4. ASSUME k # 3 PROVE pc["rx"] \in {"call", "exec", "unlock"}
  <2>1. ClearStep(k).op \notin writes \cup {"wait_ready"}
    BY <1>4, ClearShape DEF writes
  <2>2. pc["rx"] \notin {"poll", "poll_dly", "exec_dly"}
    BY <1>2, <2>1, UserTask DEF Discipline, Calls, writes
  <2> QED BY <1>3, <2>2, UserTask DEF Discipline, FlashTypes, flashing
<1>5. ASSUME pc["rx"] \in flashing PROVE k \in 2..End - 2
  <2>1. ClearStep(k).op \in reads \cup writes \cup {"wait_ready"}
    BY <1>2, <1>5, UserTask DEF Discipline, Calls, InFlash
  <2>2. k \notin {1, End - 1, End}
    BY <2>1, ClearShape DEF reads, writes
  <2> QED BY <2>2, EndFacts
<1> QED BY <1>1, <1>2, <1>3, <1>4, <1>5 DEF Arg

LEMMA NotClearing ==
  ASSUME Discipline, \/ script["rx"] \in Seq(Harmless)
                     \/ Notifies("rx")
                     \/ script["rx"] # <<>> /\ Head(script["rx"]).op \in {"dump", "dly", "ask", "send"},
         NEW k
  PROVE  ~Rest(script["rx"], k)
<1> SUFFICES ASSUME Rest(script["rx"], k) PROVE FALSE
  OBVIOUS
<1>1. script["rx"] # <<>> /\ Head(script["rx"]).op = ClearStep(k).op /\ k \in 1..End
  BY RestFacts
<1>2. script["rx"] \notin Seq(Harmless)
  BY NoRest
<1>3. ClearStep(k).op \notin {"dump", "dly", "ask", "send"}
  BY <1>1, ClearShape
<1> QED BY <1>1, <1>2, <1>3, NotifyDoes

(* A step that leaves the console where it is in its clearing.             *)
LEMMA ClearingStays ==
  ASSUME Discipline, Recorded, script'["rx"] = script["rx"], log'.ready = log.ready,
         kept' = kept \/ (log.ready /\ ~Quiet),
         pc'["rx"] \in {"poll", "poll_dly", "unlock"} =>
           pc'["rx"] = pc["rx"] /\ got'["rx"] = got["rx"] /\ chip' = chip,
         Quiet => Quiet' /\ log'.count \in {0, log.count},
         \A i \in Slot : Dirty(i) => Dirty(i)',
         HandOver => Quiet' \/ Dirty(1)' \/ HandOver'
  PROVE  Clearing'
<1> SUFFICES ASSUME NEW k \in 1..End, Rest(script["rx"], k)
             PROVE  ClearingAt(k)'
  BY DEF Clearing, Rest
<1>1. ClearingAt(k)
  BY DEF Recorded, Clearing
<1>2. End \in Nat /\ End >= 6 /\ End = MaxRecords + 5 /\ MaxRecords \in Nat /\ Slot = 1..MaxRecords
  BY EndFacts DEF Slot
<1>3. k >= 2 => kept' = {}
  BY <1>1, <1>2 DEF ClearingAt
<1>4. k \in 2..3 => ~log'.ready
  BY <1>1 DEF ClearingAt
<1>5. k >= 4 /\ log'.ready => Quiet'
  BY <1>1 DEF ClearingAt
<1>6. k = 3 /\ pc'["rx"] \in {"poll", "poll_dly"} =>
        AllErased' \/ (chip'.busy.cmd = "erase" /\ chip'.busy.slot = 1)
  BY <1>1 DEF ClearingAt, AllErased
<1>7. k = 3 /\ pc'["rx"] = "unlock" /\ got'["rx"] # Failed => AllErased'
  BY <1>1 DEF ClearingAt, AllErased
<1>8. k \in 4..End - 2 /\ pc'["rx"] = "unlock" /\ got'["rx"] = Erased =>
        chip'.busy = Idle /\ chip'.cell[k - 3] = Erased
  BY <1>1 DEF ClearingAt
<1>9. k \in 4..End - 2 => Quiet' \/ Dirty(k - 3)' \/ (k = 4 /\ HandOver')
  <2>1. ASSUME k \in 4..End - 2
        PROVE  k - 3 \in Slot /\ (k = 4 => k - 3 = 1) /\ (Quiet \/ Dirty(k - 3) \/ (k = 4 /\ HandOver))
    BY <1>1, <1>2, <2>1 DEF ClearingAt
  <2> QED BY <2>1
<1>10. k >= End - 1 => Quiet'
  BY <1>1 DEF ClearingAt
<1>11. k = End => log'.count = 0
  BY <1>1, <1>2 DEF ClearingAt
<1> QED BY <1>3, <1>4, <1>5, <1>6, <1>7, <1>8, <1>9, <1>10, <1>11 DEF ClearingAt

(* Steps of the console change neither the cells nor the log task.         *)
LEMMA ConsoleMoves ==
  ASSUME log' = log, chip' = chip, queue' = queue, pc'["flashlog"] = pc["flashlog"],
         script'["flashlog"] = script["flashlog"]
  PROVE  (Quiet => Quiet') /\ \A i : Dirty(i) => Dirty(i)'
BY DEF Quiet, AllErased, Dirty, Scans

(* Steps of the log task within its calls.                                 *)
LEMMA LogMoves ==
  ASSUME log' = log, chip' = chip, pc'["rx"] = pc["rx"],
         script["flashlog"] # <<>> \/ pc["flashlog"] # "call",
         HandOver => "flashlog" \in Ready'
  PROVE  /\ Quiet => Quiet'
         /\ \A i : Dirty(i) => Dirty(i)'
         /\ HandOver => HandOver'
<1>1. Quiet => Quiet'
  BY DEF Quiet, AllErased, Scans
<1>2. \A i : Dirty(i) => Dirty(i)'
  BY DEF Dirty, Scans
<1>3. HandOver => HandOver'
  BY DEF HandOver, AllErased, Scans
<1> QED BY <1>1, <1>2, <1>3

LEMMA LockKeeps ==
  ASSUME Discipline, Recorded, NEW t \in User, w25qxx_lock(t), UNCHANGED logVars
  PROVE  Recorded'
<1>1. /\ Step(t, "call", "exec") /\ sem' = tk_wai_sem(sem, t) /\ script' = script
      /\ got' = got /\ chip' = chip /\ script[t] # <<>>
      /\ queue' = queue /\ log' = log /\ kept' = kept
  BY DEF w25qxx_lock, Doing, logVars
<1>2. /\ pc[t] = "call" /\ pc'[t] = "exec" /\ \A u \in Task : u # t => pc'[u] = pc[u]
      /\ ~Waits(t)
      /\ t = "rx" => "flashlog" \notin Ready
      /\ t = "flashlog" => ~queue.wai
  BY <1>1, Running, UserTask
<1>3. Solid' /\ Counted' /\ BusyKept'
  BY <1>1, SameRecords
<1>4. CASE t = "rx"
  <2>1. pc'["rx"] = "exec" /\ pc'["flashlog"] = pc["flashlog"]
    BY <1>2, <1>4, UserTask
  <2>2. (Quiet => Quiet') /\ \A i : Dirty(i) => Dirty(i)'
    BY <1>1, <2>1, ConsoleMoves
  <2>3. ~HandOver
    BY <1>2, <1>4 DEF HandOver
  <2>4. Clearing'
    BY <1>1, <2>1, <2>2, <2>3, ClearingStays
  <2> QED BY <1>3, <2>4 DEF Recorded
<1>5. CASE t = "flashlog"
  <2>1. pc'["flashlog"] = "exec" /\ pc["flashlog"] = "call" /\ pc'["rx"] = pc["rx"]
    BY <1>2, <1>5, UserTask
  <2>2. ASSUME HandOver PROVE "flashlog" \in Ready'
    <3>1. ~InFlash("rx") /\ ~InFlash("flashlog")
      BY <2>1, <2>2 DEF HandOver, InFlash, flashing
    <3>2. sem = FreeSem
      BY <3>1, UserTask, NotHolding
    <3>3. ~Waits("flashlog")'
      <4>1. sem' = Held /\ ToSet(Held.wai) = {}
        BY <1>1, <3>2, SemValues
      <4> QED BY <4>1 DEF Waits
    <3> QED BY <1>1, <1>2, <1>5, <2>1, <3>3, LogReady DEF Delayed
  <2>3. (Quiet => Quiet') /\ (\A i : Dirty(i) => Dirty(i)') /\ (HandOver => HandOver')
    BY <1>1, <1>5, <2>1, <2>2, LogMoves
  <2>4. Clearing'
    BY <1>1, <2>1, <2>3, ClearingStays
  <2> QED BY <1>3, <2>4 DEF Recorded
<1> QED BY <1>4, <1>5, UserTask

(* The log task in the flash: the console is not.                          *)
LEMMA LogInFlash ==
  ASSUME Discipline, InFlash("flashlog"), ~Waits("flashlog")
  PROVE  pc["rx"] \notin {"poll", "poll_dly", "unlock"} /\ script["flashlog"] # <<>>
<1>1. ~InFlash("rx") \/ pc["rx"] = "exec"
  BY UserTask, Holding
<1>2. script["flashlog"] # <<>>
  BY UserTask DEF Discipline, Calls, Doing
<1> QED BY <1>1, <1>2 DEF InFlash, flashing

LEMMA LogCallKeeps ==
  ASSUME Discipline, Recorded, NEW from \in flashing, NEW to, Step("flashlog", from, to),
         chip' = chip, log' = log, kept' = kept, queue' = queue, script'["rx"] = script["rx"],
         sem' = sem \/ sem' = tk_sig_sem(sem),
         to \notin Delayed \/ chip.busy # Idle
  PROVE  Recorded'
<1>1. /\ pc["flashlog"] = from /\ pc'["flashlog"] = to /\ pc'["rx"] = pc["rx"]
      /\ ~Waits("flashlog") /\ ~queue.wai /\ InFlash("flashlog")
  BY Running, UserTask DEF InFlash
<1>2. pc["rx"] \notin {"poll", "poll_dly", "unlock"} /\ script["flashlog"] # <<>>
  BY <1>1, LogInFlash
<1>3. ~Waits("flashlog")'
  <2>1. sem = Held \/ sem = HeldFor("rx")
    BY <1>1, UserTask, Holding
  <2>2. sem' \in {Held, HeldFor("rx"), FreeSem}
    BY <2>1, SemValues
  <2>3. /\ "flashlog" \notin ToSet(Held.wai) /\ "flashlog" \notin ToSet(FreeSem.wai)
        /\ "flashlog" \notin ToSet(HeldFor("rx").wai)
    <3>1. ToSet(Held.wai) = {} /\ ToSet(FreeSem.wai) = {} /\ ToSet(HeldFor("rx").wai) = {"rx"}
      BY SemValues
    <3> QED BY <3>1
  <2> QED BY <2>2, <2>3 DEF Waits
<1>4. HandOver => "flashlog" \in Ready'
  BY <1>1, <1>3, LogReady DEF HandOver, AllErased
<1>5. (Quiet => Quiet') /\ (\A i : Dirty(i) => Dirty(i)') /\ (HandOver => HandOver')
  BY <1>1, <1>2, <1>4, LogMoves
<1>6. Clearing'
  BY <1>1, <1>2, <1>5, ClearingStays
<1> QED BY <1>6, SameRecords DEF Recorded

LEMMA ReadKeeps ==
  ASSUME Discipline, Recorded, NEW t \in User, w25qxx_read(t), UNCHANGED logVars
  PROVE  Recorded'
<1>1. /\ Step(t, "exec", "unlock") /\ script' = script /\ sem' = sem /\ chip' = chip
      /\ Doing(t, reads) /\ queue' = queue /\ log' = log /\ kept' = kept
      /\ \/ got' = [got EXCEPT ![t] = IF Doing(t, {"query"}) THEN Erased
                                      ELSE IF chip.busy = Idle THEN chip.cell[Arg(t)]
                                      ELSE Garbage]
         \/ got' = [got EXCEPT ![t] = Failed]
  BY DEF w25qxx_read, logVars
<1>2. CASE t = "flashlog"
  <2>1. "exec" \in flashing /\ "unlock" \notin Delayed
    BY DEF flashing, Delayed
  <2> QED BY <1>1, <1>2, <2>1, LogCallKeeps
<1>3. CASE t = "rx"
  <2>1. Solid' /\ Counted' /\ BusyKept'
    BY <1>1, SameRecords
  <2>2. /\ pc["rx"] = "exec" /\ pc'["rx"] = "unlock" /\ pc'["flashlog"] = pc["flashlog"]
        /\ "flashlog" \notin Ready
    BY <1>1, <1>3, Running, UserTask
  <2>3. (Quiet => Quiet') /\ \A i : Dirty(i) => Dirty(i)'
    BY <1>1, <2>2, ConsoleMoves
  <2>4. ASSUME NEW k \in 1..End, Rest(script["rx"], k)
        PROVE  ClearingAt(k)'
    <3>1. ClearingAt(k) /\ ~HandOver
      BY <2>2, <2>4 DEF Recorded, Clearing, HandOver
    <3>2. k # 3
      <4>1. ClearStep(k).op \in reads
        BY <1>1, <1>3, <2>4, ClearDoes
      <4> QED BY <4>1, ClearShape DEF reads
    <3>3. ASSUME k \in 4..End - 2, got'["rx"] = Erased
          PROVE  chip'.busy = Idle /\ chip'.cell[k - 3] = Erased
      <4>1. ~Doing("rx", {"query"}) /\ Arg("rx") = k - 3
        BY <2>4, <3>3, ClearDoes, ClearShape
      <4>2. got'["rx"] \in {Failed, Garbage} \/ (chip.busy = Idle /\ got'["rx"] = chip.cell[k - 3])
        BY <1>1, <1>3, <4>1, UserTask DEF Discipline, FlashTypes
      <4>3. Erased # Failed /\ Erased # Garbage
        BY Contained
      <4> QED BY <1>1, <3>3, <4>2, <4>3
    <3> QED BY <1>1, <2>2, <2>3, <3>1, <3>2, <3>3 DEF ClearingAt
  <2>5. Clearing'
    BY <1>1, <2>4 DEF Clearing, Rest
  <2> QED BY <2>1, <2>5 DEF Recorded
<1> QED BY <1>2, <1>3, UserTask

(* What the chip is told to do.                                            *)
LEMMA SendKeeps ==
  ASSUME Discipline, Recorded, NEW t \in User, Send(t), UNCHANGED logVars
  PROVE  Recorded'
<1>1. /\ Doing(t, writes) /\ chip.busy = Idle /\ script' = script /\ sem' = sem
      /\ queue' = queue /\ log' = log /\ kept' = kept
  BY DEF Send, logVars
<1>2. PICK rec \in {Arg(t).rec, Part(Arg(t).rec), Garbage} :
        /\ \/ rec = Arg(t).rec /\ Step(t, "exec", "poll") /\ got' = got
           \/ Step(t, "exec", "unlock") /\ got' = [got EXCEPT ![t] = Failed]
        /\ chip' = [chip EXCEPT !.busy =
             [cmd |-> Head(script[t]).op, slot |-> Arg(t).slot, rec |-> rec]]
  BY DEF Send
<1>3. /\ chip'.cell = chip.cell
      /\ chip'.busy.cmd = Head(script[t]).op /\ chip'.busy.slot = Arg(t).slot
      /\ Head(script[t]).op \in writes
  BY <1>1, <1>2 DEF Discipline, FlashTypes, Doing
<1>4. /\ pc[t] = "exec" /\ pc'[t] \in {"poll", "unlock"} /\ \A u \in Task : u # t => pc'[u] = pc[u]
      /\ ~Waits(t)
      /\ t = "rx" => "flashlog" \notin Ready
  BY <1>2, Running, UserTask
<1>5. Solid' /\ Counted'
  BY <1>1, <1>3 DEF Recorded, Solid, Counted, Valid, Scans
<1>6. MaxRecords \in Nat /\ MaxRecords >= 1 /\ Slot = 1..MaxRecords /\ log.count \in Nat
      /\ kept \in SUBSET Nat
  BY EndFacts DEF Slot, Discipline, FlashTypes
<1>7. CASE t = "flashlog"
  <2>1. /\ ~Scans /\ log.rec \in Records /\ Arg(t) = [slot |-> log.rec.seq, rec |-> log.rec]
        /\ Head(script[t]).op = "program"
    BY <1>1, <1>7, LogDoes DEF Doing, writes, Single, Arg
  <2>2. /\ log.rec # Erased /\ log.rec.seq \in Slot
    BY <2>1, NotRecords, Contained
  <2>3. log.rec.seq = log.count + 1 /\ chip'.busy.cmd = "program" /\ chip'.busy.slot = log.rec.seq
    BY <1>3, <2>1, <2>2 DEF Recorded, Counted
  <2>4. BusyKept'
    <3>1. \A i \in kept : i <= log.count
      BY <2>1 DEF Recorded, Counted
    <3>2. ASSUME NEW i \in kept PROVE i < chip'.busy.slot
      <4>1. i \in Nat /\ i <= log.count /\ chip'.busy.slot = log.count + 1 /\ log.count \in Nat
        BY <1>6, <2>3, <3>1
      <4> QED BY <4>1
    <3>3. log.count < chip'.busy.slot
      BY <1>6, <2>3
    <3> QED BY <1>1, <2>3, <3>2, <3>3 DEF BusyKept
  <2>5. pc["rx"] \notin {"poll", "poll_dly", "unlock"} /\ script["flashlog"] # <<>>
    BY <1>4, <1>7, LogInFlash DEF InFlash, flashing
  <2>6. ~Quiet
    BY <2>1, <2>5 DEF Quiet
  <2>7. ASSUME NEW i \in Slot, Dirty(i) PROVE Dirty(i)'
    <3>1. chip.busy.cmd = "none"
      BY <1>1 DEF Idle
    <3> QED BY <1>1, <1>3, <2>3, <2>7, <3>1 DEF Dirty, Scans
  <2>8. HandOver => Dirty(1)'
    <3>1. log.rec.seq \in 1..MaxRecords
      BY <1>6, <2>2
    <3> QED BY <1>1, <2>3, <3>1 DEF HandOver, Dirty, Scans
  <2>9. Clearing'
    <3>1. pc'["rx"] \notin {"poll", "poll_dly", "unlock"}
      BY <1>4, <1>7, <2>5, UserTask
    <3> QED BY <1>1, <2>6, <2>7, <2>8, <3>1, ClearingStays
  <2> QED BY <1>5, <2>4, <2>9 DEF Recorded
<1>8. CASE t = "rx"
  <2>1. script["rx"] # <<>> /\ Head(script["rx"]).op \in writes
    BY <1>1, <1>8 DEF Doing
  <2>2. ~Notifies("rx")
    BY <2>1, NotifyDoes DEF writes
  <2>3. CASE script["rx"] \in Seq(Harmless)
    <3>1. Arg("rx").slot = 0
      BY <2>1, <2>3, HarmlessFacts DEF Arg
    <3>2. BusyKept'
      BY <1>3, <1>6, <1>8, <3>1 DEF BusyKept
    <3>3. Clearing'
      BY <1>1, <2>3, NoRest DEF Clearing, Rest
    <3> QED BY <1>5, <3>2, <3>3 DEF Recorded
  <2>4. CASE \E k \in 1..End : Rest(script["rx"], k)
    <3>1. PICK k \in 1..End : Rest(script["rx"], k)
      BY <2>4
    <3>2. ClearStep(k).op \in writes /\ Head(script["rx"]) = ClearStep(k) /\ Arg("rx") = ClearStep(k).arg
      BY <1>1, <1>8, <3>1, ClearDoes
    <3>3. k = 3 /\ ClearStep(k).op = "erase"
      BY <3>2, ClearShape DEF writes
    <3>4. Arg("rx").slot = 1 /\ chip'.busy.cmd = "erase" /\ chip'.busy.slot = 1
      BY <1>3, <1>8, <3>2, <3>3, ClearShape
    <3>5. kept = {} /\ ~log.ready
      BY <3>1, <3>3 DEF Recorded, Clearing, ClearingAt
    <3>6. BusyKept'
      BY <1>1, <3>4, <3>5 DEF BusyKept
    <3>7. pc'["rx"] = "unlock" => got'["rx"] = Failed
      BY <1>2, <1>8, UserTask, Running DEF Discipline, FlashTypes
    <3>8. ClearingAt(k)'
      BY <1>1, <1>6, <3>3, <3>4, <3>5, <3>7, EndFacts DEF ClearingAt
    <3>9. Clearing'
      <4>1. ASSUME NEW j \in 1..End, Rest(script'["rx"], j) PROVE ClearingAt(j)'
        <5>1. j = k
          BY <1>1, <3>1, <4>1, RestUnique
        <5> QED BY <3>8, <5>1
      <4> QED BY <4>1 DEF Clearing, Rest
    <3> QED BY <1>5, <3>6, <3>9 DEF Recorded
  <2> QED BY <2>2, <2>3, <2>4 DEF Discipline, ConsoleScript
<1> QED BY <1>7, <1>8, UserTask

LEMMA WaitReadyKeeps ==
  ASSUME Discipline, Recorded, NEW t \in User, w25qxx_wait_ready(t), UNCHANGED logVars
  PROVE  Recorded'
<1>1. /\ script' = script /\ sem' = sem /\ chip' = chip
      /\ queue' = queue /\ log' = log /\ kept' = kept
  BY DEF w25qxx_wait_ready, logVars
<1>2. \E from \in {"exec", "poll"}, to \in {"poll", "exec_dly", "poll_dly", "unlock"} :
        /\ Step(t, from, to)
        /\ to \in Delayed => chip.busy # Idle
        /\ to = "poll" => from = "exec" /\ Doing(t, {"wait_ready"})
        /\ to = "poll_dly" => from = "poll"
        /\ to = "unlock" => \/ chip.busy = Idle /\ from = "poll" /\ got' = [got EXCEPT ![t] = Erased]
                            \/ got' = [got EXCEPT ![t] = Failed]
        /\ to = "unlock" => from = "poll" \/ Doing(t, writes)
  BY DEF w25qxx_wait_ready, Delayed
<1>3. PICK from \in {"exec", "poll"}, to \in {"poll", "exec_dly", "poll_dly", "unlock"} :
        /\ Step(t, from, to)
        /\ to \in Delayed => chip.busy # Idle
        /\ to = "poll" => from = "exec" /\ Doing(t, {"wait_ready"})
        /\ to = "poll_dly" => from = "poll"
        /\ to = "unlock" => \/ chip.busy = Idle /\ from = "poll" /\ got' = [got EXCEPT ![t] = Erased]
                            \/ got' = [got EXCEPT ![t] = Failed]
        /\ to = "unlock" => from = "poll" \/ Doing(t, writes)
  BY <1>2
<1>4. /\ pc[t] = from /\ pc'[t] = to /\ \A u \in Task : u # t => pc'[u] = pc[u]
      /\ t = "rx" => "flashlog" \notin Ready
  BY <1>3, Running, UserTask
<1>5. CASE t = "flashlog"
  <2>1. from \in flashing
    BY DEF flashing
  <2> QED BY <1>1, <1>3, <1>5, <2>1, LogCallKeeps
<1>6. CASE t = "rx"
  <2>1. pc["rx"] = from /\ pc'["rx"] = to /\ pc'["flashlog"] = pc["flashlog"] /\ ~HandOver
    BY <1>4, <1>6, UserTask DEF HandOver
  <2>2. (Quiet => Quiet') /\ \A i : Dirty(i) => Dirty(i)'
    BY <1>1, <2>1, ConsoleMoves
  <2>3. ASSUME NEW k \in 1..End, Rest(script["rx"], k)
        PROVE  ClearingAt(k)'
    <3>1. ClearingAt(k)
      BY <2>3 DEF Recorded, Clearing
    <3>2. ASSUME k = 3, pc'["rx"] \in {"poll", "poll_dly"}
          PROVE  AllErased' \/ (chip'.busy.cmd = "erase" /\ chip'.busy.slot = 1)
      <4>1. from = "poll"
        <5>1. ~Doing("rx", {"wait_ready"})
          BY <2>3, <3>2, ClearDoes, ClearShape
        <5> QED BY <1>3, <1>6, <2>1, <3>2, <5>1
      <4> QED BY <1>1, <2>1, <3>1, <3>2, <4>1 DEF ClearingAt, AllErased
    <3>3. ASSUME k = 3, pc'["rx"] = "unlock", got'["rx"] # Failed PROVE AllErased'
      <4>1. chip.busy = Idle /\ from = "poll"
        BY <1>3, <1>6, <2>1, <3>3, UserTask DEF Discipline, FlashTypes
      <4>2. chip.busy.cmd # "erase"
        BY <4>1 DEF Idle
      <4> QED BY <1>1, <2>1, <3>1, <3>3, <4>1, <4>2 DEF ClearingAt, AllErased
    <3>4. k \in 4..End - 2 => pc'["rx"] # "unlock"
      <4>1. ASSUME k \in 4..End - 2, pc'["rx"] = "unlock" PROVE FALSE
        <5>1. k # 3 /\ ClearStep(k).op = "verify"
          BY <4>1, ClearShape
        <5>2. ~Doing("rx", writes) /\ pc["rx"] # "poll"
          BY <2>3, <5>1, ClearDoes DEF writes
        <5> QED BY <1>3, <1>6, <2>1, <4>1, <5>2
      <4> QED BY <4>1
    <3> QED BY <1>1, <2>1, <2>2, <3>1, <3>2, <3>3, <3>4 DEF ClearingAt
  <2>4. Clearing'
    BY <1>1, <2>3 DEF Clearing, Rest
  <2> QED BY <1>1, <2>4, SameRecords DEF Recorded
<1> QED BY <1>5, <1>6, UserTask

(* The console leaves the flash: the next step of the clearing.            *)
LEMMA UnlockKeeps ==
  ASSUME Discipline, Recorded, NEW t \in User, w25qxx_unlock(t), UNCHANGED logVars
  PROVE  Recorded'
<1>1. /\ Step(t, "unlock", "call") /\ sem' = tk_sig_sem(sem) /\ chip' = chip
      /\ script' = [script EXCEPT ![t] = IF Stops(t) THEN <<>> ELSE Tail(@)]
      /\ got' = [got EXCEPT !["rx"] = Erased]
      /\ queue' = queue /\ log' = log /\ kept' = kept
  BY DEF w25qxx_unlock, logVars
<1>2. /\ pc[t] = "unlock" /\ pc'[t] = "call" /\ \A u \in Task : u # t => pc'[u] = pc[u]
      /\ ~Waits(t)
      /\ t = "rx" => "flashlog" \notin Ready
  BY <1>1, Running, UserTask
<1>3. /\ Stops(t) => script'[t] = <<>>
      /\ ~Stops(t) => script'[t] = Tail(script[t])
      /\ \A u \in Task : u # t => script'[u] = script[u]
  BY <1>1, UserTask DEF Discipline, FlashTypes
<1>4. CASE t = "flashlog"
  <2>1. "unlock" \in flashing /\ "call" \notin Delayed /\ script'["rx"] = script["rx"]
    BY <1>3, <1>4, UserTask DEF flashing, Delayed
  <2> QED BY <1>1, <1>4, <2>1, LogCallKeeps
<1>5. CASE t = "rx"
  <2>1. /\ pc["rx"] = "unlock" /\ pc'["rx"] = "call" /\ pc'["flashlog"] = pc["flashlog"]
        /\ script'["flashlog"] = script["flashlog"] /\ ~HandOver
    BY <1>2, <1>3, <1>5, UserTask DEF HandOver
  <2>2. (Quiet => Quiet') /\ \A i : Dirty(i) => Dirty(i)'
    BY <1>1, <2>1, ConsoleMoves
  <2>3. \/ script'["rx"] = <<>>
        \/ script'["rx"] = Tail(script["rx"]) /\ script["rx"] # <<>> /\ got["rx"] # Failed
           /\ (Doing("rx", {"verify"}) => got["rx"] = Erased)
    <3>1. script["rx"] # <<>>
      BY <2>1, UserTask DEF Discipline, Calls, InFlash, flashing, Doing
    <3>2. ~Stops("rx") => got["rx"] # Failed /\ (Doing("rx", {"verify"}) => got["rx"] = Erased)
      BY DEF Stops
    <3> QED BY <1>3, <1>5, <3>1, <3>2
  <2>4. CASE script'["rx"] = <<>> \/ Tail(script["rx"]) \in Seq(Harmless)
    <3>1. script'["rx"] \in Seq(Harmless)
      BY <2>3, <2>4, NothingHarmless
    <3>2. Clearing'
      BY <3>1, NoRest DEF Clearing, Rest
    <3> QED BY <1>1, <3>2, SameRecords DEF Recorded
  <2>5. CASE /\ script'["rx"] = Tail(script["rx"]) /\ script["rx"] # <<>> /\ got["rx"] # Failed
             /\ Doing("rx", {"verify"}) => got["rx"] = Erased
             /\ \E k \in 1..End : Rest(script["rx"], k)
    <3>1. PICK k \in 1..End : Rest(script["rx"], k)
      BY <2>5
    <3>2. k \in 2..End - 2
      BY <2>1, <3>1, ClearDoes DEF flashing
    <3>3. ClearingAt(k)
      BY <3>1 DEF Recorded, Clearing
    <3>4. End \in Nat /\ End >= 6 /\ End = MaxRecords + 5 /\ MaxRecords \in Nat /\ Slot = 1..MaxRecords
      BY EndFacts DEF Slot
    <3>5. PICK j \in 1..End : j = k + 1 /\ Rest(script'["rx"], j)
      <4>1. k < End /\ k + 1 \in 1..End
        BY <3>2, <3>4
      <4>2. Rest(Tail(script["rx"]), k + 1)
        BY <3>1, <4>1, RestFacts
      <4> QED BY <2>5, <4>1, <4>2
    <3>6. kept' = {} /\ (k \in 2..3 => ~log'.ready) /\ (k >= 4 /\ log'.ready => Quiet')
      BY <1>1, <2>2, <3>2, <3>3, <3>4 DEF ClearingAt
    <3>7. ASSUME k = 2 PROVE ClearingAt(j)'
      <4>1. j = 3 /\ ~log'.ready
        BY <3>5, <3>6, <3>7
      <4> QED BY <2>1, <3>4, <3>6, <4>1 DEF ClearingAt
    <3>8. ASSUME k = 3 PROVE ClearingAt(j)'
      <4>1. AllErased'
        BY <1>1, <2>1, <2>5, <3>3, <3>8 DEF ClearingAt, AllErased
      <4>2. Quiet' \/ HandOver'
        <5>1. \/ Scans
              \/ pc["flashlog"] = "exec" /\ Waits("flashlog") /\ sem = HeldFor("flashlog") /\ ~queue.wai
              \/ pc["flashlog"] \in {"exec_dly", "poll_dly"} /\ ~Waits("flashlog")
              \/ /\ pc["flashlog"] = "call" /\ script["flashlog"] = <<>> /\ log.rec = Erased
                 /\ queue.msg = <<>>
          BY <1>2, <1>5, LogAsleep
        <5>2. CASE Scans
          <6>1. log.rec = Erased /\ Scans'
            BY <1>1, <5>2 DEF Discipline, LogScript, Scans
          <6> QED BY <1>1, <4>1, <6>1 DEF Quiet
        <5>3. CASE /\ ~Scans /\ pc["flashlog"] = "exec" /\ Waits("flashlog")
                   /\ sem = HeldFor("flashlog") /\ ~queue.wai
          <6>1. ~Waits("flashlog")'
            <7>1. sem' = Held /\ ToSet(Held.wai) = {}
              BY <1>1, <5>3, SemValues
            <7> QED BY <7>1 DEF Waits
          <6>2. "flashlog" \in Ready'
            BY <1>1, <2>1, <5>3, <6>1, LogReady DEF Delayed
          <6> QED BY <1>1, <2>1, <3>6, <3>8, <4>1, <5>3, <6>2 DEF HandOver, Scans
        <5>4. ~(pc["flashlog"] \in {"exec_dly", "poll_dly"})
          <6>1. ~InFlash("flashlog") \/ pc["flashlog"] = "exec"
            BY <1>2, <1>5, Holding, UserTask DEF InFlash, flashing
          <6> QED BY <6>1 DEF InFlash, flashing
        <5>5. CASE /\ pc["flashlog"] = "call" /\ script["flashlog"] = <<>> /\ log.rec = Erased
                   /\ queue.msg = <<>>
          BY <1>1, <2>1, <4>1, <5>5 DEF Quiet
        <5> QED BY Zenon, <5>1, <5>2, <5>3, <5>4, <5>5
      <4>3. j = 4 /\ ~log'.ready
        BY <3>5, <3>6, <3>8
      <4> QED BY <2>1, <3>4, <3>6, <4>2, <4>3 DEF ClearingAt
    <3>9. ASSUME k \in 4..End - 2 PROVE ClearingAt(j)'
      <4>1. chip.busy = Idle /\ chip.cell[k - 3] = Erased
        <5>1. got["rx"] = Erased
          BY <2>5, <3>1, <3>9, ClearDoes, ClearShape
        <5> QED BY <2>1, <3>3, <3>9, <5>1 DEF ClearingAt
      <4>2. Quiet \/ Dirty(k - 3)
        BY <2>1, <3>3, <3>9 DEF ClearingAt
      <4>3. ASSUME Dirty(k - 3) PROVE j \in 4..End - 2 /\ Dirty(j - 3)'
        <5>1. PICK x \in (k - 3)..MaxRecords : chip.cell[x] # Erased
          BY <4>1, <4>3 DEF Dirty, Idle
        <5>2. x \in (j - 3)..MaxRecords /\ j \in 4..End - 2
          <6>1. x # k - 3 /\ j = k + 1
            BY <3>5, <4>1, <5>1
          <6> QED BY <3>4, <3>9, <5>1, <6>1
        <5> QED BY <1>1, <4>3, <5>1, <5>2 DEF Dirty, Scans
      <4>4. j >= 4 /\ j # 3 /\ j # End /\ ~(j \in 2..3)
        BY <3>4, <3>5, <3>9
      <4>5. j \in 4..End - 2 => Quiet' \/ Dirty(j - 3)'
        BY <2>2, <4>2, <4>3
      <4>6. j >= End - 1 => Quiet'
        <5>1. j \in 4..End - 2 => ~(j >= End - 1)
          BY <3>4
        <5> QED BY <2>2, <4>2, <4>3, <5>1
      <4>7. log'.ready => Quiet'
        BY <3>4, <3>6, <3>9
      <4> QED BY <2>1, <3>6, <4>4, <4>5, <4>6, <4>7 DEF ClearingAt
    <3>10. ClearingAt(j)'
      <4>1. k = 2 \/ k = 3 \/ k \in 4..End - 2
        BY <3>2, <3>4
      <4> QED BY <3>7, <3>8, <3>9, <4>1
    <3>11. Clearing'
      <4>1. ASSUME NEW i \in 1..End, Rest(script'["rx"], i) PROVE ClearingAt(i)'
        <5>1. i = j
          BY <3>5, <4>1, RestUnique
        <5> QED BY <3>10, <5>1
      <4> QED BY <4>1 DEF Clearing, Rest
    <3> QED BY <1>1, <3>11, SameRecords DEF Recorded
  <2>6. script["rx"] # <<>> /\ ~Notifies("rx")
    <3>1. Head(script["rx"]).op \in reads \cup writes \cup {"wait_ready"} /\ script["rx"] # <<>>
      BY <2>1, UserTask DEF Discipline, Calls, InFlash, flashing, Doing
    <3> QED BY <3>1, NotifyDoes DEF reads, writes
  <2>7. Tail(script["rx"]) \in Seq(Harmless) \/ \E k \in 1..End : Rest(script["rx"], k)
    BY <2>6, HarmlessFacts DEF Discipline, ConsoleScript
  <2> QED BY <2>3, <2>4, <2>5, <2>7
<1> QED BY <1>4, <1>5, UserTask

LEMMA FlashCallKeeps ==
  ASSUME Discipline, Recorded, NEW t \in Task, FlashCall(t)
  PROVE  Recorded'
<1>1. UNCHANGED logVars
  BY DEF FlashCall
<1>2. t \in User
  <2>1. ASSUME t = "mpuirq" PROVE FALSE
    <3>1. pc["mpuirq"] = "call"
      BY DEF Discipline, NotifierScript
    <3>2. w25qxx_lock(t)
      BY <2>1, <3>1 DEF FlashCall, w25qxx_read, Send, w25qxx_wait_ready, w25qxx_unlock, Step
    <3>3. script["mpuirq"] # <<>> /\ Head(script["mpuirq"]).op \in reads \cup writes \cup {"wait_ready"}
      BY <2>1, <3>2 DEF w25qxx_lock, Doing
    <3>4. Head(script["mpuirq"]).op \in {"ask", "send"}
      BY <3>3, NotifyDoes DEF Discipline, NotifierScript
    <3> QED BY <3>3, <3>4 DEF reads, writes
  <2> QED BY <2>1, UserTask
<1> QED BY <1>1, <1>2, LockKeeps, ReadKeeps, SendKeeps, WaitReadyKeeps, UnlockKeeps DEF FlashCall

LEMMA CompleteKeeps ==
  ASSUME Discipline, Recorded, Complete
  PROVE  Recorded'
<1>1. PICK cell \in Effects(chip.busy) : chip' = [cell |-> cell, busy |-> Idle]
  BY DEF Complete
<1>2. /\ pc' = pc /\ script' = script /\ got' = got /\ log' = log /\ kept' = kept
      /\ chip.busy # Idle
  BY DEF Complete, logVars
<1>3. /\ chip'.cell = cell /\ chip'.busy = Idle /\ chip'.busy.cmd = "none"
      /\ chip.busy \in Jobs /\ chip.busy.cmd \in {"program", "erase"}
  BY <1>1, <1>2 DEF Idle, Discipline, FlashTypes, Jobs
<1>4. MaxRecords \in Nat /\ MaxRecords >= 1 /\ Slot = 1..MaxRecords /\ log.count \in Nat
      /\ kept \in SUBSET Nat /\ log.count <= MaxRecords
  BY EndFacts DEF Slot, Discipline, FlashTypes, Recorded, Counted
<1>5. ASSUME chip.busy.cmd = "program" \/ chip.busy.slot \notin Slot, NEW i \in Slot,
             chip.busy.slot \in Slot => i # chip.busy.slot
      PROVE  chip'.cell[i] = chip.cell[i]
  BY <1>3, <1>5, EffectFacts
<1>6. Solid'
  <2>1. ASSUME NEW i \in kept PROVE i \in Slot /\ chip'.cell[i].whole /\ \A j \in 1..i : Valid(j)'
    <3>1. i \in Slot /\ chip.cell[i].whole /\ \A j \in 1..i : Valid(j)
      BY <2>1 DEF Recorded, Solid
    <3>2. chip.busy.cmd = "program" \/ chip.busy.slot \notin Slot
      BY <1>3, <2>1 DEF Recorded, BusyKept
    <3>3. chip.busy.slot \in Slot => i < chip.busy.slot
      BY <2>1, <3>2 DEF Recorded, BusyKept
    <3>4. ASSUME NEW j \in 1..i PROVE chip'.cell[j] = chip.cell[j]
      <4>1. j \in Slot /\ (chip.busy.slot \in Slot => j # chip.busy.slot)
        BY <1>4, <3>1, <3>3
      <4> QED BY <1>5, <3>2, <4>1
    <3>5. i \in 1..i
      BY <1>4, <3>1
    <3> QED BY <3>1, <3>4, <3>5 DEF Valid
  <2> QED BY <1>2, <2>1 DEF Solid
<1>7. Counted'
  <2>1. ASSUME log.ready, ~Scans, NEW i \in 1..log.count PROVE Valid(i)'
    <3>1. Valid(i)
      BY <2>1 DEF Recorded, Counted
    <3>2. chip.busy.cmd = "program" \/ chip.busy.slot \notin Slot
      BY <1>3, <2>1 DEF Recorded, BusyKept
    <3>3. chip.busy.slot \in Slot => log.count < chip.busy.slot
      BY <2>1, <3>2 DEF Recorded, BusyKept
    <3>4. i \in Slot /\ (chip.busy.slot \in Slot => i # chip.busy.slot)
      BY <1>4, <3>3
    <3> QED BY <1>5, <3>1, <3>2, <3>4 DEF Valid
  <2> QED BY <1>2, <2>1 DEF Recorded, Counted, Scans
<1>8. BusyKept'
  BY <1>3 DEF BusyKept
<1>9. Clearing'
  <2>1. ~AllErased /\ ~Quiet /\ ~HandOver
    BY <1>2 DEF AllErased, Quiet, HandOver
  <2>2. ASSUME NEW k \in 1..End, Rest(script["rx"], k) PROVE ClearingAt(k)'
    <3>1. ClearingAt(k)
      BY <2>2 DEF Recorded, Clearing
    <3>2. k = 3 /\ pc["rx"] \in {"poll", "poll_dly"} => AllErased'
      <4>1. ASSUME k = 3, pc["rx"] \in {"poll", "poll_dly"} PROVE AllErased'
        <5>1. chip.busy.cmd = "erase" /\ chip.busy.slot \in Slot
          BY <1>4, <2>1, <3>1, <4>1 DEF ClearingAt
        <5>2. \A i \in Slot : cell[i] = Erased
          BY <5>1, EffectFacts
        <5> QED BY <1>3, <5>2 DEF AllErased
      <4> QED BY <4>1
    <3>3. k \in 4..End - 2 => Dirty(k - 3)'
      <4>1. ASSUME k \in 4..End - 2 PROVE Dirty(k - 3)'
        <5>1. Dirty(k - 3)
          BY <2>1, <3>1, <4>1 DEF ClearingAt
        <5>2. chip.busy.cmd = "program"
          BY <1>3, <5>1 DEF Dirty
        <5>3. PICK x \in (k - 3)..MaxRecords : chip.cell[x] # Erased \/ chip.busy.slot = x
          BY <5>1 DEF Dirty
        <5>4. x \in Slot
          BY <1>4, <4>1, <5>3, EndFacts
        <5>5. IF x = chip.busy.slot THEN cell[x] # Erased ELSE cell[x] = chip.cell[x]
          BY <5>2, <5>4, EffectFacts
        <5>6. chip'.cell[x] # Erased
          BY <1>3, <5>3, <5>5
        <5> QED BY <1>2, <1>3, <5>1, <5>3, <5>6 DEF Dirty, Scans
      <4> QED BY <4>1
    <3>4. ~(k >= 4 /\ log.ready) /\ ~(k >= End - 1)
          /\ ~(k = 3 /\ pc["rx"] = "unlock" /\ got["rx"] # Failed)
          /\ ~(k \in 4..End - 2 /\ pc["rx"] = "unlock" /\ got["rx"] = Erased)
      BY <1>2, <2>1, <3>1 DEF ClearingAt
    <3> QED BY <1>2, <3>1, <3>2, <3>3, <3>4 DEF ClearingAt
  <2> QED BY <1>2, <2>2 DEF Clearing, Rest
<1> QED BY <1>6, <1>7, <1>8, <1>9 DEF Recorded

LEMMA ScanKeeps ==
  ASSUME Discipline, Recorded, flashlog_scan, UNCHANGED <<sem, chip>>, ~overtaken'
  PROVE  Recorded'
<1>1. /\ Step("flashlog", "call", "call") /\ script["flashlog"] = <<>>
      /\ Scans /\ log.rec = Erased /\ log.count = 0 /\ ~InFlash("rx")
      /\ queue' = queue /\ kept' = kept /\ got' = got /\ sem' = sem /\ chip' = chip
  BY ScanSteps
<1>2. pc' = pc /\ pc["flashlog"] = "call" /\ ~queue.wai
  BY <1>1, CallScript, UserTask
<1>3. MaxRecords \in Nat /\ MaxRecords >= 1 /\ Slot = 1..MaxRecords /\ kept \in SUBSET Nat
  BY EndFacts DEF Slot, Discipline, FlashTypes
<1>4. pc["rx"] \notin {"poll", "poll_dly", "unlock"} /\ ~HandOver /\ \A i : ~Dirty(i)
  BY <1>1 DEF InFlash, flashing, HandOver, Dirty
<1>5. script = [u \in Task |-> script[u]]
  BY DEF Discipline, FlashTypes
(* Not yet done: it goes on, or begins again.                              *)
<1>6. ASSUME log'.at \in 0..MaxRecords, log'.rec = Erased, log'.count = 0, log'.ready = log.ready,
             script'["rx"] = script["rx"]
      PROVE  Recorded'
  <2>1. Scans'
    BY <1>3, <1>6 DEF Scans
  <2>2. Solid'
    BY <1>1 DEF Recorded, Solid, Valid
  <2>3. Counted'
    BY <1>1, <1>3, <1>6, <2>1 DEF Recorded, Counted
  <2>4. BusyKept'
    BY <1>1, <1>6 DEF Recorded, BusyKept
  <2>5. Quiet => Quiet'
    BY <1>1, <1>6, <2>1 DEF Quiet, AllErased
  <2>6. Clearing'
    BY <1>1, <1>2, <1>4, <1>6, <2>5, ClearingStays
  <2> QED BY <2>2, <2>3, <2>4, <2>6 DEF Recorded
(* The log is ready; if it is being cleared, it is empty.                  *)
<1>7. ASSUME NEW n \in 0..MaxRecords,
             log' = [log EXCEPT !.ready = TRUE, !.count = n, !.at = MaxRecords + 1, !.retry = FALSE],
             overtaken' = (overtaken \/
               (/\ script["rx"] # <<>> /\ Last(script["rx"]).op = "ready"
                /\ ~(/\ \A k \in DOMAIN script["rx"] : script["rx"][k].op # "erase"
                     /\ queue.msg = <<>>))),
             script' = script, chip.busy = Idle, \A j \in 1..n : Valid(j),
             n < MaxRecords => chip.cell[n + 1] = Erased
      PROVE  Recorded'
  <2>1. /\ log'.at = MaxRecords + 1 /\ log'.rec = Erased /\ log'.count = n
    BY <1>1, <1>7, LogServed
  <2>2. log'.ready = TRUE
    BY <1>7 DEF Discipline, FlashTypes
  <2>3. ~Scans'
    BY <1>3, <2>1 DEF Scans
  <2>4. \A j \in Slot : Valid(j)' <=> Valid(j)
    BY <1>1 DEF Valid
  <2>5. \A j \in Slot : chip.cell[j] = Erased => ~Valid(j)
    BY Contained DEF Valid, record_is_valid
  <2>6. Solid'
    BY <1>1 DEF Recorded, Solid, Valid
  <2>7. ASSUME NEW i \in kept PROVE i <= n
    <3>1. i \in Slot /\ \A j \in 1..i : Valid(j)
      BY <2>7 DEF Recorded, Solid
    <3>2. ASSUME i > n PROVE FALSE
      <4>1. n + 1 \in 1..i /\ n + 1 \in Slot /\ n < MaxRecords
        BY <1>3, <3>1, <3>2
      <4> QED BY <1>7, <2>5, <3>1, <4>1
    <3> QED BY <1>3, <3>1, <3>2
  <2>8. Counted'
    <3>1. \A j \in 1..n : Valid(j)'
      BY <1>1, <1>7 DEF Valid
    <3>2. n <= MaxRecords
      OBVIOUS
    <3> QED BY <1>1, <2>1, <2>2, <2>3, <2>7, <3>1, <3>2 DEF Counted
  <2>9. BusyKept'
    BY <1>1, <1>7 DEF BusyKept, Idle
  <2>10. ASSUME NEW k \in 1..End, Rest(script["rx"], k) PROVE ClearingAt(k)'
    <3>1. /\ script["rx"] # <<>> /\ Last(script["rx"]).op = "ready"
          /\ (\A x \in DOMAIN script["rx"] : script["rx"][x].op # "erase") <=> k >= 4
      BY <2>10, RestFacts
    <3>2. k >= 4 /\ queue.msg = <<>>
      BY <1>7, <3>1
    <3>3. Quiet
      <4>1. k \in 4..End - 2 \/ k >= End - 1
        BY <3>2, EndFacts
      <4> QED BY <1>4, <2>10, <4>1 DEF Recorded, Clearing, ClearingAt
    <3>4. n = 0
      <4>1. 1 \in Slot
        BY <1>3
      <4>2. chip.cell[1] = Erased
        BY <3>3, <4>1 DEF Quiet, AllErased
      <4>3. n # 0 => 1 \in 1..n
        OBVIOUS
      <4> QED BY <1>7, <2>5, <4>1, <4>2, <4>3
    <3>5. Quiet'
      BY <1>1, <1>2, <1>7, <2>1, <3>2, <3>3 DEF Quiet, AllErased
    <3>6. kept = {}
      BY <2>10, <3>2 DEF Recorded, Clearing, ClearingAt
    <3>7. pc'["rx"] \notin {"poll", "poll_dly", "unlock"}
      BY <1>2, <1>4
    <3>8. ~(k \in 2..3) /\ k # 3
      BY <3>2
    <3> QED BY <1>1, <2>1, <3>4, <3>5, <3>6, <3>7, <3>8 DEF ClearingAt
  <2>11. Clearing'
    BY <1>7, <2>10 DEF Clearing, Rest
  <2> QED BY <2>6, <2>8, <2>9, <2>11 DEF Recorded
<1>8. CASE /\ log' = [log EXCEPT !.at = 0, !.retry = TRUE]
           /\ \/ script' = [script EXCEPT !["flashlog"] = Retry]
              \/ script' = [script EXCEPT !["flashlog"] = Do("query", 0)]
  <2>1. log'.at = 0 /\ log'.rec = Erased /\ log'.count = 0
    BY <1>1, <1>8, LogAgain
  <2>2. log'.ready = log.ready
    BY <1>8 DEF Discipline, FlashTypes
  <2>3. script'["rx"] = script["rx"] /\ 0 \in 0..MaxRecords
    BY <1>3, <1>5, <1>8, UserTask
  <2> QED BY <1>6, <2>1, <2>2, <2>3
<1>9. CASE \E n \in Slot :
             /\ log' = [log EXCEPT !.at = n, !.count = 0]
             /\ script' = [script EXCEPT !["flashlog"] = Do("read", n)]
  <2>1. PICK n \in Slot :
             /\ log' = [log EXCEPT !.at = n, !.count = 0]
             /\ script' = [script EXCEPT !["flashlog"] = Do("read", n)]
    BY <1>9
  <2>2. log'.at = n /\ log'.rec = Erased /\ log'.count = 0
    BY <1>1, <2>1, LogNext
  <2>3. log'.ready = log.ready
    BY <2>1 DEF Discipline, FlashTypes
  <2>4. script'["rx"] = script["rx"] /\ n \in 0..MaxRecords
    BY <1>3, <1>5, <2>1, UserTask
  <2> QED BY <1>6, <2>2, <2>3, <2>4
<1>10. CASE \E n \in 0..MaxRecords :
              /\ log' = [log EXCEPT !.ready = TRUE, !.count = n, !.at = MaxRecords + 1,
                                    !.retry = FALSE]
              /\ overtaken' = (overtaken \/
                   (/\ script["rx"] # <<>> /\ Last(script["rx"]).op = "ready"
                    /\ ~(/\ \A k \in DOMAIN script["rx"] : script["rx"][k].op # "erase"
                         /\ queue.msg = <<>>)))
              /\ script' = script /\ chip.busy = Idle /\ \A j \in 1..n : Valid(j)
              /\ n < MaxRecords => chip.cell[n + 1] = Erased
  BY <1>7, <1>10
<1> QED BY Zenon, <1>8, <1>9, <1>10, ScanSteps

LEMMA ReceiveKeeps ==
  ASSUME Discipline, Recorded, Receive, UNCHANGED <<sem, chip>>
  PROVE  Recorded'
<1>1. /\ Step("flashlog", "call", "call") /\ script["flashlog"] = <<>>
      /\ ~Scans /\ log.rec = Erased /\ log.at = MaxRecords + 1
      /\ kept' = kept /\ got' = got /\ sem' = sem /\ chip' = chip
  BY ReceiveSteps
<1>2. pc' = pc /\ pc["flashlog"] = "call" /\ ~queue.wai /\ ~Waits("flashlog")
  BY <1>1, CallScript, UserTask
<1>3. /\ log \in [ready : BOOLEAN, count : Nat, at : 0..MaxRecords + 1, retry : BOOLEAN,
                  rec : {Erased} \cup Records]
      /\ queue \in [msg : Seq(Events), wai : BOOLEAN]
      /\ script = [u \in Task |-> script[u]]
  BY DEF Discipline, FlashTypes
<1>4. CASE queue.msg = <<>> /\ queue' = [queue EXCEPT !.wai = TRUE] /\ script' = script /\ log' = log
  <2>1. queue'.msg = <<>>
    BY <1>3, <1>4
  <2>2. Quiet => Quiet'
    BY <1>1, <1>2, <1>4, <2>1 DEF Quiet, AllErased, Scans
  <2>3. \A i : Dirty(i) => Dirty(i)'
    BY <1>1, <1>4 DEF Dirty, Scans
  <2>4. HandOver => Quiet'
    BY <1>1, <1>2, <1>4, <2>1 DEF HandOver, Quiet, AllErased
  <2>5. Clearing'
    BY <1>1, <1>2, <1>4, <2>2, <2>3, <2>4, ClearingStays
  <2> QED BY <1>1, <1>4, <2>5, SameRecords DEF Recorded
<1>5. ASSUME queue.msg # <<>>, queue' = [queue EXCEPT !.msg = Tail(@)], script'["rx"] = script["rx"],
             log'.at = log.at, log'.ready = log.ready
      PROVE  Clearing'
  <2>1. ~queue'.wai
    BY <1>2, <1>3, <1>5
  <2>2. ~Quiet
    BY <1>1, <1>5 DEF Quiet
  <2>3. \A i : Dirty(i) => Dirty(i)'
    BY <1>1, <1>5 DEF Dirty, Scans
  <2>4. HandOver => HandOver'
    <3>1. ~Waits("flashlog")'
      BY <1>1, <1>2 DEF Waits
    <3>2. HandOver => "flashlog" \in Ready'
      BY <1>2, <2>1, <3>1, LogReady DEF Delayed
    <3> QED BY <1>1, <1>2, <1>5, <3>2 DEF HandOver, AllErased, Scans
  <2> QED BY <1>1, <1>2, <1>5, <2>2, <2>3, <2>4, ClearingStays
<1>6. CASE /\ queue.msg # <<>> /\ queue' = [queue EXCEPT !.msg = Tail(@)]
           /\ script' = script /\ log' = log
  BY <1>1, <1>5, <1>6, SameRecords DEF Recorded
<1>7. CASE /\ queue.msg # <<>> /\ queue' = [queue EXCEPT !.msg = Tail(@)]
           /\ \E r \in Records :
                /\ r.seq = log.count + 1 /\ log' = [log EXCEPT !.rec = r]
                /\ script' = [script EXCEPT !["flashlog"] = Append1(r)]
  <2>1. PICK r \in Records :
                /\ r.seq = log.count + 1 /\ log' = [log EXCEPT !.rec = r]
                /\ script' = [script EXCEPT !["flashlog"] = Append1(r)]
    BY <1>7
  <2>2. /\ log'.at = log.at /\ log'.ready = log.ready /\ log'.count = log.count /\ log'.rec = r
    BY <1>3, <2>1
  <2>3. script'["rx"] = script["rx"]
    BY <1>3, <2>1, UserTask
  <2>4. Clearing'
    BY <1>5, <1>7, <2>2, <2>3
  <2>5. Solid' /\ BusyKept'
    BY <1>1, <2>2 DEF Recorded, Solid, Valid, BusyKept
  <2>6. Counted'
    BY <1>1, <2>1, <2>2 DEF Recorded, Counted, Valid, Scans
  <2> QED BY <2>4, <2>5, <2>6 DEF Recorded
<1> QED BY <1>4, <1>6, <1>7, ReceiveSteps

(* A record that reads back as it was written is counted.                  *)
LEMMA VerifyKeeps ==
  ASSUME Discipline, Recorded, Verify, UNCHANGED <<sem, chip>>
  PROVE  Recorded'
<1>1. /\ Step("flashlog", "call", "call") /\ script["flashlog"] = <<>>
      /\ ~Scans /\ log.rec \in Records /\ log.at = MaxRecords + 1
      /\ queue' = queue /\ script' = script
      /\ got' = [got EXCEPT !["flashlog"] = Erased]
      /\ sem' = sem /\ chip' = chip
  BY VerifySteps
<1>2. pc' = pc /\ pc["flashlog"] = "call" /\ ~queue.wai
  BY <1>1, CallScript, UserTask
<1>3. /\ log \in [ready : BOOLEAN, count : Nat, at : 0..MaxRecords + 1, retry : BOOLEAN,
                  rec : {Erased} \cup Records]
      /\ got = [u \in User |-> got[u]] /\ kept \in SUBSET Nat
      /\ MaxRecords \in Nat /\ Slot = 1..MaxRecords
  BY EndFacts DEF Discipline, FlashTypes, Slot
<1>4. /\ log.rec # Erased /\ log.rec.seq \in Slot /\ log.rec.whole /\ log.rec.event \in Events
      /\ log.rec.seq = log.count + 1 /\ ~Quiet
  <2>1. log.rec # Erased /\ log.rec.seq \in Slot /\ log.rec.whole /\ log.rec.event \in Events
    BY <1>1, NotRecords, Contained
  <2> QED BY <2>1 DEF Recorded, Counted, Quiet
<1>5. got'["rx"] = got["rx"]
  BY <1>1, <1>3, UserTask
<1>6. ASSUME log'.at = log.at, log'.ready = log.ready
      PROVE  (\A i : Dirty(i) => Dirty(i)') /\ (HandOver => HandOver')
  <2>1. \A i : Dirty(i) => Dirty(i)'
    BY <1>1, <1>6 DEF Dirty, Scans
  <2>2. "flashlog" \in Ready' <=> "flashlog" \in Ready
    BY <1>1, <1>2, LogReady DEF Waits
  <2>3. HandOver => HandOver'
    BY <1>1, <1>2, <1>6, <2>2 DEF HandOver, AllErased, Scans
  <2> QED BY <2>1, <2>3
<1>7. CASE log' = [log EXCEPT !.rec = Erased] /\ kept' = kept
  <2>1. log'.at = log.at /\ log'.ready = log.ready /\ log'.count = log.count /\ log'.rec = Erased
    BY <1>3, <1>7
  <2>2. Clearing'
    BY <1>1, <1>2, <1>4, <1>5, <1>6, <1>7, <2>1, ClearingStays
  <2>3. Solid' /\ BusyKept' /\ Counted'
    BY <1>1, <1>7, <2>1 DEF Recorded, Solid, Valid, BusyKept, Counted, Scans
  <2> QED BY <2>2, <2>3 DEF Recorded
<1>8. CASE /\ chip.busy = Idle /\ chip.cell[log.rec.seq] = log.rec
           /\ log' = [log EXCEPT !.rec = Erased, !.count = @ + 1]
           /\ kept' = IF log.ready THEN kept \cup {log.count + 1} ELSE kept
  <2>1. /\ log'.at = log.at /\ log'.ready = log.ready /\ log'.count = log.count + 1
        /\ log'.rec = Erased /\ log.count \in Nat
    BY <1>3, <1>8, LogCounted
  <2>2. log.count + 1 \in Slot /\ Valid(log.count + 1) /\ chip.cell[log.count + 1].whole
    BY <1>4, <1>8 DEF Valid, record_is_valid, Events
  <2>3. \A j : Valid(j)' <=> Valid(j)
    BY <1>1 DEF Valid
  <2>4. log.ready => \A j \in 1..log.count + 1 : Valid(j)
    <3>1. log.ready => \A j \in 1..log.count : Valid(j)
      BY <1>1 DEF Recorded, Counted
    <3>2. \A j \in 1..log.count + 1 : j = log.count + 1 \/ j \in 1..log.count
      BY <2>1
    <3> QED BY <2>2, <3>1, <3>2
  <2>5. Solid'
    <3>1. ASSUME NEW i \in kept' PROVE i \in Slot /\ chip'.cell[i].whole /\ \A j \in 1..i : Valid(j)'
      <4>1. CASE i \in kept
        BY <1>1, <2>3, <4>1 DEF Recorded, Solid
      <4>2. CASE i \notin kept
        <5>1. log.ready /\ i = log.count + 1
          BY <1>8, <3>1, <4>2
        <5> QED BY <1>1, <2>2, <2>3, <2>4, <5>1
      <4> QED BY <4>1, <4>2
    <3> QED BY <3>1 DEF Solid
  <2>6. Counted'
    <3>1. ~Scans'
      BY <1>1, <2>1 DEF Scans
    <3>2. log'.ready => \A j \in 1..log'.count : Valid(j)'
      BY <2>1, <2>3, <2>4
    <3>3. ASSUME NEW i \in kept' PROVE i <= log'.count
      <4>1. \A x \in kept : x \in Nat /\ x <= log.count
        BY <1>1, <1>3 DEF Recorded, Counted
      <4>2. i \in kept \/ i = log.count + 1
        BY <1>8, <3>3
      <4> QED BY <2>1, <4>1, <4>2
    <3>4. ~log'.ready => kept' = {}
      BY <1>1, <1>8, <2>1 DEF Recorded, Counted
    <3>5. log'.count <= MaxRecords
      BY <1>3, <2>1, <2>2
    <3> QED BY <2>1, <3>1, <3>2, <3>3, <3>4, <3>5 DEF Counted
  <2>7. BusyKept'
    BY <1>1, <1>8 DEF BusyKept, Idle
  <2>8. Clearing'
    <3>1. kept' = kept \/ (log.ready /\ ~Quiet)
      BY <1>4, <1>8
    <3> QED BY <1>1, <1>2, <1>4, <1>5, <1>6, <2>1, <3>1, ClearingStays
  <2> QED BY <2>5, <2>6, <2>7, <2>8 DEF Recorded
<1> QED BY <1>7, <1>8, VerifySteps

(* A notification while the log is being cleared comes only while the      *)
(* console waits for the flash, which the log task has to write.           *)
LEMMA NotifyKeeps ==
  ASSUME Discipline, Recorded, NEW t \in Task, Notify(t)
  PROVE  Recorded'
<1>1. /\ got' = got /\ chip' = chip /\ log' = log /\ kept' = kept
      /\ Step(t, "call", "call") /\ script[t] # <<>> /\ Head(script[t]).op \in {"ask", "send"}
      /\ \/ script' = [script EXCEPT ![t] = Tail(@)]
         \/ script' = [script EXCEPT ![t] = Tail(Tail(@))]
  BY DEF Notify, Does, Doing, flashVars
<1>2. /\ pc' = pc /\ "flashlog" \notin Ready
      /\ t = "mpuirq" => "rx" \notin Ready
  <2>1. t # "flashlog"
    BY <1>1, LogDoes DEF Single
  <2> QED BY <1>1, <2>1, CallScript
<1>3. t # "flashlog"
  BY <1>1, LogDoes DEF Single
<1>4. Solid' /\ Counted' /\ BusyKept'
  BY <1>1, SameRecords
<1>5. CASE t = "rx"
  <2>1. Notifies("rx")
    <3>1. \A k : ~Rest(script["rx"], k)
      BY <1>1, <1>5, NotClearing
    <3>2. script["rx"] \notin Seq(Harmless)
      BY <1>1, <1>5, HarmlessFacts
    <3> QED BY <3>1, <3>2 DEF Discipline, ConsoleScript
  <2>2. PICK e \in Events :
          \/ /\ Head(script["rx"]) = Single("ask", e)
             /\ Tail(script["rx"]) = Do("send", e) /\ Tail(Tail(script["rx"])) = <<>>
          \/ Head(script["rx"]) = Single("send", e) /\ Tail(script["rx"]) = <<>>
    BY <2>1, NotifyDoes
  <2>3. script'["rx"] \in {Tail(script["rx"]), Tail(Tail(script["rx"]))}
    BY <1>1, <1>5, UserTask DEF Discipline, FlashTypes
  <2>4. script'["rx"] = Do("send", e) \/ script'["rx"] = <<>>
    <3>1. CASE /\ Head(script["rx"]) = Single("ask", e)
               /\ Tail(script["rx"]) = Do("send", e) /\ Tail(Tail(script["rx"])) = <<>>
      BY <2>3, <3>1
    <3>2. CASE Head(script["rx"]) = Single("send", e) /\ Tail(script["rx"]) = <<>>
      <4>1. script' = [script EXCEPT !["rx"] = Tail(@)]
        BY <1>5, <3>2 DEF Notify, Does, Doing, Single
      <4>2. script'["rx"] = Tail(script["rx"])
        BY <4>1, UserTask DEF Discipline, FlashTypes
      <4> QED BY <3>2, <4>2
    <3> QED BY <2>2, <3>1, <3>2
  <2>5. ASSUME NEW k \in 1..End, Rest(script'["rx"], k) PROVE FALSE
    <3>1. /\ script'["rx"] # <<>> /\ Head(script'["rx"]) = ClearStep(k)
      BY <2>5, RestFacts
    <3>2. Head(script'["rx"]).op = "send"
      BY <2>4, <3>1, DoFacts
    <3> QED BY <3>1, <3>2, ClearShape
  <2>6. Clearing'
    BY <2>5 DEF Clearing, Rest
  <2> QED BY <1>4, <2>6 DEF Recorded
<1>6. CASE t = "mpuirq"
  <2>1. /\ script'["rx"] = script["rx"] /\ script'["flashlog"] = script["flashlog"]
    BY <1>1, <1>6, UserTask DEF Discipline, FlashTypes
  <2>2. ASSUME NEW k \in 1..End, Rest(script["rx"], k) PROVE ClearingAt(k)'
    <3>1. ClearingAt(k)
      BY <2>2 DEF Recorded, Clearing
    <3>2. \A i : Dirty(i) => Dirty(i)'
      BY <1>1 DEF Dirty, Scans
    <3>3. ASSUME k >= 4 PROVE ~HandOver /\ (Quiet => Quiet')
      <4>1. script["rx"] # <<>> /\ pc["rx"] \in {"call", "exec", "unlock"}
        BY <2>2, <3>3, ClearDoes
      <4>2. Waits("rx")
        BY <1>2, <1>6, <4>1, NotReadyFacts DEF Delayed
      <4>3. pc["rx"] = "exec" /\ InFlash("flashlog") /\ ~Waits("flashlog")
        BY <4>2, Waiting, UserTask
      <4>4. log.rec \in Records
        BY <1>2, <4>3, LogAsleep DEF InFlash, flashing
      <4>5. log.rec # Erased
        BY <4>4, NotRecords
      <4> QED BY <4>3, <4>5 DEF HandOver, Quiet
    <3> QED BY <1>1, <1>2, <3>1, <3>2, <3>3, EndFacts DEF ClearingAt, AllErased
  <2>3. Clearing'
    BY <2>1, <2>2 DEF Clearing, Rest
  <2> QED BY <1>4, <2>3 DEF Recorded
<1> QED BY <1>3, <1>5, <1>6, UserTask

LEMMA ReportKeeps ==
  ASSUME Discipline, Recorded, NEW e \in Events, Report(e)
  PROVE  Recorded'
<1>1. /\ pc' = pc /\ sem' = sem /\ chip' = chip /\ got' = got /\ queue' = queue /\ log' = log
      /\ kept' = kept
  BY DEF Report, flashVars, logVars
<1>2. script'["rx"] = script["rx"] /\ script'["flashlog"] = script["flashlog"]
  BY UserTask DEF Report, Discipline, FlashTypes
<1>3. Quiet => Quiet'
  BY <1>1, <1>2 DEF Quiet, AllErased, Scans
<1>4. \A i : Dirty(i) => Dirty(i)'
  BY <1>1 DEF Dirty, Scans
<1>5. HandOver => HandOver'
  BY <1>1, LogReady DEF HandOver, AllErased, Scans, Waits
<1>6. Clearing'
  BY <1>1, <1>2, <1>3, <1>4, <1>5, ClearingStays
<1> QED BY <1>1, <1>6, SameRecords DEF Recorded

LEMMA CommandKeeps ==
  ASSUME Discipline, Recorded, NEW c \in Commands, Command(c)
  PROVE  Recorded'
<1>1. chip' = chip /\ log' = log /\ kept' = kept
  BY DEF Command, flashVars, logVars
<1>2. script'["rx"] = command_table[c]
  BY UserTask DEF Command, Discipline, FlashTypes
<1>3. ASSUME NEW k \in 1..End, Rest(script'["rx"], k) PROVE ClearingAt(k)'
  <2>1. c \in DOMAIN command_table
    BY CommandsAssumption
  <2>2. CASE command_table[c] = task_flashlog_clear
    <3>1. k = 1
      BY <1>2, <1>3, <2>2, ClearRest, RestUnique
    <3> QED BY <3>1, EndFacts DEF ClearingAt
  <2>3. CASE command_table[c] = task_flashlog_notify("STOPPED")
    <3>1. script'["rx"] # <<>> /\ Head(script'["rx"]) = ClearStep(k)
      BY <1>3, RestFacts
    <3>2. Head(script'["rx"]) = Single("ask", "STOPPED")
      BY <1>2, <2>3, Pair DEF task_flashlog_notify
    <3>3. Single("ask", "STOPPED").op = "ask"
      BY DEF Single
    <3> QED BY <3>1, <3>2, <3>3, ClearShape
  <2>4. CASE command_table[c] \in Seq(Harmless)
    BY <1>2, <1>3, <2>4, NoRest
  <2> QED BY <2>1, <2>2, <2>3, <2>4, CommandScripts
<1>4. Clearing'
  BY <1>3 DEF Clearing, Rest
<1> QED BY <1>1, <1>4, SameRecords DEF Recorded

(* The first step of the clearing, and the last two. *)
LEMMA LogCommandKeeps ==
  ASSUME Discipline, Recorded, LogCommand
  PROVE  Recorded'
<1>1. /\ Step("rx", "call", "call") /\ script["rx"] # <<>>
      /\ chip' = chip /\ queue' = queue
  BY LogCommandSteps
<1>2. pc' = pc /\ pc["rx"] = "call"
  BY <1>1, CallScript, UserTask
<1>3. log \in [ready : BOOLEAN, count : Nat, at : 0..MaxRecords + 1, retry : BOOLEAN,
               rec : {Erased} \cup Records]
      /\ script = [u \in Task |-> script[u]]
  BY DEF Discipline, FlashTypes
<1>4. End \in Nat /\ End >= 6 /\ End = MaxRecords + 5 /\ MaxRecords \in Nat
  BY EndFacts
(* What is left when the step is done, of a script that is not a dump's.   *)
<1>5. ASSUME script' = [script EXCEPT !["rx"] = Tail(@)],
             Head(script["rx"]).op \in {"unready", "zero", "ready"}
      PROVE  \E k \in 1..End :
               /\ Rest(script["rx"], k) /\ ClearingAt(k) /\ Head(script["rx"]) = ClearStep(k)
               /\ k < End => k + 1 \in 1..End /\ Rest(script'["rx"], k + 1)
               /\ k = End => script'["rx"] = <<>>
               /\ script'["flashlog"] = script["flashlog"]
  <2>1. script["rx"] \notin Seq(Harmless)
    BY <1>1, <1>5, HarmlessFacts
  <2>2. ~Notifies("rx")
    BY <1>5, NotifyDoes
  <2>3. PICK k \in 1..End : Rest(script["rx"], k)
    BY <2>1, <2>2 DEF Discipline, ConsoleScript
  <2>4. ClearingAt(k) /\ Head(script["rx"]) = ClearStep(k)
    BY <2>3, RestFacts DEF Recorded, Clearing
  <2>5. script'["rx"] = Tail(script["rx"]) /\ script'["flashlog"] = script["flashlog"]
    BY <1>3, <1>5, UserTask
  <2>6. k < End => k + 1 \in 1..End
    BY <1>4
  <2> QED BY <2>3, <2>4, <2>5, <2>6, RestFacts
<1>6. CASE /\ Head(script["rx"]).op = "unready" /\ kept' = {}
           /\ script' = [script EXCEPT !["rx"] = Tail(@)]
           /\ log' = [log EXCEPT !.ready = FALSE]
  <2>1. PICK k \in 1..End :
               /\ Rest(script["rx"], k) /\ ClearingAt(k) /\ Head(script["rx"]) = ClearStep(k)
               /\ k < End => k + 1 \in 1..End /\ Rest(script'["rx"], k + 1)
               /\ k = End => script'["rx"] = <<>>
               /\ script'["flashlog"] = script["flashlog"]
    BY <1>5, <1>6
  <2>2. k = 1
    BY <1>6, <2>1, ClearShape
  <2>3. /\ log'.ready = FALSE /\ log'.at = log.at /\ log'.rec = log.rec /\ log'.count = log.count
    BY <1>3, <1>6
  <2>4. Solid' /\ BusyKept' /\ Counted'
    BY <1>1, <1>6, <2>3 DEF Recorded, Solid, BusyKept, Counted
  <2>5. PICK j \in 1..End : j = 2 /\ Rest(script'["rx"], j)
    BY <1>4, <2>1, <2>2
  <2>6. ClearingAt(j)'
    BY <1>4, <1>6, <2>3, <2>5 DEF ClearingAt
  <2>7. ASSUME NEW i \in 1..End, Rest(script'["rx"], i) PROVE ClearingAt(i)'
    <3>1. i = j
      BY <2>5, <2>7, RestUnique
    <3> QED BY <2>6, <3>1
  <2>8. Clearing'
    BY <2>7 DEF Clearing, Rest
  <2> QED BY <2>4, <2>8 DEF Recorded
<1>7. CASE /\ Head(script["rx"]).op = "zero" /\ kept' = kept
           /\ script' = [script EXCEPT !["rx"] = Tail(@)]
           /\ log' = [log EXCEPT !.count = 0]
  <2>1. PICK k \in 1..End :
               /\ Rest(script["rx"], k) /\ ClearingAt(k) /\ Head(script["rx"]) = ClearStep(k)
               /\ k < End => k + 1 \in 1..End /\ Rest(script'["rx"], k + 1)
               /\ k = End => script'["rx"] = <<>>
               /\ script'["flashlog"] = script["flashlog"]
    BY <1>5, <1>7
  <2>2. k = End - 1
    BY <1>7, <2>1, ClearShape
  <2>3. Quiet /\ kept = {}
    BY <1>4, <2>1, <2>2 DEF ClearingAt
  <2>4. /\ log'.ready = log.ready /\ log'.at = log.at /\ log'.rec = log.rec /\ log'.count = 0
    BY <1>3, <1>7
  <2>5. Solid' /\ BusyKept' /\ Counted'
    <3>1. \A i \in 1..0 : FALSE
      OBVIOUS
    <3> QED BY <1>1, <1>4, <1>7, <2>3, <2>4, <3>1
         DEF Solid, BusyKept, Counted, Quiet, AllErased, Idle
  <2>6. Quiet'
    BY <1>1, <1>2, <2>1, <2>3, <2>4 DEF Quiet, AllErased, Scans
  <2>7. PICK j \in 1..End : j = End /\ Rest(script'["rx"], j)
    <3>1. k < End /\ k + 1 = End
      BY <1>4, <2>2
    <3> QED BY <2>1, <3>1
  <2>8. ClearingAt(j)'
    <3>1. ~(j \in 2..3) /\ j # 3 /\ ~(j \in 4..End - 2)
      BY <1>4, <2>7
    <3> QED BY <1>7, <2>3, <2>4, <2>6, <3>1 DEF ClearingAt
  <2>9. ASSUME NEW i \in 1..End, Rest(script'["rx"], i) PROVE ClearingAt(i)'
    <3>1. i = j
      BY <2>7, <2>9, RestUnique
    <3> QED BY <2>8, <3>1
  <2>10. Clearing'
    BY <2>9 DEF Clearing, Rest
  <2> QED BY <2>5, <2>10 DEF Recorded
<1>8. CASE /\ Head(script["rx"]).op = "ready" /\ kept' = kept
           /\ script' = [script EXCEPT !["rx"] = Tail(@)]
           /\ log' = [log EXCEPT !.ready = TRUE]
  <2>1. PICK k \in 1..End :
               /\ Rest(script["rx"], k) /\ ClearingAt(k) /\ Head(script["rx"]) = ClearStep(k)
               /\ k < End => k + 1 \in 1..End /\ Rest(script'["rx"], k + 1)
               /\ k = End => script'["rx"] = <<>>
               /\ script'["flashlog"] = script["flashlog"]
    BY <1>5, <1>8
  <2>2. k = End
    BY <1>8, <2>1, ClearShape
  <2>3. Quiet /\ kept = {} /\ log.count = 0
    BY <1>4, <2>1, <2>2 DEF ClearingAt
  <2>4. /\ log'.ready = TRUE /\ log'.at = log.at /\ log'.rec = log.rec /\ log'.count = 0
    BY <1>3, <1>8, <2>3
  <2>5. Solid' /\ BusyKept' /\ Counted'
    <3>1. \A i \in 1..0 : FALSE
      OBVIOUS
    <3> QED BY <1>1, <1>4, <1>8, <2>3, <2>4, <3>1
         DEF Solid, BusyKept, Counted, Quiet, AllErased, Idle
  <2>6. Clearing'
    <3>1. script'["rx"] = <<>>
      BY <2>1, <2>2
    <3> QED BY <3>1, NothingHarmless, NoRest DEF Clearing, Rest
  <2> QED BY <2>5, <2>6 DEF Recorded
<1>9. CASE /\ Head(script["rx"]).op = "dump" /\ kept' = kept /\ log' = log
           /\ script' = [script EXCEPT !["rx"] =
                IF log.ready THEN Do("wait_ready", 0) \o ReadRecords(log.count) ELSE <<>>]
  <2>1. script'["rx"] = Do("wait_ready", 0) \o ReadRecords(log.count) \/ script'["rx"] = <<>>
    BY <1>3, <1>9, UserTask
  <2>2. Do("wait_ready", 0) \o ReadRecords(log.count) \in Seq(Harmless)
    <3>1. Single("wait_ready", 0) \in Harmless
      BY DEF Single, Harmless, Steps
    <3>2. Do("wait_ready", 0) \in Seq(Harmless) /\ ReadRecords(log.count) \in Seq(Harmless)
      BY <1>3, <3>1, DoIsSeq, ReadRecordsHarmless
    <3> QED BY <3>2, Join
  <2>3. script'["rx"] \in Seq(Harmless)
    BY <2>1, <2>2, NothingHarmless
  <2>4. Clearing'
    BY <2>3, NoRest DEF Clearing, Rest
  <2> QED BY <1>1, <1>9, <2>4, SameRecords DEF Recorded
<1> QED BY Zenon, <1>6, <1>7, <1>8, <1>9, LogCommandSteps

LEMMA StartDelayKeeps ==
  ASSUME Discipline, Recorded, NEW t \in Task, StartDelay(t)
  PROVE  Recorded'
<1>1. /\ Step(t, "call", "dly") /\ script' = script /\ got' = got
      /\ chip' = chip /\ queue' = queue /\ log' = log /\ kept' = kept
      /\ script[t] # <<>> /\ Head(script[t]).op = "dly"
  BY DEF StartDelay, flashVars, logVars, Doing
<1>2. \A u \in Task : u # t => pc'[u] = pc[u]
  BY <1>1, Running
<1>3. CASE t = "rx"
  <2>1. \A k : ~Rest(script["rx"], k)
    BY <1>1, <1>3, NotClearing
  <2>2. Clearing'
    BY <1>1, <2>1 DEF Clearing, Rest
  <2> QED BY <1>1, <2>2, SameRecords DEF Recorded
<1>4. CASE t = "flashlog"
  <2>1. Scans /\ pc'["rx"] = pc["rx"]
    BY <1>1, <1>2, <1>4, LogDoes, UserTask DEF Single
  <2>2. ~HandOver /\ \A i : ~Dirty(i)
    BY <2>1 DEF HandOver, Dirty
  <2>3. Quiet => Quiet'
    BY <1>1, <2>1 DEF Quiet, AllErased, Scans
  <2>4. Clearing'
    BY <1>1, <2>1, <2>2, <2>3, ClearingStays
  <2> QED BY <1>1, <2>4, SameRecords DEF Recorded
<1>5. t # "mpuirq"
  BY <1>1, NotifyDoes DEF Discipline, NotifierScript
<1> QED BY <1>3, <1>4, <1>5, UserTask

LEMMA TimeUpKeeps ==
  ASSUME Discipline, Recorded, NEW t \in Task, TimeUp(t)
  PROVE  Recorded'
<1>1. /\ got' = got /\ sem' = sem /\ chip' = chip /\ queue' = queue /\ log' = log /\ kept' = kept
  BY TimeUpFacts
<1>2. /\ \A u \in Task : u # t => pc'[u] = pc[u] /\ script'[u] = script[u]
      /\ \/ pc[t] = "dly" /\ pc'[t] = "call" /\ script'[t] = Tail(script[t])
         \/ pc[t] = "exec_dly" /\ pc'[t] = "exec" /\ script' = script
         \/ pc[t] = "poll_dly" /\ pc'[t] = "poll" /\ script' = script
  BY TimeUpFacts
<1>3. t # "mpuirq"
  BY <1>2 DEF Discipline, NotifierScript
<1>4. CASE t = "rx" /\ pc[t] = "dly"
  <2>1. script["rx"] # <<>> /\ Head(script["rx"]).op = "dly" /\ script'["rx"] = Tail(script["rx"])
    BY <1>2, <1>4 DEF Discipline, Calls, Doing
  <2>2. \A k : ~Rest(script["rx"], k)
    BY <2>1, NotClearing
  <2>3. script'["rx"] \in Seq(Harmless)
    BY <2>1, <2>2, NotifyDoes, HarmlessFacts DEF Discipline, ConsoleScript
  <2>4. Clearing'
    BY <2>3, NoRest DEF Clearing, Rest
  <2> QED BY <1>1, <2>4, SameRecords DEF Recorded
<1>5. CASE t = "rx" /\ pc[t] # "dly"
  <2>1. /\ script' = script /\ pc'["flashlog"] = pc["flashlog"]
        /\ pc["rx"] \in {"exec_dly", "poll_dly"}
        /\ pc'["rx"] = "exec" \/ (pc["rx"] = "poll_dly" /\ pc'["rx"] = "poll")
    BY <1>2, <1>5, UserTask
  <2>2. (Quiet => Quiet') /\ \A i : Dirty(i) => Dirty(i)'
    BY <1>1, <2>1, ConsoleMoves
  <2>3. ASSUME NEW k \in 1..End, Rest(script["rx"], k) PROVE ClearingAt(k)'
    <3>1. ClearingAt(k)
      BY <2>3 DEF Recorded, Clearing
    <3>2. k = 3
      BY <2>1, <2>3, ClearDoes
    <3> QED BY <1>1, <2>1, <3>1, <3>2, EndFacts DEF ClearingAt, AllErased
  <2>4. Clearing'
    BY <2>1, <2>3 DEF Clearing, Rest
  <2> QED BY <1>1, <2>4, SameRecords DEF Recorded
<1>6. CASE t = "flashlog"
  <2>1. script'["rx"] = script["rx"] /\ pc'["rx"] = pc["rx"]
    BY <1>2, <1>6, UserTask
  <2>2. ~HandOver
    BY <1>2, <1>6, LogReady DEF HandOver, Delayed
  <2>3. \A i : Dirty(i) => Dirty(i)'
    BY <1>1 DEF Dirty, Scans
  <2>4. Quiet => Quiet'
    BY <1>1, <1>2, <1>6 DEF Quiet, AllErased, Scans
  <2>5. Clearing'
    BY <1>1, <2>1, <2>2, <2>3, <2>4, ClearingStays
  <2> QED BY <1>1, <2>5, SameRecords DEF Recorded
<1> QED BY <1>3, <1>4, <1>5, <1>6, UserTask

(* What was counted survives a reset.                                      *)
LEMMA ResetKeeps ==
  ASSUME Discipline, Recorded, Reset
  PROVE  Recorded'
<1>1. script' = AtStart /\ log' = NotReady /\ kept' = kept
  BY DEF Reset, Boot
<1>2. PICK cell \in Torn(chip.busy) : chip' = [cell |-> cell, busy |-> Idle]
  BY DEF Reset
<1>3. /\ chip'.cell = cell /\ chip'.busy = Idle /\ chip'.busy.cmd = "none"
      /\ chip.busy.cmd \in {"none", "program", "erase"}
      /\ (chip.busy.cmd = "none" <=> chip.busy = Idle)
      /\ MaxRecords \in Nat /\ Slot = 1..MaxRecords /\ kept \in SUBSET Nat
  BY <1>2, EndFacts DEF Idle, Discipline, FlashTypes, Jobs, Slot
<1>4. Solid'
  <2>1. ASSUME NEW i \in kept PROVE i \in Slot /\ chip'.cell[i].whole /\ \A j \in 1..i : Valid(j)'
    <3>1. i \in Slot /\ chip.cell[i].whole /\ \A j \in 1..i : Valid(j)
      BY <2>1 DEF Recorded, Solid
    <3>2. ~(chip.busy.cmd = "erase" /\ chip.busy.slot \in Slot)
      BY <2>1 DEF Recorded, BusyKept
    <3>3. chip.busy.cmd = "program" /\ chip.busy.slot \in Slot => i < chip.busy.slot
      BY <2>1 DEF Recorded, BusyKept
    <3>4. ASSUME NEW j \in 1..i PROVE chip'.cell[j] = chip.cell[j]
      <4>1. j \in Slot /\ (chip.busy.cmd = "program" /\ chip.busy.slot \in Slot => j # chip.busy.slot)
        BY <1>3, <3>1, <3>3
      <4> QED BY <1>3, <3>2, <4>1, TornFacts
    <3>5. i \in 1..i
      BY <1>3, <3>1
    <3> QED BY <3>1, <3>4, <3>5 DEF Valid
  <2> QED BY <1>1, <2>1 DEF Solid
<1>5. Counted'
  BY <1>1, <1>3 DEF Counted, NotReady, Scans
<1>6. BusyKept'
  BY <1>3 DEF BusyKept
<1>7. Clearing'
  <2>1. script'["rx"] = <<>>
    BY <1>1, UserTask DEF AtStart
  <2> QED BY <2>1, NothingHarmless, NoRest DEF Clearing, Rest
<1> QED BY <1>4, <1>5, <1>6, <1>7 DEF Recorded

(***************************************************************************)
(* The theorems.                                                           *)
(***************************************************************************)
FlashInv == Discipline /\ (overtaken \/ Recorded)

LEMMA FlashInvInit == Init => FlashInv
<1> SUFFICES ASSUME Init PROVE Discipline /\ Recorded
  BY DEF FlashInv
<1>1. Discipline
  BY InitDiscipline
<1>2. script["rx"] = <<>>
  BY UserTask DEF Init, AtStart
<1>3. Clearing
  BY <1>2, NothingHarmless, NoRest DEF Clearing
<1>4. Solid /\ Counted /\ BusyKept
  BY EndFacts DEF Init, Solid, Counted, BusyKept, NotReady, Scans, Idle
<1> QED BY <1>1, <1>3, <1>4 DEF Recorded

LEMMA FlashInvNext == FlashInv /\ [Next]_vars => FlashInv'
<1> SUFFICES ASSUME FlashInv, [Next]_vars, ~overtaken' PROVE Discipline' /\ Recorded'
  BY DisciplineNext DEF FlashInv
<1>1. Discipline /\ Discipline'
  BY DisciplineNext DEF FlashInv
<1>2. ~overtaken
  <2>1. overtaken' = overtaken \/ flashlog_scan
    BY DEF Next, TaskStep, FlashCall, StartDelay, Notify, task_flashlog, Receive, Verify, LogCommand,
           TimeUp, Command, Report, Complete, Reset, logVars, vars
  <2>2. ASSUME flashlog_scan PROVE overtaken' = overtaken \/ (overtaken => overtaken')
    BY <1>1, <2>2, ScanSteps
  <2> QED BY <2>1, <2>2
<1>3. Recorded
  BY <1>2 DEF FlashInv
<1>4. CASE \E t \in Task : TaskStep(t) \/ TimeUp(t)
  <2>1. PICK t \in Task : TaskStep(t) \/ TimeUp(t)
    BY <1>4
  <2>2. CASE t = "flashlog" /\ task_flashlog
    BY <1>1, <1>3, <2>2, ScanKeeps, ReceiveKeeps, VerifyKeeps DEF task_flashlog
  <2>3. CASE FlashCall(t) \/ StartDelay(t) \/ Notify(t) \/ TimeUp(t) \/ LogCommand
    BY <1>1, <1>3, <2>3, FlashCallKeeps, StartDelayKeeps, NotifyKeeps, TimeUpKeeps, LogCommandKeeps
  <2> QED BY <1>1, <2>1, <2>2, <2>3 DEF TaskStep
<1>5. CASE \E c \in Commands : Command(c)
  BY <1>1, <1>3, <1>5, CommandKeeps
<1>6. CASE \E e \in {"MOVING", "STOPPED"} : Report(e)
  BY <1>1, <1>3, <1>6, ReportKeeps DEF Events
<1>7. CASE Complete
  BY <1>1, <1>3, <1>7, CompleteKeeps
<1>8. CASE Reset
  BY <1>1, <1>3, <1>8, ResetKeeps
<1>9. CASE UNCHANGED vars
  <2>1. /\ pc' = pc /\ script' = script /\ got' = got /\ sem' = sem /\ chip' = chip
        /\ queue' = queue /\ log' = log /\ kept' = kept
    BY <1>9 DEF vars, flashVars, logVars
  <2>2. Quiet => Quiet'
    BY <2>1 DEF Quiet, AllErased, Scans
  <2>3. \A i : Dirty(i) => Dirty(i)'
    BY <2>1 DEF Dirty, Scans
  <2>4. HandOver => HandOver'
    BY <2>1, LogReady DEF HandOver, AllErased, Scans, Waits
  <2>5. Clearing'
    BY <1>1, <1>3, <2>1, <2>2, <2>3, <2>4, ClearingStays
  <2> QED BY <1>1, <1>3, <2>1, <2>5, SameRecords DEF Recorded
<1> QED BY <1>4, <1>5, <1>6, <1>7, <1>8, <1>9 DEF Next

(* The calls of the flash driver exclude each other: of the log task and   *)
(* the console at most one is past w25qxx_lock, and it stays alone through *)
(* the delays of the waits; what a scan reads cannot change under it.      *)
THEOREM FlashIsExclusive ==
  Spec => [](InFlash("flashlog") /\ InFlash("rx") => Waits("flashlog") \/ Waits("rx"))
<1>1. FlashInv => (InFlash("flashlog") /\ InFlash("rx") => Waits("flashlog") \/ Waits("rx"))
  BY Holding, UserTask DEF FlashInv
<1> QED BY <1>1, FlashInvInit, FlashInvNext, PTL DEF Spec

(* LogHoldsRecords: as long as no scan was done while the log was being    *)
(* cleared, a log that is ready holds the records it counts, and among     *)
(* them all that were counted since the last clearing began, through       *)
(* failures of the flash, overlapping commands and resets.                 *)
THEOREM RecordsAreKept == Spec => []LogHoldsRecords
<1>1. FlashInv => LogHoldsRecords
  <2> SUFFICES ASSUME FlashInv, log.ready, ~overtaken
               PROVE  /\ \A i \in 1..log.count : record_is_valid(chip.cell[i]) /\ chip.cell[i].seq = i
                      /\ \A i \in kept : i <= log.count /\ chip.cell[i].whole
    BY DEF LogHoldsRecords
  <2>1. Solid /\ Counted /\ Discipline
    BY DEF FlashInv, Recorded
  <2>2. CASE Scans
    <3>1. kept = {} /\ log.count = 0
      BY <2>1, <2>2 DEF Counted, Discipline, LogScript
    <3> QED BY <3>1
  <2>3. CASE ~Scans
    BY <2>1, <2>3 DEF Solid, Counted, Valid
  <2> QED BY <2>2, <2>3
<1> QED BY <1>1, FlashInvInit, FlashInvNext, PTL DEF Spec

(* ClearedLogIsEmpty: when the clearing is about to report success, the    *)
(* sector is erased and no record is counted, whatever the log task and    *)
(* the notifying task did meanwhile.                                       *)
THEOREM ClearedIsEmpty == Spec => []ClearedLogIsEmpty
<1>1. FlashInv => ClearedLogIsEmpty
  <2> SUFFICES ASSUME FlashInv, Doing("rx", {"ready"}), ~overtaken
               PROVE  log.count = 0 /\ \A i \in Slot : chip.cell[i] = Erased
    BY DEF ClearedLogIsEmpty
  <2>1. script["rx"] # <<>> /\ Head(script["rx"]).op = "ready"
    BY DEF Doing
  <2>2. PICK k \in 1..End : Rest(script["rx"], k)
    BY <2>1, NotifyDoes, HarmlessFacts DEF FlashInv, Discipline, ConsoleScript
  <2>3. k = End
    <3>1. Head(script["rx"]) = ClearStep(k)
      BY <2>2, RestFacts
    <3> QED BY <2>1, <3>1, ClearShape
  <2>4. Quiet /\ log.count = 0
    BY <2>2, <2>3, EndFacts DEF FlashInv, Recorded, Clearing, ClearingAt
  <2> QED BY <2>4 DEF Quiet, AllErased
<1> QED BY <1>1, FlashInvInit, FlashInvNext, PTL DEF Spec
=============================================================================
