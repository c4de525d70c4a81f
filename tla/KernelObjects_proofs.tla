----------------------- MODULE KernelObjects_proofs -----------------------
(***************************************************************************)
(* Proofs about Semaphore, EventFlag and MessageQueue, for every set of    *)
(* objects, sizes, bits, messages, tasks and bounds, and about what the    *)
(* tick drives, for every tick length: the timed waits of KernelTime and   *)
(* the handlers of Cyclic.  The invariants of the kernel core hold with    *)
(* Semaphore, EventFlag, MessageQueue or KernelTime on top of it, and with *)
(* them those of the object; every message queue is a channel.  The        *)
(* modules share only the kernel core: Spec is that of Semaphore, FlagSpec *)
(* that of EventFlag, MessageSpec that of MessageQueue, TimeSpec that of   *)
(* KernelTime, CycSpec that of Cyclic.                                     *)
(***************************************************************************)
EXTENDS Semaphore, EventFlag, MessageQueue, KernelTime, Cyclic, Kernel_proofs

(***************************************************************************)
(* Semaphores: grants are in order, and none is due.                       *)
(***************************************************************************)

(* The inductive invariant. *)
SemInv == KernelInv /\ SemTypeOK /\ SemaphoreInv

(* The waiters of a semaphore are the tasks that wait for it, once each.   *)
LEMMA WaitersProperties ==
  ASSUME SemInv, NEW s \in Sem
  PROVE  /\ Waiters(s) \in Seq(Task) /\ NoDuplicates(Waiters(s))
         /\ Range(Waiters(s)) = Waiting(s)
         /\ Waiting(s) \in SUBSET Range(wait_queue)
         /\ \A t \in Waiting(s) : /\ t \in Task /\ waifct[t] = "SEM" /\ state[t] = "WAIT"
                                  /\ waisem[t].obj = s /\ waisem[t].cnt \in Nat
<1>1. \A t \in Waiting(s) : /\ t \in Task /\ waifct[t] = "SEM" /\ state[t] = "WAIT"
                            /\ waisem[t].obj = s /\ waisem[t].cnt \in Nat
  BY DEF Waiting, SemInv, SemaphoreInv, SemTypeOK, KernelInv, ProcessorInv
<1>2. Waiting(s) \in SUBSET Range(wait_queue)
  BY <1>1 DEF SemInv, KernelInv, QueueIntegrity
<1>3. wait_queue \in Seq(Task) /\ NoDuplicates(wait_queue)
  BY DEF SemInv, KernelInv, TypeOK, QueueIntegrity
<1>4. Waiters(s) \in Seq(Task) /\ NoDuplicates(Waiters(s))
      /\ Range(Waiters(s)) = Range(wait_queue) \cap Waiting(s)
  BY <1>3, EntriesProperties DEF Waiters
<1> QED BY <1>1, <1>2, <1>4

(* What a task waits for follows its wait factor when waits end.           *)
LEMMA EndWaitsPreserves ==
  ASSUME SemInv, EndWaits, \A t \in Task : waifct'[t] = "SEM" => waifct[t] = "SEM"
  PROVE  /\ waisem' \in [Task -> {<<>>} \cup [obj : Sem, cnt : Nat \ {0}]]
         /\ \A t \in Task : waisem'[t] # <<>> <=> waifct'[t] = "SEM"
         /\ \A t \in Task : waisem'[t] # <<>> => waisem'[t] = waisem[t]
BY DEF EndWaits, SemInv, SemaphoreInv, SemTypeOK

LEMMA CreateSemPreserves ==
  ASSUME SemInv, NEW s \in Sem, tk_cre_sem(s)
  PROVE  SemInv'
<1>1. KernelInv' /\ UNCHANGED <<waifct, waisem>>
  BY KernelStutter DEF tk_cre_sem, SemInv, kernelVars, tcbVars
<1>2. /\ \A r \in Sem : semcnt'[r] = IF r = s THEN InitSem[s] ELSE semcnt[r]
      /\ \A r \in Sem : semst'[r] = IF r = s THEN "EXIST" ELSE semst[r]
      /\ InitSem[s] \in Nat /\ MaxSem[s] \in Nat /\ InitSem[s] <= MaxSem[s]
  BY SemaphoreAssumption DEF tk_cre_sem, SemInv, SemTypeOK
<1>3. SemTypeOK'
  BY <1>1, <1>2 DEF tk_cre_sem, SemInv, SemTypeOK
<1>4. SemaphoreInv'
  BY <1>1, <1>2 DEF SemInv, SemaphoreInv, SemTypeOK
<1> QED BY <1>1, <1>3, <1>4 DEF SemInv

LEMMA WaitSemPreserves ==
  ASSUME SemInv, NEW s \in Sem, NEW cnt \in Counts, NEW tmout \in SemWaits,
         tk_wai_sem(s, cnt, tmout)
  PROVE  SemInv'
<1>1. /\ InTask /\ semst[s] = "EXIST" /\ cnt <= MaxSem[s] /\ cnt \in Nat \ {0}
      /\ semcnt[s] \in 0..MaxSem[s] /\ MaxSem[s] \in Nat
  BY SemaphoreAssumption DEF tk_wai_sem, SemInv, SemaphoreInv
<1>2. CASE Available(s, cnt)
  <2>1. semcnt' = [semcnt EXCEPT ![s] = semcnt[s] - cnt] /\ UNCHANGED <<kernelVars, semst, waisem>>
    BY <1>2 DEF tk_wai_sem
  <2>2. KernelInv' /\ UNCHANGED waifct
    BY <2>1, KernelStutter DEF SemInv, kernelVars, tcbVars
  <2>3. semcnt[s] - cnt \in 0..MaxSem[s]
    BY <1>1, <1>2 DEF Available
  <2> QED BY <2>1, <2>2, <2>3 DEF SemInv, SemaphoreInv, SemTypeOK
<1>3. CASE ~Available(s, cnt)
  <2>1. /\ Suspend("SEM", WaitTime(tmout))
        /\ waisem' = [waisem EXCEPT ![cur_task] = [obj |-> s, cnt |-> cnt]]
        /\ UNCHANGED <<itskpri, wupcnt, cpuVars, semst, semcnt>>
    BY <1>3 DEF tk_wai_sem
  <2>2. WaitTime(tmout) \in Nat \cup {TMO_FEVR}
    BY SemaphoreAssumption, KernelAssumption, TimerAssumption DEF WaitTime
  <2>3. "SEM" \in Waifct \ {"NON"} /\ "SEM" # "SLP"
    BY SemaphoreAssumption DEF Waifct
  <2>4. KernelInv'
    BY <1>1, <2>1, <2>2, <2>3, SuspendPreserves DEF SemInv
  <2>5. cur_task \in Task /\ state[cur_task] = "READY"
    BY <1>1, RunningIsHead DEF SemInv
  <2>6. waifct' = [waifct EXCEPT ![cur_task] = "SEM"]
    BY <2>1 DEF Suspend, StartWait
  <2>7. SemTypeOK'
    BY <1>1, <2>1, <2>5 DEF SemInv, SemTypeOK
  <2>8. SemaphoreInv'
    BY <1>1, <2>1, <2>5, <2>6 DEF SemInv, SemaphoreInv, SemTypeOK, KernelInv, TypeOK
  <2> QED BY <2>4, <2>7, <2>8 DEF SemInv
<1> QED BY <1>2, <1>3

(* No waiters, nothing to link. *)
LEMMA NothingReadied ==
  ASSUME KernelInv
  PROVE  ReadyAfter({}) = ready_queue
<1>1. wait_queue \in Seq(Task) /\ ready_queue \in Queues
  BY DEF KernelInv, TypeOK, Queues
<1> DEFINE e == Entries(wait_queue, {})
<1>2. e \in Seq(Task) /\ Range(e) = {}
  BY <1>1, EntriesProperties
<1>3. e = <<>>
  <2> HIDE DEF e
  <2>1. Len(e) \in Nat /\ DOMAIN e = 1..Len(e)
    BY <1>2, LenProperties
  <2>2. DOMAIN e = {}
    BY <1>2, <2>1 DEF Range
  <2>3. Len(e) = 0
    BY <2>1, <2>2
  <2> QED BY <1>2, <2>3, EmptySeq
<1>4. \A p \in Pri : ready_queue[p] \o e = ready_queue[p]
  BY <1>1, <1>3, ConcatEmptySeq DEF Queues
<1>5. ReadyAfter({}) = [p \in Pri |-> ready_queue[p] \o e]
  BY DEF ReadyAfter
<1> QED BY <1>1, <1>4, <1>5 DEF Queues

(* Ending the waits of a sequence of tasks in turn, with scheduler() after *)
(* each, schedules as one call after the last does.                        *)
LEMMA ReleaseInTurnPreserves ==
  ASSUME KernelInv, NEW W \in Seq(Task), Range(W) \in SUBSET Range(wait_queue),
         ReleaseInTurn(W), UNCHANGED <<itskpri, wupcnt, cpuVars>>
  PROVE  KernelInv'
<1>1. Awaken(Range(W), [t \in Task |-> "E_OK"])
      /\ waitim' = [t \in Task |-> IF t \in Range(W) THEN 0 ELSE waitim[t]]
  BY DEF ReleaseInTurn
<1>2. Scheduled
  <2>1. CASE W = <<>>
    <3>1. Range(W) = {} /\ UNCHANGED <<sche_task, pendsv>>
      BY <2>1 DEF ReleaseInTurn, Range
    <3>2. ready_queue' = ready_queue
      BY <1>1, <3>1, NothingReadied DEF Awaken
    <3> QED BY <3>1, <3>2 DEF Scheduled, KernelInv, TypeOK, NoLostDispatch
  <2>2. CASE W # <<>>
    <3>1. /\ sche_task' = TopTask(ready_queue')
          /\ pendsv' = \/ pendsv
                       \/ /\ ~disp_running
                          /\ \E k \in 1..Len(W) :
                               TopTask(ReadyAfter({W[i] : i \in 1..k})) # cur_task
      BY <2>2 DEF ReleaseInTurn
    <3>2. Len(W) \in 1..Len(W) /\ DOMAIN W = 1..Len(W)
      BY <2>2, LenProperties, EmptySeq
    <3>3. {W[i] : i \in 1..Len(W)} = Range(W)
      BY <3>2 DEF Range
    <3>4. ready_queue' = ReadyAfter({W[i] : i \in 1..Len(W)})
      BY <1>1, <3>3 DEF Awaken
    <3> QED BY <3>1, <3>2, <3>4 DEF Scheduled, disp_running, KernelInv, TypeOK
  <2> QED BY <2>1, <2>2
<1>3. waitim' \in [Task -> Nat \cup {TMO_FEVR}]
  BY <1>1 DEF KernelInv, TypeOK
<1>4. Range(W) \in SUBSET Task
  BY RangeOfSeq
<1> DEFINE S == Range(W)
           err == [t \in Task |-> "E_OK"]
<1>5. \A t \in S : err[t] \in {"E_OK", "E_TMOUT"}
  BY <1>4
<1> HIDE DEF S, err
<1> QED BY <1>1, <1>2, <1>3, <1>5, AwakenPreserves DEF S, err

(* What one return of units does: some first waiters are granted, and only *)
(* they.                                                                   *)
LEMMA SignalGrants ==
  ASSUME SemInv, NEW s \in Sem, NEW cnt \in Counts, tk_sig_sem(s, cnt)
  PROVE  \E n \in 0..Len(Waiters(s)) :
           /\ ReleaseInTurn(SubSeq(Waiters(s), 1, n))
           /\ SubSeq(Waiters(s), 1, n) \in Seq(Task)
           /\ Range(SubSeq(Waiters(s), 1, n)) = {Waiters(s)[k] : k \in 1..n}
           /\ Range(SubSeq(Waiters(s), 1, n)) \in SUBSET Waiting(s)
           /\ semcnt' = [semcnt EXCEPT ![s] = semcnt'[s]] /\ semcnt'[s] \in 0..MaxSem[s]
           /\ Stops(Waiters(s), n, semcnt'[s])
<1> DEFINE W == Waiters(s)
<1>1. W \in Seq(Task) /\ Range(W) = Waiting(s)
  BY WaitersProperties
<1>2. /\ semcnt[s] \in Nat /\ MaxSem[s] \in Nat /\ cnt \in Nat
      /\ semcnt[s] + cnt <= MaxSem[s] /\ semcnt \in [Sem -> Nat]
  <2>1. ~Overflows(s, cnt)
    BY DEF tk_sig_sem
  <2>2. MaxSem[s] \in Nat /\ cnt \in Nat /\ semcnt \in [Sem -> Nat]
    BY SemaphoreAssumption DEF SemInv, SemTypeOK
  <2> QED BY <2>1, <2>2 DEF Overflows
<1>3. PICK n \in 0..Len(W) : \E left \in [0..n -> 0..(semcnt[s] + cnt)] :
        /\ Stops(W, n, left[n])
        /\ semcnt' = [semcnt EXCEPT ![s] = left[n]]
        /\ ReleaseInTurn(SubSeq(W, 1, n))
  BY DEF tk_sig_sem
<1>4. /\ semcnt' = [semcnt EXCEPT ![s] = semcnt'[s]] /\ semcnt'[s] \in 0..MaxSem[s]
      /\ Stops(W, n, semcnt'[s])
  BY <1>2, <1>3
<1> HIDE DEF W
<1>5. Len(W) \in Nat /\ DOMAIN W = 1..Len(W) /\ \A k \in 1..Len(W) : W[k] \in Task
  BY <1>1, LenProperties, ElementOfSeq
<1>6. SubSeq(W, 1, n) = [k \in 1..n |-> W[k]]
  BY <1>5
<1>7. SubSeq(W, 1, n) \in Seq(Task)
  BY <1>5, <1>6, IsASeq
<1>8. Range(SubSeq(W, 1, n)) = {W[k] : k \in 1..n}
  BY <1>6 DEF Range
<1>9. {W[k] : k \in 1..n} \in SUBSET Range(W)
  BY <1>5 DEF Range
<1> QED BY <1>1, <1>3, <1>4, <1>7, <1>8, <1>9 DEF W

LEMMA SignalSemPreserves ==
  ASSUME SemInv, NEW s \in Sem, NEW cnt \in Counts, tk_sig_sem(s, cnt)
  PROVE  SemInv'
<1>1. PICK n \in 0..Len(Waiters(s)) :
           /\ ReleaseInTurn(SubSeq(Waiters(s), 1, n))
           /\ SubSeq(Waiters(s), 1, n) \in Seq(Task)
           /\ Range(SubSeq(Waiters(s), 1, n)) \in SUBSET Waiting(s)
           /\ semcnt' = [semcnt EXCEPT ![s] = semcnt'[s]] /\ semcnt'[s] \in 0..MaxSem[s]
  BY SignalGrants
<1>2. EndWaits /\ UNCHANGED <<itskpri, wupcnt, cpuVars, semst>>
  BY DEF tk_sig_sem
<1> DEFINE W == SubSeq(Waiters(s), 1, n)
<1>3. Range(W) \in SUBSET Range(wait_queue)
  BY <1>1, WaitersProperties
<1>4. KernelInv'
  <2> HIDE DEF W
  <2> QED BY <1>1, <1>2, <1>3, ReleaseInTurnPreserves DEF SemInv, W
<1>5. \A t \in Task : waifct'[t] = "SEM" => waifct[t] = "SEM"
  BY <1>1 DEF ReleaseInTurn, Awaken, EndWait
<1>6. SemTypeOK'
  <2>1. semcnt' \in [Sem -> Nat]
    <3>1. semcnt \in [Sem -> Nat] /\ MaxSem[s] \in Nat
      BY SemaphoreAssumption DEF SemInv, SemTypeOK
    <3>2. semcnt'[s] \in Nat /\ semcnt' = [semcnt EXCEPT ![s] = semcnt'[s]]
      BY <1>1, <3>1
    <3> QED BY <3>1, <3>2
  <2> QED BY <1>2, <1>5, <2>1, EndWaitsPreserves DEF SemInv, SemTypeOK
<1>7. SemaphoreInv'
  <2>1. \A r \in Sem : semcnt'[r] \in 0..MaxSem[r]
    BY <1>1 DEF SemInv, SemaphoreInv, SemTypeOK
  <2> QED BY <1>2, <1>5, <2>1, EndWaitsPreserves DEF SemInv, SemaphoreInv
<1> QED BY <1>4, <1>6, <1>7 DEF SemInv

LEMMA KernelStepPreserves ==
  ASSUME SemInv, KernelStep
  PROVE  SemInv'
<1>1. KernelInv' /\ EndWaits /\ UNCHANGED <<semst, semcnt>>
  BY KernelNextInv DEF SemInv, KernelStep
<1>2. \A t \in Task : waifct'[t] = "SEM" => waifct[t] = "SEM"
  BY KernelBeginsNoOtherWait, SemaphoreAssumption DEF SemInv, KernelStep
<1> QED BY <1>1, <1>2, EndWaitsPreserves DEF SemInv, SemaphoreInv, SemTypeOK

(***************************************************************************)
(* No wait without need: what each step leaves of the shortage of the      *)
(* first waiter.                                                           *)
(***************************************************************************)
Lacks(s) == Waiters(s) # <<>> => semcnt[s] < waisem[Head(Waiters(s))].cnt

LEMMA HeadOfWaiters ==
  ASSUME SemInv, NEW s \in Sem, Waiters(s) # <<>>
  PROVE  Head(Waiters(s)) \in Waiting(s) /\ Head(Waiters(s)) = Waiters(s)[1]
         /\ Len(Waiters(s)) >= 1
<1>1. Waiters(s) \in Seq(Task) /\ Range(Waiters(s)) = Waiting(s)
  BY WaitersProperties
<1>2. Head(Waiters(s)) = Waiters(s)[1] /\ Len(Waiters(s)) # 0 /\ Len(Waiters(s)) \in Nat
      /\ DOMAIN Waiters(s) = 1..Len(Waiters(s))
  BY <1>1, EmptySeq, LenProperties, HeadTailProperties
<1>3. Len(Waiters(s)) >= 1 /\ 1 \in DOMAIN Waiters(s)
  BY <1>2
<1> QED BY <1>1, <1>2, <1>3 DEF Range

(* A step that leaves the waiters of s as they are and adds no units.      *)
LEMMA SameWaiters ==
  ASSUME SemInv, NEW s \in Sem, Lacks(s),
         Entries(wait_queue', Waiting(s)) = Waiters(s), Waiting(s)' = Waiting(s),
         \A t \in Waiting(s) : waisem'[t] = waisem[t],
         semcnt'[s] \in Nat, semcnt'[s] <= semcnt[s]
  PROVE  Lacks(s)'
<1>1. Waiters(s)' = Waiters(s)
  BY DEF Waiters
<1>2. semcnt[s] \in Nat
  BY DEF SemInv, SemTypeOK
<1>3. ASSUME Waiters(s) # <<>> PROVE semcnt'[s] < waisem'[Head(Waiters(s))].cnt
  <2>1. Head(Waiters(s)) \in Waiting(s)
    BY <1>3, HeadOfWaiters
  <2>2. waisem[Head(Waiters(s))].cnt \in Nat /\ semcnt[s] < waisem[Head(Waiters(s))].cnt
    BY <1>3, <2>1, WaitersProperties DEF Lacks
  <2> QED BY <1>2, <2>1, <2>2
<1> QED BY <1>1, <1>3 DEF Lacks

LEMMA CreateSemLacks ==
  ASSUME SemInv, NEW s \in Sem, tk_cre_sem(s), NEW r \in Sem, Lacks(r)
  PROVE  Lacks(r)'
<1>1. UNCHANGED <<wait_queue, waisem>> /\ semst[s] = "NONEXIST"
      /\ semcnt' = [semcnt EXCEPT ![s] = InitSem[s]] /\ semcnt \in [Sem -> Nat]
  BY DEF tk_cre_sem, kernelVars, queueVars, SemInv, SemTypeOK
<1>2. Waiters(r)' = Waiters(r) /\ Waiting(r)' = Waiting(r)
  BY <1>1 DEF Waiters, Waiting
<1>3. CASE r = s
  <2>1. Waiting(r) = {}
    BY <1>1, <1>3 DEF Waiting, SemInv, SemaphoreInv
  <2>2. Waiters(r) = <<>>
    BY <2>1, HeadOfWaiters
  <2> QED BY <1>2, <2>2 DEF Lacks
<1>4. CASE r # s
  BY <1>1, <1>2, <1>4 DEF Lacks
<1> QED BY <1>3, <1>4

LEMMA WaitSemLacks ==
  ASSUME SemInv, NEW s \in Sem, NEW cnt \in Counts, NEW tmout \in SemWaits,
         tk_wai_sem(s, cnt, tmout), NEW r \in Sem, Lacks(r)
  PROVE  Lacks(r)'
<1>1. /\ InTask /\ cnt \in Nat \ {0} /\ semcnt \in [Sem -> Nat] /\ wait_queue \in Seq(Task)
      /\ waisem \in [Task -> {<<>>} \cup [obj : Sem, cnt : Nat \ {0}]]
  BY SemaphoreAssumption DEF tk_wai_sem, SemInv, SemTypeOK, KernelInv, TypeOK
<1>2. CASE Available(s, cnt)
  <2>1. semcnt' = [semcnt EXCEPT ![s] = semcnt[s] - cnt] /\ UNCHANGED <<wait_queue, waisem>>
        /\ semcnt[s] >= cnt
    BY <1>2 DEF tk_wai_sem, kernelVars, queueVars, Available
  <2>2. Entries(wait_queue', Waiting(r)) = Waiters(r) /\ Waiting(r)' = Waiting(r)
        /\ \A t \in Waiting(r) : waisem'[t] = waisem[t]
    BY <2>1 DEF Waiters, Waiting
  <2>3. semcnt'[r] \in Nat /\ semcnt'[r] <= semcnt[r]
    BY <1>1, <2>1
  <2> QED BY <2>2, <2>3, SameWaiters
<1>3. CASE ~Available(s, cnt)
  <2>1. /\ wait_queue' = Append(wait_queue, cur_task)
        /\ waisem' = [waisem EXCEPT ![cur_task] = [obj |-> s, cnt |-> cnt]]
        /\ UNCHANGED semcnt /\ ~(semcnt[s] >= cnt)
    BY <1>3 DEF tk_wai_sem, Suspend, StartWait, tqueue_add_entry, Available
  <2>2. cur_task \in Task /\ state[cur_task] = "READY"
    BY <1>1, RunningIsHead DEF SemInv
  <2>3. waisem[cur_task] = <<>> /\ cur_task \notin Range(wait_queue)
    BY <2>2 DEF SemInv, SemaphoreInv, KernelInv, ProcessorInv, QueueIntegrity
  <2>4. \A t \in Task : waisem'[t] = IF t = cur_task THEN [obj |-> s, cnt |-> cnt] ELSE waisem[t]
    BY <1>1, <2>1
  <2>5. cur_task \notin Waiting(r)
    BY <2>3 DEF Waiting
  <2>6. [obj |-> s, cnt |-> cnt] # <<>>
    BY <1>1
  <2>7. CASE r # s
    <3>1. Waiting(r)' = Waiting(r)
      BY <2>3, <2>4, <2>7 DEF Waiting
    <3> DEFINE U == Waiting(r)
    <3>2. Entries(wait_queue', U) = Entries(wait_queue, U)
      <4>1. cur_task \notin U
        BY <2>5
      <4> HIDE DEF U
      <4> QED BY <1>1, <2>1, <2>2, <4>1, EntriesOfAppend
    <3>3. \A t \in U : waisem'[t] = waisem[t]
      BY <2>4, <2>5 DEF Waiting
    <3> QED BY <1>1, <2>1, <3>1, <3>2, <3>3, SameWaiters DEF Waiters
  <2>8. CASE r = s
    <3> DEFINE U == Waiting(s) \cup {cur_task}
               W == Waiters(s)
    <3>1. Waiting(s)' = U
      BY <2>2, <2>3, <2>4, <2>6 DEF Waiting
    <3>2. Entries(wait_queue', U) = Append(Entries(wait_queue, U), cur_task)
      <4>1. cur_task \in U
        OBVIOUS
      <4> HIDE DEF U
      <4> QED BY <1>1, <2>1, <2>2, <4>1, EntriesOfAppend
    <3>3. Entries(wait_queue, U) = W
      <4>1. \A x \in Range(wait_queue) : x \in U <=> x \in Waiting(s)
        BY <2>3
      <4> DEFINE V == Waiting(s)
      <4> HIDE DEF U, V
      <4>2. Entries(wait_queue, U) = Entries(wait_queue, V)
        BY <1>1, <4>1, EntriesSame DEF V
      <4> QED BY <4>2 DEF V, Waiters
    <3>4. Waiters(s)' = Append(W, cur_task)
      BY <3>1, <3>2, <3>3 DEF Waiters
    <3>5. W \in Seq(Task)
      BY WaitersProperties
    <3>6. CASE W = <<>>
      <4>1. Head(Append(W, cur_task)) = cur_task
        BY <3>6
      <4>2. waisem'[cur_task].cnt = cnt /\ semcnt'[s] < cnt
        BY <1>1, <2>1, <2>2, <2>4
      <4> QED BY <2>8, <3>4, <4>1, <4>2 DEF Lacks
    <3>7. CASE W # <<>>
      <4> DEFINE h == Head(W)
      <4>1. Head(Append(W, cur_task)) = h
        <5> HIDE DEF W
        <5>1. Len(W) \in Nat /\ Len(W) >= 1 /\ h = W[1]
          BY <3>5, <3>7, LenProperties, EmptySeq, HeadTailProperties
        <5>2. /\ Append(W, cur_task) \in Seq(Task) /\ Append(W, cur_task) # <<>>
              /\ Append(W, cur_task)[1] = W[1]
          BY <2>2, <3>5, <5>1, AppendProperties, EmptySeq
        <5> QED BY <5>1, <5>2, HeadTailProperties
      <4>2. h \in Waiting(s) /\ semcnt[s] < waisem[h].cnt
        BY <2>8, <3>7, HeadOfWaiters DEF Lacks
      <4>3. h \in Task /\ h # cur_task
        BY <2>5, <2>8, <4>2 DEF Waiting
      <4>4. semcnt'[s] < waisem'[h].cnt
        BY <2>1, <2>4, <4>2, <4>3
      <4> HIDE DEF h, W
      <4> QED BY <2>8, <3>4, <4>1, <4>4 DEF Lacks
    <3> QED BY <3>6, <3>7
  <2> QED BY <2>7, <2>8
<1> QED BY <1>2, <1>3

LEMMA SignalSemLacks ==
  ASSUME SemInv, NEW s \in Sem, NEW cnt \in Counts, tk_sig_sem(s, cnt), NEW r \in Sem, Lacks(r)
  PROVE  Lacks(r)'
<1> DEFINE W == Waiters(s)
<1>1. PICK n \in 0..Len(W) :
           /\ ReleaseInTurn(SubSeq(W, 1, n))
           /\ Range(SubSeq(W, 1, n)) = {W[k] : k \in 1..n}
           /\ Range(SubSeq(W, 1, n)) \in SUBSET Waiting(s)
           /\ semcnt' = [semcnt EXCEPT ![s] = semcnt'[s]]
           /\ semcnt'[s] \in 0..MaxSem[s]
           /\ Stops(W, n, semcnt'[s])
  BY SignalGrants
<1> DEFINE G == {W[k] : k \in 1..n}
           R == Range(wait_queue) \ G
<1>2. /\ W \in Seq(Task) /\ Range(W) = Waiting(s) /\ NoDuplicates(W)
      /\ Len(W) \in Nat /\ DOMAIN W = 1..Len(W) /\ wait_queue \in Seq(Task)
  BY WaitersProperties, LenProperties DEF SemInv, KernelInv, TypeOK
<1>3. /\ wait_queue' = Entries(wait_queue, R) /\ EndWaits
      /\ waifct' = [t \in Task |-> IF t \in G THEN "NON" ELSE waifct[t]]
  BY <1>1 DEF ReleaseInTurn, Awaken, EndWait, tk_sig_sem
<1>4. \A t \in Task : waisem'[t] = IF t \in G THEN <<>> ELSE waisem[t]
  <2>1. \A t \in Task : waisem[t] # <<>> <=> waifct[t] = "SEM"
    BY DEF SemInv, SemaphoreInv
  <2> HIDE DEF G
  <2> QED BY <1>3, <2>1 DEF EndWaits
<1>5. G \in SUBSET Waiting(s)
  BY <1>1
<1> HIDE DEF G, R, W
<1>6. CASE r # s
  <2> DEFINE U == Waiting(r)
  <2>1. U \cap G = {} /\ U' = U /\ \A t \in U : waisem'[t] = waisem[t]
    BY <1>4, <1>5, <1>6 DEF Waiting
  <2>2. \A x \in Range(wait_queue) : x \in R \cap U <=> x \in U
    BY <2>1 DEF R
  <2>3. Entries(wait_queue', U) = Entries(wait_queue, R \cap U)
    <3> HIDE DEF U
    <3> QED BY <1>2, <1>3, EntriesOfEntries
  <2>4. Entries(wait_queue, R \cap U) = Entries(wait_queue, U)
    <3> DEFINE V == R \cap U
    <3> HIDE DEF U, V
    <3>1. \A x \in Range(wait_queue) : x \in V <=> x \in U
      BY <2>2 DEF V
    <3>2. Entries(wait_queue, V) = Entries(wait_queue, U)
      BY <1>2, <3>1, EntriesSame
    <3> QED BY <3>2 DEF V
  <2>5. semcnt'[r] = semcnt[r] /\ semcnt[r] \in Nat
    BY <1>1, <1>6 DEF SemInv, SemTypeOK
  <2> QED BY <2>1, <2>3, <2>4, <2>5, SameWaiters DEF Waiters
<1>7. CASE r = s
  <2> DEFINE U == Waiting(s)
             V == U \ G
  <2>1. Waiting(s)' = V /\ \A t \in V : waisem'[t] = waisem[t]
    BY <1>4 DEF Waiting
  <2>2. Waiters(s)' = Entries(wait_queue', V)
    BY <2>1 DEF Waiters
  <2>3. Entries(wait_queue', V) = Entries(wait_queue, R \cap V)
    <3> HIDE DEF V
    <3> QED BY <1>2, <1>3, EntriesOfEntries
  <2>4. Entries(W, V) = Entries(wait_queue, U \cap V)
    <3>1. W = Entries(wait_queue, U)
      BY DEF W, Waiters
    <3> HIDE DEF V, U
    <3> QED BY <1>2, <3>1, EntriesOfEntries
  <2>5. Entries(wait_queue, R \cap V) = Entries(wait_queue, U \cap V)
    <3> DEFINE A == R \cap V
               B == U \cap V
    <3>1. \A x \in Range(wait_queue) : x \in A <=> x \in B
      BY DEF R
    <3> HIDE DEF A, B
    <3>2. Entries(wait_queue, A) = Entries(wait_queue, B)
      BY <1>2, <3>1, EntriesSame
    <3> QED BY <3>2 DEF A, B
  <2> DEFINE e == Entries(W, V)
  <2>6. Waiters(s)' = e
    BY <2>2, <2>3, <2>4, <2>5
  <2>7. ASSUME e # <<>> PROVE semcnt'[s] < waisem'[Head(e)].cnt
    <3> HIDE DEF V
    <3>1. PICK i \in 1..Len(W) : /\ Head(e) = W[i] /\ W[i] \in V
                                 /\ \A j \in 1..(i - 1) : W[j] \notin V
      BY <1>2, <2>7, FirstEntry
    <3>2. i \notin 1..n
      BY <3>1 DEF V, G
    <3>3. n + 1 \in 1..Len(W)
      BY <1>2, <3>2
    <3>4. W[n + 1] \in V
      <4>1. \A k \in 1..n : W[k] # W[n + 1]
        BY <1>2, <3>3 DEF NoDuplicates
      <4>2. W[n + 1] \in Waiting(s)
        BY <1>2, <3>3 DEF Range
      <4> QED BY <4>1, <4>2 DEF V, G
    <3>5. i = n + 1
      BY <1>2, <3>1, <3>2, <3>3, <3>4
    <3>6. semcnt'[s] < waisem[W[n + 1]].cnt
      BY <1>1, <1>2, <3>3 DEF Stops
    <3> QED BY <2>1, <3>1, <3>5, <3>6
  <2> HIDE DEF e
  <2> QED BY <1>7, <2>6, <2>7 DEF Lacks
<1> QED BY <1>6, <1>7

LEMMA KernelStepLacks ==
  ASSUME SemInv, KernelStep, ~systimer_handler, NEW r \in Sem, Lacks(r)
  PROVE  Lacks(r)'
<1> DEFINE U == Waiting(r)
<1>1. U \in SUBSET Task /\ \A t \in U : waifct[t] = "SEM" /\ waisem[t].obj = r
  BY WaitersProperties
<1>2. "SEM" \notin {"NON", "DLY", "SLP"} /\ "SEM" \in WaitFactor
  BY SemaphoreAssumption, KernelAssumption
<1>3. Entries(wait_queue', U) = Entries(wait_queue, U) /\ \A t \in U : waifct'[t] = waifct[t]
  <2> HIDE DEF U
  <2> QED BY <1>1, <1>2, OtherWaitsGoOn DEF SemInv, KernelStep
<1>4. Waiting(r)' = Waiting(r) /\ \A t \in U : waisem'[t] = waisem[t]
  BY <1>1, <1>3 DEF KernelStep, EndWaits, Waiting
<1>5. semcnt'[r] = semcnt[r] /\ semcnt[r] \in Nat
  BY DEF KernelStep, SemInv, SemTypeOK
<1> QED BY <1>3, <1>4, <1>5, SameWaiters DEF Waiters

(***************************************************************************)
(* The theorems.                                                           *)
(***************************************************************************)
LEMMA SemInit == Init => SemInv
<1> SUFFICES ASSUME Init PROVE SemInv
  OBVIOUS
<1>1. KernelInv
  BY KernelInitInv DEF Init
<1>2. SemTypeOK
  BY DEF Init, SemTypeOK
<1>3. SemaphoreInv
  BY SemaphoreAssumption DEF Init, SemaphoreInv, KernelInit
<1> QED BY <1>1, <1>2, <1>3 DEF SemInv

LEMMA SemNext ==
  ASSUME SemInv, [Next]_vars
  PROVE  SemInv'
<1>1. CASE SemaphoreCall
  BY <1>1, CreateSemPreserves, WaitSemPreserves, SignalSemPreserves DEF SemaphoreCall
<1>2. CASE KernelStep
  BY <1>2, KernelStepPreserves
<1>3. CASE UNCHANGED vars
  <2>1. UNCHANGED kernelVars /\ UNCHANGED semVars /\ UNCHANGED waifct
    BY <1>3 DEF vars, kernelVars, tcbVars
  <2> QED BY <2>1, KernelStutter DEF SemInv, SemTypeOK, SemaphoreInv, semVars
<1> QED BY <1>1, <1>2, <1>3 DEF Next

(* The kernel's invariants also hold with semaphores on top, and theirs.   *)
THEOREM SemaphoreInvariant == Spec => []SemInv
BY SemInit, SemNext, PTL DEF Spec

(* Every variable of the semaphores keeps its type. *)
THEOREM SemaphoreTypes == Spec => []SemTypeOK
<1>1. SemInv => SemTypeOK
  BY DEF SemInv
<1> QED BY <1>1, SemaphoreInvariant, PTL

(* Units stay between 0 and maxsem, and a task waits only for a semaphore  *)
(* and a number of units that exist.                                       *)
THEOREM UnitsStayInBounds == Spec => []SemaphoreInv
<1>1. SemInv => SemaphoreInv
  BY DEF SemInv
<1> QED BY <1>1, SemaphoreInvariant, PTL

(* A wait that ends with E_OK ends after those of all earlier waiters of   *)
(* the semaphore, or with them.                                            *)
THEOREM GrantsAreInOrder == Spec => GrantsInOrder
<1> DEFINE A == \A s \in Sem : LET W == Waiters(s) IN \A i, j \in 1..Len(W) :
                  i < j /\ state'[W[j]] = "READY" /\ waierr'[W[j]] = "E_OK"
                    => state'[W[i]] = "READY" /\ waierr'[W[i]] = "E_OK"
<1>1. SemInv /\ [Next]_vars => [A]_vars
  <2> SUFFICES ASSUME SemInv, Next,
                      NEW s \in Sem, NEW i \in 1..Len(Waiters(s)), NEW j \in 1..Len(Waiters(s)),
                      i < j, state'[Waiters(s)[j]] = "READY", waierr'[Waiters(s)[j]] = "E_OK"
               PROVE  state'[Waiters(s)[i]] = "READY" /\ waierr'[Waiters(s)[i]] = "E_OK"
    OBVIOUS
  <2> DEFINE t == Waiters(s)[j]
  <2>1. Waiters(s) \in Seq(Task) /\ DOMAIN Waiters(s) = 1..Len(Waiters(s))
    BY WaitersProperties, LenProperties
  <2>2. t \in Waiting(s)
    BY <2>1, WaitersProperties DEF Range
  <2>3. t \in Task /\ waifct[t] = "SEM" /\ state[t] = "WAIT" /\ waisem[t].obj = s
    BY <2>2, WaitersProperties
  <2>4. CASE KernelStep
    BY <2>3, <2>4, KernelEndsByTimeout, SemaphoreAssumption DEF SemInv, KernelStep
  <2>5. ASSUME NEW r \in Sem, tk_cre_sem(r) PROVE FALSE
    BY <2>3, <2>5 DEF tk_cre_sem, kernelVars, tcbVars
  <2>6. ASSUME NEW r \in Sem, NEW cnt \in Counts, NEW tmout \in SemWaits,
               tk_wai_sem(r, cnt, tmout)
        PROVE  FALSE
    <3>1. state'[t] = "WAIT"
      BY <2>3, <2>6 DEF tk_wai_sem, Suspend, StartWait, kernelVars, tcbVars, SemInv, KernelInv, TypeOK
    <3> QED BY <3>1
  <2>7. ASSUME NEW r \in Sem, NEW cnt \in Counts, tk_sig_sem(r, cnt)
        PROVE  state'[Waiters(s)[i]] = "READY" /\ waierr'[Waiters(s)[i]] = "E_OK"
    <3>1. PICK n \in 0..Len(Waiters(r)) :
             /\ ReleaseInTurn(SubSeq(Waiters(r), 1, n))
             /\ Range(SubSeq(Waiters(r), 1, n)) = {Waiters(r)[k] : k \in 1..n}
             /\ Range(SubSeq(Waiters(r), 1, n)) \in SUBSET Waiting(r)
      BY <2>7, SignalGrants
    <3> DEFINE G == {Waiters(r)[k] : k \in 1..n}
    <3>2. Awaken(G, [u \in Task |-> "E_OK"])
      BY <3>1 DEF ReleaseInTurn
    <3> HIDE DEF G
    <3>3. \A u \in Task : /\ state'[u] = IF u \in G THEN "READY" ELSE state[u]
                          /\ u \in G => waierr'[u] = "E_OK"
      BY <3>2 DEF Awaken, EndWait, Readied
    <3>4. t \in G
      BY <2>3, <3>3
    <3>5. PICK k \in 1..n : t = Waiters(r)[k]
      BY <3>4 DEF G
    <3>6. r = s
      BY <2>3, <3>1, <3>4, WaitersProperties DEF G
    <3>7. j = k
      BY <2>1, <3>5, <3>6, WaitersProperties DEF NoDuplicates
    <3>8. Waiters(s)[i] \in G
      BY <2>1, <3>6, <3>7 DEF G
    <3>9. Waiters(s)[i] \in Task
      BY <2>1, ElementOfSeq
    <3> QED BY <3>3, <3>8, <3>9
  <2> QED BY <2>4, <2>5, <2>6, <2>7 DEF Next, SemaphoreCall
<1> QED BY <1>1, SemaphoreInvariant, PTL DEF Spec, GrantsInOrder

(* Units that suffice for the first waiter are granted to it before the    *)
(* call that returns them or takes others ends; only a time-out of the     *)
(* first waiter can leave the next one waiting for units that are there.   *)
THEOREM UnitsAreNotLeftIdle == Spec => OnlyTimeoutStrandsUnits
<1> DEFINE A == FirstWaiterLacksUnits /\ ~FirstWaiterLacksUnits' => systimer_handler
<1>1. ASSUME SemInv, [Next]_vars PROVE [A]_vars
  <2> SUFFICES ASSUME Next, ~systimer_handler, FirstWaiterLacksUnits
               PROVE  FirstWaiterLacksUnits'
    BY <1>1
  <2> SUFFICES ASSUME NEW r \in Sem PROVE Lacks(r)'
    BY DEF FirstWaiterLacksUnits, Lacks
  <2>1. Lacks(r)
    BY DEF FirstWaiterLacksUnits, Lacks
  <2>2. CASE KernelStep
    BY <1>1, <2>1, <2>2, KernelStepLacks
  <2>3. CASE SemaphoreCall
    BY <1>1, <2>1, <2>3, CreateSemLacks, WaitSemLacks, SignalSemLacks DEF SemaphoreCall
  <2> QED BY <2>2, <2>3 DEF Next
<1> QED BY <1>1, SemaphoreInvariant, PTL DEF Spec, OnlyTimeoutStrandsUnits

(***************************************************************************)
(* Event flags.  First, that Seen is what its recursion says, by induction *)
(* on the number of waiters; then the invariants, and what a set of bits   *)
(* does to waits.                                                          *)
(***************************************************************************)

(* A pattern that fulfils a wait still does with more bits. *)
LEMMA CheckMonotonic ==
  ASSUME NEW p, NEW r, p \subseteq r, NEW w, check_flag(p, w)
  PROVE  check_flag(r, w)
BY DEF check_flag

(* FlagWaiters take bits away, if anything. *)
LEMMA AfterShrinks ==
  ASSUME NEW p, NEW w
  PROVE  Consume(p, w) \subseteq p /\ After(p, w) \subseteq p
BY DEF After, Consume

(* The equation that Seen(W, p) has to fulfil. *)
Sees(f, W, p, n) ==
  f = [k \in 1..n + 1 |-> IF k = 1 THEN p ELSE After(f[k - 1], waiflg[W[k - 1]])]

LEMMA SeenExists ==
  ASSUME NEW W, NEW p, NEW n \in Nat
  PROVE  \E f : Sees(f, W, p, n)
<1> DEFINE U == {m \in Nat : \E f : Sees(f, W, p, m)}
<1>1. 0 \in U
  <2> DEFINE f == [k \in 1..1 |-> p]
  <2>1. f = [k \in 1..0 + 1 |-> IF k = 1 THEN p ELSE After(f[k - 1], waiflg[W[k - 1]])]
    OBVIOUS
  <2> QED BY <2>1 DEF Sees
<1>2. ASSUME NEW m \in U PROVE m + 1 \in U
  <2>1. PICK f : Sees(f, W, p, m)
    OBVIOUS
  <2> DEFINE g == [k \in 1..(m + 1) + 1 |->
                     IF k = m + 2 THEN After(f[m + 1], waiflg[W[m + 1]]) ELSE f[k]]
             h == [k \in 1..(m + 1) + 1 |->
                     IF k = 1 THEN p ELSE After(g[k - 1], waiflg[W[k - 1]])]
  <2>2. m \in Nat /\ \A k \in 1..m + 1 :
           f[k] = IF k = 1 THEN p ELSE After(f[k - 1], waiflg[W[k - 1]])
    BY <2>1 DEF Sees
  <2>3. ASSUME NEW k \in 1..(m + 1) + 1 PROVE g[k] = h[k]
    <3>1. CASE k = m + 2
      <4>1. k # 1 /\ k - 1 = m + 1 /\ m + 1 \in 1..(m + 1) + 1 /\ m + 1 # m + 2
        BY <2>2, <3>1
      <4>2. g[k - 1] = f[m + 1]
        BY <4>1
      <4> QED BY <3>1, <4>1, <4>2
    <3>2. CASE k # m + 2
      <4>1. k \in 1..m + 1 /\ g[k] = f[k]
        BY <2>2, <3>2
      <4>2. CASE k = 1
        BY <2>2, <4>1, <4>2
      <4>3. CASE k # 1
        <5>1. k - 1 \in 1..(m + 1) + 1 /\ k - 1 # m + 2
          BY <2>2, <4>1, <4>3
        <5>2. g[k - 1] = f[k - 1]
          BY <5>1
        <5> QED BY <2>2, <4>1, <4>3, <5>2
      <4> QED BY <4>2, <4>3
    <3> QED BY <3>1, <3>2
  <2>4. g = h
    <3>1. DOMAIN g = 1..(m + 1) + 1 /\ DOMAIN h = 1..(m + 1) + 1
      OBVIOUS
    <3> QED BY <2>3
  <2>5. Sees(g, W, p, m + 1)
    BY <2>4 DEF Sees
  <2> HIDE DEF g, h
  <2> QED BY <2>2, <2>5
<1>3. U = Nat
  <2> HIDE DEF U
  <2>1. U \in SUBSET Nat
    BY DEF U
  <2> QED BY <1>1, <1>2, <2>1, SetInduction
<1> QED BY <1>3

(* It does, and the pattern shrinks from waiter to waiter. *)
LEMMA SeenProperties ==
  ASSUME NEW W \in Seq(Task), NEW p
  PROVE  /\ Seen(W, p)[1] = p
         /\ \A k \in 1..Len(W) : Seen(W, p)[k + 1] = After(Seen(W, p)[k], waiflg[W[k]])
         /\ \A i, j \in 1..Len(W) + 1 : i <= j => Seen(W, p)[j] \subseteq Seen(W, p)[i]
<1> DEFINE n == Len(W)
           s == Seen(W, p)
<1>1. n \in Nat
  BY LenProperties
<1>2. s = CHOOSE f : Sees(f, W, p, n)
  BY DEF Seen, Sees
<1>3. Sees(s, W, p, n)
  <2>1. \E f : Sees(f, W, p, n)
    <3> HIDE DEF n
    <3> QED BY <1>1, SeenExists
  <2> HIDE DEF s
  <2> QED BY <1>2, <2>1
<1> HIDE DEF s, n
<1>4. s[1] = p /\ \A k \in 1..n : s[k + 1] = After(s[k], waiflg[W[k]])
  <2>1. \A k \in 1..n + 1 : s[k] = IF k = 1 THEN p ELSE After(s[k - 1], waiflg[W[k - 1]])
    BY <1>3 DEF Sees
  <2>2. ASSUME NEW k \in 1..n PROVE s[k + 1] = After(s[k], waiflg[W[k]])
    <3>1. PICK l \in 1..n + 1 : l = k + 1 /\ l # 1 /\ l - 1 = k
      BY <1>1
    <3>2. s[l] = After(s[l - 1], waiflg[W[l - 1]])
      BY <2>1, <3>1
    <3> QED BY <3>1, <3>2
  <2>3. 1 \in 1..n + 1
    BY <1>1
  <2> QED BY <2>1, <2>2, <2>3
<1>5. \A k \in 1..n : s[k + 1] \subseteq s[k]
  BY <1>4, AfterShrinks
<1>6. ASSUME NEW i \in 1..n + 1 PROVE \A j \in 1..n + 1 : i <= j => s[j] \subseteq s[i]
  <2> DEFINE U == {d \in Nat : i + d \in 1..n + 1 => s[i + d] \subseteq s[i]}
  <2>1. 0 \in U
    BY <1>1
  <2>2. ASSUME NEW d \in U PROVE d + 1 \in U
    <3> SUFFICES ASSUME i + (d + 1) \in 1..n + 1 PROVE s[i + (d + 1)] \subseteq s[i]
      OBVIOUS
    <3>1. i + d \in 1..n /\ i + (d + 1) = (i + d) + 1
      BY <1>1
    <3>2. s[(i + d) + 1] \subseteq s[i + d] /\ s[i + d] \subseteq s[i]
      BY <1>1, <1>5, <3>1
    <3> QED BY <3>1, <3>2
  <2>3. U = Nat
    <3> HIDE DEF U
    <3>1. U \in SUBSET Nat
      BY DEF U
    <3> QED BY <2>1, <2>2, <3>1, SetInduction
  <2>4. ASSUME NEW j \in 1..n + 1, i <= j PROVE s[j] \subseteq s[i]
    <3> DEFINE d == j - i
    <3>1. d \in Nat /\ i + d = j
      BY <1>1, <2>4
    <3> HIDE DEF d
    <3> QED BY <2>3, <3>1
  <2> QED BY <2>4
<1> QED BY <1>4, <1>6 DEF s, n

(***************************************************************************)
(* The invariants.                                                         *)
(***************************************************************************)
FlgTypeOK ==
  /\ flgst  \in [Flg -> {"NONEXIST", "EXIST"}]
  /\ flgptn \in [Flg -> SUBSET Bit]
  /\ waiflg \in [Task -> {<<>>} \cup [obj : Flg, ptn : SUBSET Bit, mode : Modes]]
  /\ p_flgptn \in [Task -> SUBSET Bit]

(* A TCB waits for a flag exactly while its wait factor says so; the flag  *)
(* exists, and no error code is set yet.                                   *)
FlagWaits ==
  \A t \in Task : /\ waiflg[t] # <<>> <=> waifct[t] = "FLG"
                  /\ waiflg[t] # <<>> => /\ flgst[waiflg[t].obj] = "EXIST"
                                         /\ waierr[t] = "E_OK"

(* The inductive invariant. *)
FlgInv == KernelInv /\ FlgTypeOK /\ FlagWaits /\ NoMissedEvent

(* The waiters of a flag are the tasks that wait for it, once each.        *)
LEMMA FlagWaitersProperties ==
  ASSUME FlgInv, NEW f \in Flg
  PROVE  /\ FlagWaiters(f) \in Seq(Task) /\ NoDuplicates(FlagWaiters(f))
         /\ Len(FlagWaiters(f)) \in Nat /\ DOMAIN FlagWaiters(f) = 1..Len(FlagWaiters(f))
         /\ Range(FlagWaiters(f)) = WaitingFor(f)
         /\ WaitingFor(f) \in SUBSET Range(wait_queue)
         /\ \A t \in WaitingFor(f) : /\ t \in Task /\ waifct[t] = "FLG" /\ state[t] = "WAIT"
                                     /\ waierr[t] = "E_OK"
<1>1. \A t \in WaitingFor(f) : /\ t \in Task /\ waifct[t] = "FLG" /\ state[t] = "WAIT"
                               /\ waierr[t] = "E_OK"
  BY DEF WaitingFor, FlgInv, FlagWaits, KernelInv, ProcessorInv
<1>2. WaitingFor(f) \in SUBSET Range(wait_queue)
  BY <1>1 DEF FlgInv, KernelInv, QueueIntegrity
<1>3. wait_queue \in Seq(Task) /\ NoDuplicates(wait_queue)
  BY DEF FlgInv, KernelInv, TypeOK, QueueIntegrity
<1>4. FlagWaiters(f) \in Seq(Task) /\ NoDuplicates(FlagWaiters(f))
      /\ Range(FlagWaiters(f)) = Range(wait_queue) \cap WaitingFor(f)
  BY <1>3, EntriesProperties DEF FlagWaiters
<1>5. Len(FlagWaiters(f)) \in Nat /\ DOMAIN FlagWaiters(f) = 1..Len(FlagWaiters(f))
  BY <1>4, LenProperties
<1> QED BY <1>1, <1>2, <1>4, <1>5

LEMMA CreateFlgPreserves ==
  ASSUME FlgInv, NEW f \in Flg, tk_cre_flg(f)
  PROVE  FlgInv'
<1>1. KernelInv' /\ UNCHANGED <<waifct, waierr, waiflg>>
  BY KernelStutter DEF tk_cre_flg, FlgInv, kernelVars, tcbVars
<1>2. /\ flgst[f] = "NONEXIST" /\ flgst' = [flgst EXCEPT ![f] = "EXIST"]
      /\ flgptn' = [flgptn EXCEPT ![f] = InitPtn[f]] /\ InitPtn[f] \in SUBSET Bit
      /\ p_flgptn' = NoPattern
  BY EventFlagAssumption DEF tk_cre_flg
<1>3. FlgTypeOK'
  BY <1>1, <1>2 DEF FlgInv, FlgTypeOK, NoPattern
<1>4. FlagWaits'
  BY <1>1, <1>2 DEF FlgInv, FlagWaits, FlgTypeOK
<1>5. NoMissedEvent'
  <2>1. \A t \in Task : waiflg[t] # <<>> => waiflg[t].obj # f
    BY <1>2 DEF FlgInv, FlagWaits
  <2> QED BY <1>1, <1>2, <2>1 DEF FlgInv, FlgTypeOK, NoMissedEvent
<1> QED BY <1>1, <1>3, <1>4, <1>5 DEF FlgInv

LEMMA ClearFlgPreserves ==
  ASSUME FlgInv, NEW f \in Flg, NEW ptn \in SUBSET Bit, tk_clr_flg(f, ptn)
  PROVE  FlgInv'
<1>1. KernelInv' /\ UNCHANGED <<waifct, waierr, waiflg, flgst>>
  BY KernelStutter DEF tk_clr_flg, FlgInv, kernelVars, tcbVars
<1>2. /\ flgptn' = [flgptn EXCEPT ![f] = flgptn[f] \cap ptn]
      /\ p_flgptn' = NoPattern
  BY DEF tk_clr_flg
<1>3. FlgTypeOK'
  BY <1>1, <1>2 DEF FlgInv, FlgTypeOK, NoPattern
<1>4. FlagWaits'
  BY <1>1 DEF FlgInv, FlagWaits
<1>5. NoMissedEvent'
  <2>1. \A g \in Flg : flgptn'[g] \subseteq flgptn[g]
    BY <1>2 DEF FlgInv, FlgTypeOK
  <2> QED BY <1>1, <2>1, CheckMonotonic DEF FlgInv, FlgTypeOK, NoMissedEvent
<1> QED BY <1>1, <1>3, <1>4, <1>5 DEF FlgInv

LEMMA WaitFlgPreserves ==
  ASSUME FlgInv, NEW f \in Flg, NEW ptn \in SUBSET Bit, NEW mode \in Modes,
         NEW tmout \in FlgWaits, tk_wai_flg(f, ptn, mode, tmout)
  PROVE  FlgInv'
<1> DEFINE w == [obj |-> f, ptn |-> ptn, mode |-> mode]
<1>1. InTask /\ flgst[f] = "EXIST" /\ UNCHANGED flgst
  BY DEF tk_wai_flg
<1>2. cur_task \in Task /\ state[cur_task] = "READY"
  BY <1>1, RunningIsHead DEF FlgInv
<1>3. CASE check_flag(flgptn[f], w)
  <2>1. /\ p_flgptn' = [NoPattern EXCEPT ![cur_task] = flgptn[f]]
        /\ flgptn' = [flgptn EXCEPT ![f] = Consume(flgptn[f], w)]
        /\ UNCHANGED <<kernelVars, waiflg>>
    BY <1>3 DEF tk_wai_flg
  <2>2. KernelInv' /\ UNCHANGED <<waifct, waierr>>
    BY <2>1, KernelStutter DEF FlgInv, kernelVars, tcbVars
  <2>3. Consume(flgptn[f], w) \subseteq flgptn[f]
    BY AfterShrinks
  <2> HIDE DEF w
  <2>4. \A g \in Flg : flgptn'[g] \subseteq flgptn[g]
    BY <2>1, <2>3 DEF FlgInv, FlgTypeOK
  <2>5. FlgTypeOK'
    BY <1>1, <1>2, <2>1, <2>3 DEF FlgInv, FlgTypeOK, NoPattern
  <2>6. FlagWaits'
    BY <1>1, <2>1, <2>2 DEF FlgInv, FlagWaits
  <2>7. NoMissedEvent'
    BY <2>1, <2>4, CheckMonotonic DEF FlgInv, FlgTypeOK, NoMissedEvent
  <2> QED BY <2>2, <2>5, <2>6, <2>7 DEF FlgInv
<1>4. CASE ~check_flag(flgptn[f], w)
  <2>1. /\ Suspend("FLG", WaitTime(tmout))
        /\ waiflg' = [waiflg EXCEPT ![cur_task] = w]
        /\ p_flgptn' = NoPattern
        /\ UNCHANGED <<itskpri, wupcnt, cpuVars, flgptn>>
    BY <1>4 DEF tk_wai_flg
  <2>2. WaitTime(tmout) \in Nat \cup {TMO_FEVR}
    BY EventFlagAssumption, KernelAssumption, TimerAssumption DEF WaitTime
  <2>3. "FLG" \in Waifct \ {"NON"} /\ "FLG" # "SLP"
    BY EventFlagAssumption, KernelAssumption DEF Waifct
  <2>4. KernelInv'
    BY <1>1, <2>1, <2>2, <2>3, SuspendPreserves DEF FlgInv
  <2>5. /\ waifct' = [waifct EXCEPT ![cur_task] = "FLG"]
        /\ waierr' = [waierr EXCEPT ![cur_task] = "E_OK"]
    BY <2>1 DEF Suspend, StartWait
  <2>6. w \in [obj : Flg, ptn : SUBSET Bit, mode : Modes] /\ w # <<>> /\ w.obj = f
    OBVIOUS
  <2> HIDE DEF w
  <2>7. FlgTypeOK'
    BY <1>1, <2>1, <2>6 DEF FlgInv, FlgTypeOK, NoPattern
  <2>8. FlagWaits'
    BY <1>1, <1>2, <2>1, <2>5, <2>6 DEF FlgInv, FlagWaits, FlgTypeOK, KernelInv, TypeOK
  <2>9. NoMissedEvent'
    BY <1>4, <2>1, <2>6 DEF FlgInv, FlgTypeOK, NoMissedEvent
  <2> QED BY <2>4, <2>7, <2>8, <2>9 DEF FlgInv
<1> QED BY <1>3, <1>4

LEMMA KernelStepKeepsFlags ==
  ASSUME FlgInv, FlagKernelStep
  PROVE  FlgInv'
<1>1. KernelInv'
  BY KernelNextInv DEF FlgInv, FlagKernelStep
<1>2. /\ waiflg' = [t \in Task |-> IF waifct'[t] = "FLG" THEN waiflg[t] ELSE <<>>]
      /\ p_flgptn' = NoPattern /\ UNCHANGED <<flgst, flgptn>>
  BY DEF FlagKernelStep
<1>3. \A t \in Task : waifct'[t] = "FLG" => waifct[t] = "FLG" /\ waierr'[t] = waierr[t]
  BY KernelBeginsNoOtherWait, EventFlagAssumption DEF FlgInv, FlagKernelStep
<1>4. FlgTypeOK'
  BY <1>2 DEF FlgInv, FlgTypeOK, NoPattern
<1>5. FlagWaits'
  BY <1>2, <1>3 DEF FlgInv, FlagWaits
<1>6. NoMissedEvent'
  BY <1>2 DEF FlgInv, NoMissedEvent
<1> QED BY <1>1, <1>4, <1>5, <1>6 DEF FlgInv

(***************************************************************************)
(* Setting bits.                                                           *)
(***************************************************************************)

(* What the loop over the waiters does: the waiter with number k sees the  *)
(* pattern s[k], and its wait ends when that fulfils it.                   *)
Loop(f, W, s, woken) ==
  /\ s[Len(W) + 1] = flgptn'[f]
  /\ \A i, j \in 1..Len(W) + 1 : i <= j => s[j] \subseteq s[i]
  /\ \A k \in 1..Len(W) : /\ s[k + 1] = After(s[k], waiflg[W[k]])
                          /\ W[k] \in woken <=> check_flag(s[k], waiflg[W[k]])
                          /\ W[k] \in woken => p_flgptn'[W[k]] = s[k]

(* What a call of tk_set_flg does. *)
Sets(f, ptn, s, woken) ==
  /\ Loop(f, FlagWaiters(f), s, woken)
  /\ woken \in SUBSET WaitingFor(f)
  /\ s[1] = flgptn[f] \cup ptn
  /\ flgptn' = [flgptn EXCEPT ![f] = flgptn'[f]]
  /\ p_flgptn' \in [Task -> SUBSET Bit]
  /\ \A t \in Task \ woken : p_flgptn'[t] = {}
  /\ waiflg' = [t \in Task |-> IF t \in woken THEN <<>> ELSE waiflg[t]]
  /\ \/ /\ Release(woken, waierr)
        /\ waitim' = [t \in Task |-> IF t \in woken THEN 0 ELSE waitim[t]]
        /\ UNCHANGED <<itskpri, wupcnt, cpuVars>>
     \/ woken = {} /\ UNCHANGED kernelVars

LEMMA SetFlgLoop ==
  ASSUME FlgInv, NEW f \in Flg, NEW ptn \in SUBSET Bit, tk_set_flg(f, ptn)
  PROVE  \E s, woken : Sets(f, ptn, s, woken)
<1> DEFINE W == FlagWaiters(f)
           p == flgptn[f] \cup ptn
           s == Seen(W, p)
           done == {k \in 1..Len(W) : check_flag(s[k], waiflg[W[k]])}
           woken == {W[k] : k \in done}
           at(t) == CHOOSE k \in done : W[k] = t
<1>1. /\ flgptn' = [flgptn EXCEPT ![f] = s[Len(W) + 1]]
      /\ p_flgptn' = [t \in Task |-> IF t \in woken THEN s[at(t)] ELSE {}]
      /\ waiflg' = [t \in Task |-> IF t \in woken THEN <<>> ELSE waiflg[t]]
      /\ \/ /\ Release(woken, waierr)
            /\ waitim' = [t \in Task |-> IF t \in woken THEN 0 ELSE waitim[t]]
            /\ UNCHANGED <<itskpri, wupcnt, cpuVars>>
         \/ woken = {} /\ UNCHANGED kernelVars
  BY DEF tk_set_flg
<1>2. /\ W \in Seq(Task) /\ NoDuplicates(W) /\ Range(W) = WaitingFor(f)
      /\ Len(W) \in Nat /\ DOMAIN W = 1..Len(W)
  BY FlagWaitersProperties
<1>3. p \in SUBSET Bit /\ flgptn \in [Flg -> SUBSET Bit]
  BY DEF FlgInv, FlgTypeOK
<1> HIDE DEF W, p
<1>4. /\ s[1] = p
      /\ \A k \in 1..Len(W) : s[k + 1] = After(s[k], waiflg[W[k]])
      /\ \A i, j \in 1..Len(W) + 1 : i <= j => s[j] \subseteq s[i]
  BY <1>2, SeenProperties
<1> HIDE DEF s
<1>5. flgptn'[f] = s[Len(W) + 1] /\ flgptn' = [flgptn EXCEPT ![f] = flgptn'[f]]
  BY <1>1, <1>3
<1>6. \A k \in 1..Len(W) : W[k] \in Task
  BY <1>2, ElementOfSeq
<1>7. woken \in SUBSET WaitingFor(f)
  BY <1>2 DEF Range
<1>8. ASSUME NEW k \in 1..Len(W)
      PROVE  /\ W[k] \in woken <=> check_flag(s[k], waiflg[W[k]])
             /\ W[k] \in woken => at(W[k]) = k
  <2>1. \A l \in done : W[l] = W[k] => l = k
    BY <1>2 DEF NoDuplicates
  <2> QED BY <2>1
<1> HIDE DEF at
<1>9. \A k \in 1..Len(W) : W[k] \in woken => p_flgptn'[W[k]] = s[k]
  BY <1>1, <1>6, <1>8
<1>10. p_flgptn' \in [Task -> SUBSET Bit]
  <2>1. \A k \in 1..Len(W) : s[k] \subseteq p
    <3>1. \A k \in 1..Len(W) : 1 <= k /\ 1 \in 1..Len(W) + 1 /\ k \in 1..Len(W) + 1
      BY <1>2
    <3> QED BY <1>4, <3>1
  <2>2. \A t \in woken : p_flgptn'[t] \subseteq p
    BY <1>9, <2>1
  <2>3. \A t \in Task : p_flgptn'[t] \in SUBSET Bit
    BY <1>1, <1>3, <2>2
  <2> QED BY <1>1, <2>3
<1> HIDE DEF woken
<1>11. \A t \in Task \ woken : p_flgptn'[t] = {}
  BY <1>1
<1>12. Loop(f, W, s, woken)
  BY <1>4, <1>5, <1>8, <1>9 DEF Loop
<1> QED BY <1>1, <1>4, <1>5, <1>7, <1>10, <1>11, <1>12 DEF W, p, Sets

LEMMA SetFlgPreserves ==
  ASSUME FlgInv, NEW f \in Flg, NEW ptn \in SUBSET Bit, tk_set_flg(f, ptn)
  PROVE  FlgInv'
<1> DEFINE W == FlagWaiters(f)
<1>0. PICK s, woken : Sets(f, ptn, s, woken)
  BY SetFlgLoop
<1>1. /\ Loop(f, W, s, woken)
      /\ woken \in SUBSET WaitingFor(f)
      /\ s[1] = flgptn[f] \cup ptn
      /\ flgptn' = [flgptn EXCEPT ![f] = flgptn'[f]]
      /\ p_flgptn' \in [Task -> SUBSET Bit]
      /\ waiflg' = [t \in Task |-> IF t \in woken THEN <<>> ELSE waiflg[t]]
      /\ \/ /\ Release(woken, waierr)
            /\ waitim' = [t \in Task |-> IF t \in woken THEN 0 ELSE waitim[t]]
            /\ UNCHANGED <<itskpri, wupcnt, cpuVars>>
         \/ woken = {} /\ UNCHANGED kernelVars
  BY <1>0 DEF Sets
<1>2. /\ W \in Seq(Task) /\ Range(W) = WaitingFor(f) /\ woken \in SUBSET Range(wait_queue)
      /\ Len(W) \in Nat /\ DOMAIN W = 1..Len(W)
      /\ \A t \in woken : t \in Task /\ waierr[t] \in {"E_OK", "E_TMOUT"}
  BY <1>1, FlagWaitersProperties
<1>3. KernelInv'
  <2>1. CASE woken = {} /\ UNCHANGED kernelVars
    BY <2>1, KernelStutter DEF FlgInv
  <2>2. CASE /\ Release(woken, waierr)
             /\ waitim' = [t \in Task |-> IF t \in woken THEN 0 ELSE waitim[t]]
             /\ UNCHANGED <<itskpri, wupcnt, cpuVars>>
    <3>1. waitim' \in [Task -> Nat \cup {TMO_FEVR}]
      BY <2>2 DEF FlgInv, KernelInv, TypeOK
    <3> QED BY <1>2, <2>2, <3>1, ReleasePreserves DEF FlgInv
  <2> QED BY <1>1, <2>1, <2>2
<1>4. \A t \in Task : /\ waifct'[t] = IF t \in woken THEN "NON" ELSE waifct[t]
                      /\ waierr'[t] = waierr[t]
  <2>1. waierr \in [Task -> {"E_OK", "E_TMOUT"}] /\ waifct \in [Task -> Waifct]
    BY DEF FlgInv, KernelInv, TypeOK
  <2> QED BY <1>1, <2>1 DEF Release, Awaken, EndWait, kernelVars, tcbVars
<1>5. \A t \in Task : waiflg'[t] = IF t \in woken THEN <<>> ELSE waiflg[t]
  BY <1>1
<1>6. flgptn'[f] \subseteq s[1] /\ s[1] \in SUBSET Bit /\ flgptn \in [Flg -> SUBSET Bit]
  <2>1. 1 \in 1..Len(W) + 1 /\ Len(W) + 1 \in 1..Len(W) + 1 /\ 1 <= Len(W) + 1
    BY <1>2
  <2>2. s[Len(W) + 1] \subseteq s[1]
    BY <1>1, <2>1 DEF Loop
  <2> QED BY <1>1, <2>2 DEF Loop, FlgInv, FlgTypeOK
<1>7. UNCHANGED flgst
  BY DEF tk_set_flg
<1>8. FlgTypeOK'
  <2>1. flgptn' \in [Flg -> SUBSET Bit]
    BY <1>1, <1>6
  <2> QED BY <1>1, <1>5, <1>7, <2>1 DEF FlgInv, FlgTypeOK
<1>9. FlagWaits'
  BY <1>4, <1>5, <1>7, EventFlagAssumption, KernelAssumption DEF FlgInv, FlagWaits
<1>10. NoMissedEvent'
  <2> SUFFICES ASSUME NEW t \in Task, waiflg'[t] # <<>>
               PROVE  ~check_flag(flgptn'[waiflg'[t].obj], waiflg'[t])
    BY DEF NoMissedEvent
  <2>1. t \notin woken /\ waiflg'[t] = waiflg[t] /\ waiflg[t] # <<>>
    BY <1>5
  <2>2. waiflg[t].obj \in Flg /\ ~check_flag(flgptn[waiflg[t].obj], waiflg[t])
    BY <2>1 DEF FlgInv, FlgTypeOK, NoMissedEvent
  <2>3. CASE waiflg[t].obj # f
    <3>1. flgptn'[waiflg[t].obj] = flgptn[waiflg[t].obj]
      BY <1>1, <1>6, <2>2, <2>3
    <3> QED BY <2>1, <2>2, <3>1
  <2>4. CASE waiflg[t].obj = f
    <3>1. t \in WaitingFor(f)
      BY <2>1, <2>4 DEF WaitingFor
    <3>2. PICK k \in 1..Len(W) : W[k] = t
      BY <1>2, <3>1 DEF Range
    <3>3. ~check_flag(s[k], waiflg[t])
      BY <1>1, <2>1, <3>2 DEF Loop
    <3>4. s[Len(W) + 1] \subseteq s[k]
      <4>1. k \in 1..Len(W) + 1 /\ Len(W) + 1 \in 1..Len(W) + 1 /\ k <= Len(W) + 1
        BY <1>2, <3>2
      <4> QED BY <1>1, <4>1 DEF Loop
    <3>5. ~check_flag(flgptn'[f], waiflg[t])
      BY <1>1, <3>3, <3>4, CheckMonotonic DEF Loop
    <3> QED BY <2>1, <2>4, <3>5
  <2> QED BY <2>3, <2>4
<1> QED BY <1>3, <1>8, <1>9, <1>10 DEF FlgInv

LEMMA FlagInitially == FlagInit => FlgInv
<1> SUFFICES ASSUME FlagInit PROVE FlgInv
  OBVIOUS
<1>1. KernelInv
  BY KernelInitInv DEF FlagInit
<1>2. FlgTypeOK /\ NoMissedEvent
  BY DEF FlagInit, FlgTypeOK, NoMissedEvent, NoPattern
<1>3. FlagWaits
  BY DEF FlagInit, FlagWaits, KernelInit
<1> QED BY <1>1, <1>2, <1>3 DEF FlgInv

LEMMA FlagStep ==
  ASSUME FlgInv, [FlagNext]_eventFlagVars
  PROVE  FlgInv'
<1>1. CASE FlagCall
  BY <1>1, CreateFlgPreserves, SetFlgPreserves, ClearFlgPreserves, WaitFlgPreserves DEF FlagCall
<1>2. CASE FlagKernelStep
  BY <1>2, KernelStepKeepsFlags
<1>3. CASE UNCHANGED eventFlagVars
  <2>1. UNCHANGED kernelVars /\ UNCHANGED flgVars /\ UNCHANGED <<waifct, waierr>>
    BY <1>3 DEF eventFlagVars, kernelVars, tcbVars
  <2> QED BY <2>1, KernelStutter DEF FlgInv, FlgTypeOK, FlagWaits, NoMissedEvent, flgVars
<1> QED BY <1>1, <1>2, <1>3 DEF FlagNext

(***************************************************************************)
(* The theorems.                                                           *)
(***************************************************************************)

(* The kernel's invariants also hold with event flags on top, and theirs.  *)
THEOREM FlagInvariant == FlagSpec => []FlgInv
BY FlagInitially, FlagStep, PTL DEF FlagSpec

(* No task waits for a pattern that is there. *)
THEOREM EventsAreNotMissed == FlagSpec => []NoMissedEvent
<1>1. FlgInv => NoMissedEvent
  BY DEF FlgInv
<1> QED BY <1>1, FlagInvariant, PTL

(* Only setting bits ends a wait for a flag without a time-out, and then   *)
(* the loop has come to the waiter with a pattern that fulfils its wait.   *)
LEMMA EndedBySet ==
  ASSUME FlgInv, FlagNext, NEW f \in Flg, NEW i \in 1..Len(FlagWaiters(f)), Ended(FlagWaiters(f)[i])
  PROVE  \E s, woken :
           /\ Loop(f, FlagWaiters(f), s, woken)
           /\ FlagWaiters(f)[i] \in woken
           /\ \A k \in 1..Len(FlagWaiters(f)) : Ended(FlagWaiters(f)[k]) <=> FlagWaiters(f)[k] \in woken
<1> DEFINE W == FlagWaiters(f)
           t == W[i]
<1>1. /\ W \in Seq(Task) /\ Range(W) = WaitingFor(f) /\ DOMAIN W = 1..Len(W)
      /\ \A k \in 1..Len(W) : /\ W[k] \in WaitingFor(f) /\ W[k] \in Task /\ waifct[W[k]] = "FLG"
                              /\ state[W[k]] = "WAIT" /\ waierr[W[k]] = "E_OK"
  <2>1. W \in Seq(Task) /\ Range(W) = WaitingFor(f) /\ DOMAIN W = 1..Len(W)
    BY FlagWaitersProperties
  <2>2. \A k \in 1..Len(W) : W[k] \in WaitingFor(f)
    BY <2>1 DEF Range
  <2> QED BY <2>1, <2>2, FlagWaitersProperties
<1>2. state[t] = "WAIT" /\ state'[t] = "READY" /\ waierr'[t] = "E_OK" /\ t \in Task
      /\ t \in WaitingFor(f) /\ waifct[t] = "FLG"
  BY <1>1 DEF Ended
<1>3. CASE FlagKernelStep
  BY <1>2, <1>3, KernelEndsByTimeout, EventFlagAssumption DEF FlgInv, FlagKernelStep
<1>4. ASSUME NEW g \in Flg, tk_cre_flg(g) PROVE FALSE
  BY <1>2, <1>4 DEF tk_cre_flg, kernelVars, tcbVars
<1>5. ASSUME NEW g \in Flg, NEW ptn \in SUBSET Bit, tk_clr_flg(g, ptn) PROVE FALSE
  BY <1>2, <1>5 DEF tk_clr_flg, kernelVars, tcbVars
<1>6. ASSUME NEW g \in Flg, NEW ptn, NEW mode, NEW tmout, tk_wai_flg(g, ptn, mode, tmout)
      PROVE  FALSE
  <2>1. state'[t] = "WAIT"
    BY <1>2, <1>6 DEF tk_wai_flg, Suspend, StartWait, kernelVars, tcbVars,
                      FlgInv, KernelInv, TypeOK
  <2> QED BY <1>2, <2>1
<1>7. ASSUME NEW g \in Flg, NEW ptn \in SUBSET Bit, tk_set_flg(g, ptn)
      PROVE  \E s, woken :
               /\ Loop(f, W, s, woken) /\ t \in woken
               /\ \A k \in 1..Len(W) : Ended(W[k]) <=> W[k] \in woken
  <2>0. PICK s, woken : Sets(g, ptn, s, woken)
    BY <1>7, SetFlgLoop
  <2>1. /\ Loop(g, FlagWaiters(g), s, woken)
        /\ woken \in SUBSET WaitingFor(g)
        /\ \/ Release(woken, waierr)
           \/ woken = {} /\ UNCHANGED kernelVars
    BY <2>0 DEF Sets
  <2>2. \A u \in Task : /\ state'[u] = IF u \in woken THEN "READY" ELSE state[u]
                        /\ waierr'[u] = waierr[u]
    <3>1. waierr \in [Task -> {"E_OK", "E_TMOUT"}] /\ state \in [Task -> State]
      BY DEF FlgInv, KernelInv, TypeOK
    <3> QED BY <2>1, <3>1 DEF Release, Awaken, EndWait, Readied, kernelVars, tcbVars
  <2>3. t \in woken
    BY <1>2, <2>2
  <2>4. g = f
    BY <1>2, <2>1, <2>3 DEF WaitingFor
  <2>5. \A k \in 1..Len(W) : Ended(W[k]) <=> W[k] \in woken
    BY <1>1, <2>2 DEF Ended
  <2> QED BY <2>1, <2>3, <2>4, <2>5
<1> QED BY <1>3, <1>4, <1>5, <1>6, <1>7 DEF FlagNext, FlagCall

(* A wait ends with a pattern that fulfils it, and an earlier waiter that  *)
(* this pattern would have fulfilled is not left waiting.                  *)
THEOREM NobodyIsOvertaken == FlagSpec => FirstComeFirstServed
<1> DEFINE A == \A f \in Flg :
       LET W == FlagWaiters(f) IN
       \A j \in 1..Len(W) : Ended(W[j]) =>
         /\ check_flag(p_flgptn'[W[j]], waiflg[W[j]])
         /\ \A i \in 1..(j - 1) :
              Ended(W[i]) \/ ~check_flag(p_flgptn'[W[j]], waiflg[W[i]])
<1>1. FlgInv /\ [FlagNext]_eventFlagVars => [A]_eventFlagVars
  <2> SUFFICES ASSUME FlgInv, FlagNext, NEW f \in Flg, NEW j \in 1..Len(FlagWaiters(f)),
                      Ended(FlagWaiters(f)[j])
               PROVE  /\ check_flag(p_flgptn'[FlagWaiters(f)[j]], waiflg[FlagWaiters(f)[j]])
                      /\ \A i \in 1..(j - 1) :
                           \/ Ended(FlagWaiters(f)[i])
                           \/ ~check_flag(p_flgptn'[FlagWaiters(f)[j]], waiflg[FlagWaiters(f)[i]])
    OBVIOUS
  <2> DEFINE W == FlagWaiters(f)
  <2>1. Len(W) \in Nat
    BY FlagWaitersProperties
  <2>2. PICK s, woken : /\ Loop(f, W, s, woken) /\ W[j] \in woken
                        /\ \A k \in 1..Len(W) : Ended(W[k]) <=> W[k] \in woken
    BY EndedBySet
  <2> HIDE DEF W
  <2>3. p_flgptn'[W[j]] = s[j] /\ check_flag(s[j], waiflg[W[j]])
    BY <2>2 DEF Loop, W
  <2>4. ASSUME NEW i \in 1..(j - 1), check_flag(s[j], waiflg[W[i]]) PROVE Ended(W[i])
    <3>1. i \in 1..Len(W) /\ i \in 1..Len(W) + 1 /\ j \in 1..Len(W) + 1 /\ i <= j
      BY <2>1, <2>2 DEF W
    <3>2. s[j] \subseteq s[i]
      BY <2>2, <3>1 DEF Loop
    <3>3. check_flag(s[i], waiflg[W[i]])
      BY <2>4, <3>2, CheckMonotonic
    <3> QED BY <2>2, <3>1, <3>3 DEF Loop
  <2> QED BY <2>3, <2>4 DEF W
<1> QED BY <1>1, FlagInvariant, PTL DEF FlagSpec, FirstComeFirstServed

(* What a wait consumes, no other wait that the event ends is given, and   *)
(* the flag does not keep it.                                              *)
THEOREM BitsAreConsumedOnce == FlagSpec => ConsumedOnce
<1> DEFINE consumed(w, p) == IF "CLR" \in w.mode THEN p
                             ELSE IF "BITCLR" \in w.mode THEN w.ptn ELSE {}
           A == \A f \in Flg :
       LET W == FlagWaiters(f)
       IN \A i \in 1..Len(W) : Ended(W[i]) =>
            LET gone == consumed(waiflg[W[i]], p_flgptn'[W[i]]) IN
            /\ gone \cap flgptn'[f] = {}
            /\ \A j \in i + 1 .. Len(W) : Ended(W[j]) => gone \cap p_flgptn'[W[j]] = {}
<1>1. FlgInv /\ [FlagNext]_eventFlagVars => [A]_eventFlagVars
  <2> SUFFICES ASSUME FlgInv, FlagNext, NEW f \in Flg, NEW i \in 1..Len(FlagWaiters(f)),
                      Ended(FlagWaiters(f)[i])
               PROVE  /\ consumed(waiflg[FlagWaiters(f)[i]], p_flgptn'[FlagWaiters(f)[i]])
                           \cap flgptn'[f] = {}
                      /\ \A j \in i + 1 .. Len(FlagWaiters(f)) : Ended(FlagWaiters(f)[j]) =>
                           consumed(waiflg[FlagWaiters(f)[i]], p_flgptn'[FlagWaiters(f)[i]])
                             \cap p_flgptn'[FlagWaiters(f)[j]] = {}
    OBVIOUS
  <2> DEFINE W == FlagWaiters(f)
             w == waiflg[W[i]]
  <2>1. Len(W) \in Nat
    BY FlagWaitersProperties
  <2>2. PICK s, woken : /\ Loop(f, W, s, woken) /\ W[i] \in woken
                        /\ \A k \in 1..Len(W) : Ended(W[k]) <=> W[k] \in woken
    BY EndedBySet
  <2>3. i \in 1..Len(W)
    OBVIOUS
  <2> HIDE DEF W
  <2>4. /\ p_flgptn'[W[i]] = s[i] /\ check_flag(s[i], w) /\ s[i + 1] = After(s[i], w)
        /\ flgptn'[f] = s[Len(W) + 1]
    BY <2>2, <2>3 DEF Loop
  <2>5. consumed(w, s[i]) \cap s[i + 1] = {}
    BY <2>4 DEF After, Consume
  <2>6. \A j \in i + 1 .. Len(W) + 1 : s[j] \subseteq s[i + 1]
    <3> SUFFICES ASSUME NEW j \in i + 1 .. Len(W) + 1 PROVE s[j] \subseteq s[i + 1]
      OBVIOUS
    <3>1. i + 1 \in 1..Len(W) + 1 /\ j \in 1..Len(W) + 1 /\ i + 1 <= j
      BY <2>1, <2>3
    <3> QED BY <2>2, <3>1 DEF Loop
  <2>7. Len(W) + 1 \in i + 1 .. Len(W) + 1
    BY <2>1, <2>3
  <2>8. ASSUME NEW j \in i + 1 .. Len(W), Ended(W[j])
        PROVE  p_flgptn'[W[j]] = s[j] /\ j \in i + 1 .. Len(W) + 1
    <3>1. j \in 1..Len(W) /\ j \in i + 1 .. Len(W) + 1
      BY <2>1, <2>3
    <3> QED BY <2>2, <2>8, <3>1 DEF Loop
  <2> HIDE DEF consumed, w
  <2>9. consumed(w, p_flgptn'[W[i]]) \cap flgptn'[f] = {}
    BY <2>4, <2>5, <2>6, <2>7
  <2>10. ASSUME NEW j \in i + 1 .. Len(W), Ended(W[j])
         PROVE  consumed(w, p_flgptn'[W[i]]) \cap p_flgptn'[W[j]] = {}
    BY <2>4, <2>5, <2>6, <2>8, <2>10
  <2> QED BY <2>9, <2>10 DEF W, w
<1> QED BY <1>1, FlagInvariant, PTL DEF FlagSpec, ConsumedOnce

(***************************************************************************)
(* Timed waits: what is left of a wait's time always is the time asked     *)
(* for, and a period, less the periods of the ticks since.                 *)
(***************************************************************************)

(* What is left of the time of t's wait. *)
Remaining(t) ==
  state[t] = "WAIT" /\ Finite(t) =>
    /\ asked[t] \in Nat /\ ticks[t] \in Nat
    /\ waitim[t] + ticks[t] * TimerPeriod = asked[t] + TimerPeriod

(* The inductive invariant. *)
TimeInv ==
  /\ KernelInv
  /\ asked = [t \in Task |-> asked[t]]
  /\ \A t \in Task : (state[t] # "WAIT" => ticks[t] = 0) /\ Remaining(t)

(* A step with history is a step of the kernel. *)
LEMMA TimeNextIsKernelNext ==
  ASSUME TimeNext
  PROVE  KernelNext
BY DEF TimeNext, Timed, Tick, Untimed, KernelNext, TaskCall

(* The history of a task that goes on waiting as before. *)
LEMMA GoesOnWaiting ==
  ASSUME TimeInv, NEW t \in Task, Remember(asked, ticks),
         state'[t] = "WAIT" => state[t] = "WAIT" /\ waitim'[t] = waitim[t]
  PROVE  (state'[t] # "WAIT" => ticks'[t] = 0) /\ Remaining(t)'
<1>1. state'[t] # "WAIT" => ticks'[t] = 0
  BY DEF Remember
<1>2. Remaining(t)'
  BY DEF Remember, TimeInv, Remaining, Finite
<1> QED BY <1>1, <1>2

(* A task begins to wait for time tim. *)
LEMMA BeginsToWait ==
  ASSUME TimeInv, InTask, NEW fct, NEW tim \in Nat \cup {TMO_FEVR}, NEW t \in Task,
         Suspend(fct, WaitTime(tim)), Remember([asked EXCEPT ![cur_task] = tim], ticks)
  PROVE  (state'[t] # "WAIT" => ticks'[t] = 0) /\ Remaining(t)'
<1>1. cur_task \in Task /\ state[cur_task] = "READY"
  BY RunningIsHead DEF TimeInv
<1>2. /\ state' = [state EXCEPT ![cur_task] = "WAIT"]
      /\ waitim' = [waitim EXCEPT ![cur_task] = WaitTime(tim)]
  BY DEF Suspend, StartWait
<1>3. state'[t] # "WAIT" => ticks'[t] = 0
  BY DEF Remember
<1>4. CASE t = cur_task
  <2>1. state'[t] = "WAIT" /\ waitim'[t] = WaitTime(tim)
    BY <1>1, <1>2, <1>4 DEF TimeInv, KernelInv, TypeOK
  <2>2. asked'[t] = tim
    BY <1>1, <1>4, <2>1 DEF Remember, TimeInv
  <2>3. Finite(t)' => ticks'[t] = 0
    BY <1>1, <1>4, <2>1 DEF Remember, TimeInv
  <2>4. Finite(t)' => tim \in Nat /\ WaitTime(tim) = tim + TimerPeriod
    BY <2>1 DEF Finite, WaitTime
  <2>5. Remaining(t)'
    BY <2>1, <2>2, <2>3, <2>4, KernelAssumption, TimerAssumption DEF Remaining
  <2> QED BY <1>3, <2>5
<1>5. CASE t # cur_task
  <2>1. state'[t] = state[t] /\ waitim'[t] = waitim[t]
    BY <1>1, <1>2, <1>5 DEF TimeInv, KernelInv, TypeOK
  <2>2. state'[t] = "WAIT" => asked'[t] = asked[t] /\ (Finite(t)' => ticks'[t] = ticks[t])
    BY <1>5 DEF Remember, TimeInv
  <2>3. Remaining(t)'
    BY <2>1, <2>2 DEF TimeInv, Remaining, Finite
  <2> QED BY <1>3, <2>3
<1> QED BY <1>4, <1>5

(* A tick ends the waits whose time is up and shortens the others.         *)
LEMMA TickShortens ==
  ASSUME TimeInv, systimer_handler, NEW t \in Task, state[t] = "WAIT"
  PROVE  /\ state'[t] = "READY" <=> Expired(t)
         /\ ~Expired(t) => /\ state'[t] = "WAIT"
                           /\ waitim'[t] = IF Finite(t) THEN waitim[t] - TimerPeriod
                                                        ELSE waitim[t]
<1>1. t \in Range(wait_queue)
  BY DEF TimeInv, KernelInv, QueueIntegrity
<1>2. /\ Elapse
      /\ state' = Readied({u \in Range(wait_queue) : Expired(u)})
  BY DEF systimer_handler, Release, Awaken
<1>3. state'[t] = IF Expired(t) THEN "READY" ELSE "WAIT"
  BY <1>1, <1>2 DEF Readied
<1>4. ~Expired(t) => waitim'[t] = IF Finite(t) THEN waitim[t] - TimerPeriod ELSE waitim[t]
  BY <1>1, <1>2 DEF Elapse
<1> QED BY <1>3, <1>4

LEMMA TickRemaining ==
  ASSUME TimeInv, Tick, NEW t \in Task
  PROVE  (state'[t] # "WAIT" => ticks'[t] = 0) /\ Remaining(t)'
<1>1. systimer_handler /\ Remember(asked, [u \in Task |-> ticks[u] + 1])
  BY DEF Tick
<1>2. state'[t] # "WAIT" => ticks'[t] = 0
  BY <1>1 DEF Remember
<1>3. ASSUME state'[t] = "WAIT", Finite(t)'
      PROVE  /\ asked'[t] \in Nat /\ ticks'[t] \in Nat
             /\ waitim'[t] + ticks'[t] * TimerPeriod = asked'[t] + TimerPeriod
  <2>1. state[t] = "WAIT"
    BY <1>1, <1>3 DEF systimer_handler, Release, Awaken, Readied
  <2>2. ~Expired(t)
    BY <1>1, <1>3, <2>1, TickShortens
  <2>3. waitim'[t] = IF Finite(t) THEN waitim[t] - TimerPeriod ELSE waitim[t]
    BY <1>1, <2>1, <2>2, TickShortens
  <2>4. Finite(t)
    BY <1>3, <2>3 DEF Finite
  <2>5. asked'[t] = asked[t] /\ ticks'[t] = ticks[t] + 1
    BY <1>1, <1>3 DEF Remember
  <2>6. /\ asked[t] \in Nat /\ ticks[t] \in Nat
        /\ waitim[t] + ticks[t] * TimerPeriod = asked[t] + TimerPeriod
    BY <2>1, <2>4 DEF TimeInv, Remaining
  <2>7. waitim[t] \in Nat /\ TimerPeriod \in Nat
    BY <2>4, KernelAssumption, TimerAssumption DEF Finite, TimeInv, KernelInv, TypeOK
  <2>8. (ticks[t] + 1) * TimerPeriod = ticks[t] * TimerPeriod + TimerPeriod
    BY <2>6, <2>7
  <2> DEFINE passed == ticks[t] * TimerPeriod
  <2>9. passed \in Nat
    BY <2>6, <2>7
  <2>10. (waitim[t] - TimerPeriod) + (passed + TimerPeriod) = waitim[t] + passed
    <3> HIDE DEF passed
    <3> QED BY <2>7, <2>9
  <2> QED BY <2>3, <2>4, <2>5, <2>6, <2>8, <2>10
<1> QED BY <1>2, <1>3 DEF Remaining

(* The other steps begin no wait, and change the time of no wait that goes *)
(* on.                                                                     *)
LEMMA UntimedGoesOn ==
  ASSUME TimeInv, Untimed, NEW t \in Task
  PROVE  /\ Remember(asked, ticks)
         /\ state'[t] = "WAIT" => state[t] = "WAIT" /\ waitim'[t] = waitim[t]
<1>1. Remember(asked, ticks)
  BY DEF Untimed
<1>2. state \in [Task -> State] /\ waitim \in [Task -> Nat \cup {TMO_FEVR}]
  BY DEF TimeInv, KernelInv, TypeOK
<1>3. ASSUME NEW u \in Task, tk_cre_tsk(u) \/ tk_sta_tsk(u), state'[t] = "WAIT"
      PROVE  state[t] = "WAIT" /\ waitim'[t] = waitim[t]
  BY <1>2, <1>3 DEF tk_cre_tsk, tk_sta_tsk
<1>4. ASSUME tk_ext_tsk, state'[t] = "WAIT"
      PROVE  state[t] = "WAIT" /\ waitim'[t] = waitim[t]
  BY <1>2, <1>4 DEF tk_ext_tsk
<1>5. ASSUME NEW u \in Task, tk_wup_tsk(u), state'[t] = "WAIT"
      PROVE  state[t] = "WAIT" /\ waitim'[t] = waitim[t]
  BY <1>2, <1>5 DEF tk_wup_tsk, Release, Awaken, Readied
<1>6. ASSUME Dispatcher, state'[t] = "WAIT"
      PROVE  state[t] = "WAIT" /\ waitim'[t] = waitim[t]
  BY <1>6 DEF Dispatcher, pendsv_entry, dispatch_entry, idle_exit, tcbVars
<1> QED BY <1>1, <1>3, <1>4, <1>5, <1>6 DEF Untimed, AnyContextCall

LEMMA TimedRemaining ==
  ASSUME TimeInv, Timed, NEW t \in Task
  PROVE  (state'[t] # "WAIT" => ticks'[t] = 0) /\ Remaining(t)'
<1>1. ASSUME NEW d \in Delays, tk_dly_tsk(d), Remember([asked EXCEPT ![cur_task] = d], ticks)
      PROVE  (state'[t] # "WAIT" => ticks'[t] = 0) /\ Remaining(t)'
  <2>1. d \in Nat /\ WaitTime(d) = d + TimerPeriod
    BY KernelAssumption, TimerAssumption DEF WaitTime, TMO_FEVR
  <2>2. InTask /\ Suspend("DLY", WaitTime(d))
    BY <1>1, <2>1 DEF tk_dly_tsk
  <2> QED BY <1>1, <2>1, <2>2, BeginsToWait
<1>2. ASSUME NEW tmout \in SleepTimes, tk_slp_tsk(tmout),
             Remember([asked EXCEPT ![cur_task] = tmout], ticks)
      PROVE  (state'[t] # "WAIT" => ticks'[t] = 0) /\ Remaining(t)'
  <2>1. tmout \in Nat \cup {TMO_FEVR} /\ InTask
    BY <1>2, KernelAssumption DEF tk_slp_tsk
  <2>2. CASE Suspend("SLP", WaitTime(tmout))
    BY <1>2, <2>1, <2>2, BeginsToWait
  <2>3. CASE UNCHANGED <<state, waitim>>
    <3>1. cur_task \in Task /\ state[cur_task] = "READY"
      BY <2>1, RunningIsHead DEF TimeInv
    <3>2. state[t] = "WAIT" => asked'[t] = asked[t] /\ (Finite(t)' => ticks'[t] = ticks[t])
      BY <1>2, <2>3, <3>1 DEF Remember, TimeInv
    <3>3. Remaining(t)'
      BY <2>3, <3>2 DEF TimeInv, Remaining, Finite
    <3>4. state'[t] # "WAIT" => ticks'[t] = 0
      BY <1>2 DEF Remember
    <3> QED BY <3>3, <3>4
  <2> QED BY <1>2, <2>2, <2>3 DEF tk_slp_tsk
<1> QED BY <1>1, <1>2 DEF Timed

LEMMA TimeInvInit == TimeInit => TimeInv
<1> SUFFICES ASSUME TimeInit PROVE TimeInv
  OBVIOUS
<1>1. KernelInv
  BY KernelInitInv DEF TimeInit
<1>2. asked = [t \in Task |-> asked[t]]
  BY DEF TimeInit
<1>3. \A t \in Task : state[t] # "WAIT" /\ ticks[t] = 0
  BY DEF TimeInit, KernelInit
<1> QED BY <1>1, <1>2, <1>3 DEF TimeInv, Remaining

LEMMA TimeInvNext ==
  ASSUME TimeInv, [TimeNext]_timeVars
  PROVE  TimeInv'
<1>1. CASE TimeNext
  <2>1. KernelInv'
    BY <1>1, TimeNextIsKernelNext, KernelNextInv DEF TimeInv
  <2>2. asked' = [t \in Task |-> asked'[t]]
    BY <1>1 DEF TimeNext, Timed, Tick, Untimed, Remember
  <2>3. \A t \in Task : (state'[t] # "WAIT" => ticks'[t] = 0) /\ Remaining(t)'
    <3> TAKE t \in Task
    <3>1. CASE Timed
      BY <3>1, TimedRemaining
    <3>2. CASE Tick
      BY <3>2, TickRemaining
    <3>3. CASE Untimed
      BY <3>3, UntimedGoesOn, GoesOnWaiting
    <3> QED BY <1>1, <3>1, <3>2, <3>3 DEF TimeNext
  <2> QED BY <2>1, <2>2, <2>3 DEF TimeInv
<1>2. CASE UNCHANGED timeVars
  <2>1. UNCHANGED <<kernelVars, asked, ticks>> /\ UNCHANGED <<state, waitim>>
    BY <1>2 DEF timeVars, kernelVars, tcbVars
  <2>2. KernelInv'
    BY <2>1, KernelStutter DEF TimeInv
  <2> QED BY <2>1, <2>2 DEF TimeInv, Remaining, Finite
<1> QED BY <1>1, <1>2

(* The time that is left of a wait is what was asked for, and a period,    *)
(* less the ticks since, in every state.                                   *)
THEOREM TimeIsKept == TimeSpec => []TimeInv
BY TimeInvInit, TimeInvNext, PTL DEF TimeSpec

(* A timed wait ends with exactly the first tick by which the time asked   *)
(* for must have passed, for any times and any tick length.                *)
THEOREM WaitsEndOnTime == TimeSpec => EndsOnTime
<1> DEFINE A == \A t \in Task : Tick /\ state[t] = "WAIT" /\ Finite(t) =>
                  (state'[t] = "READY" <=> ticks[t] * TimerPeriod >= asked[t])
<1>1. ASSUME TimeInv, NEW t \in Task, Tick, state[t] = "WAIT", Finite(t)
      PROVE  state'[t] = "READY" <=> ticks[t] * TimerPeriod >= asked[t]
  <2>1. state'[t] = "READY" <=> waitim[t] <= TimerPeriod
    BY <1>1, TickShortens DEF Tick, Expired
  <2>2. /\ asked[t] \in Nat /\ ticks[t] \in Nat
        /\ waitim[t] + ticks[t] * TimerPeriod = asked[t] + TimerPeriod
    BY <1>1 DEF TimeInv, Remaining
  <2>3. waitim[t] \in Nat /\ TimerPeriod \in Nat
    BY <1>1, KernelAssumption, TimerAssumption DEF Finite, TimeInv, KernelInv, TypeOK
  <2> DEFINE passed == ticks[t] * TimerPeriod
  <2>4. passed \in Nat
    BY <2>2, <2>3
  <2>5. waitim[t] <= TimerPeriod <=> passed >= asked[t]
    <3>1. waitim[t] + passed = asked[t] + TimerPeriod
      BY <2>2
    <3> HIDE DEF passed
    <3> QED BY <2>2, <2>3, <2>4, <3>1
  <2> QED BY <2>1, <2>5
<1>2. TimeInv => A
  BY <1>1
<1>3. TimeInv /\ [TimeNext]_timeVars => [A]_timeVars
  BY <1>2
<1> QED BY <1>3, TimeIsKept, PTL DEF TimeSpec, EndsOnTime

(***************************************************************************)
(* Cyclic handlers: the time that remains always leads to the next nominal *)
(* expiry.                                                                 *)
(***************************************************************************)

(* Division with remainder, which is unique.  (The provers do not find     *)
(* their way with % in quantified facts, but with an operator's name.)     *)
Mod(a, b) == a % b

LEMMA Division ==
  ASSUME NEW a \in Nat, NEW T \in Nat \ {0}
  PROVE  /\ a \div T \in Nat /\ Mod(a, T) \in 0..(T - 1)
         /\ a = T * (a \div T) + Mod(a, T)
BY DEF Mod

LEMMA Remainder ==
  ASSUME NEW q \in Nat, NEW T \in Nat \ {0}, NEW r \in 0..(T - 1)
  PROVE  Mod(T * q + r, T) = r
BY DEF Mod

(* The next multiple of T after m, a multiple, and o, is T - (o % T) later. *)
LEMMA NextMultiple ==
  ASSUME NEW m \in Nat, NEW o \in Nat, NEW T \in Nat \ {0}, Mod(m, T) = 0,
         NEW x, x = T - Mod(o, T)
  PROVE  /\ x \in 1..T
         /\ Mod(m + o + x, T) = 0
         /\ \A d \in 1..(x - 1) : Mod(m + o + d, T) # 0
<1> DEFINE q == m \div T  k == o \div T  r == Mod(o, T)
<1>1. q \in Nat /\ m = T * q
  <2>1. q \in Nat /\ m = T * q + Mod(m, T)
    BY Division
  <2> HIDE DEF q
  <2> QED BY <2>1, T * q \in Nat
<1>2. k \in Nat /\ r \in 0..(T - 1) /\ o = T * k + r /\ x = T - r
  BY Division
<1> HIDE DEF q, k, r
<1>3. T * q + T * k = T * (q + k) /\ T * (q + k) + T = T * (q + k + 1) /\ q + k \in Nat
  BY <1>1, <1>2
<1>4. m + o + x = T * (q + k + 1) + 0
  BY <1>1, <1>2, <1>3
<1>5. Mod(m + o + x, T) = 0
  BY <1>3, <1>4, Remainder, q + k + 1 \in Nat, 0 \in 0..(T - 1)
<1>6. ASSUME NEW d \in 1..(x - 1) PROVE Mod(m + o + d, T) # 0
  <2>1. m + o + d = T * (q + k) + (r + d)
    BY <1>1, <1>2, <1>3
  <2>2. r + d \in 0..(T - 1) /\ r + d # 0
    BY <1>2
  <2> QED BY <1>3, <2>1, <2>2, Remainder
<1>7. x \in 1..T
  BY <1>2
<1> QED BY <1>5, <1>6, <1>7

(* A handler with phase P and period T nominally expires at time tm after  *)
(* its start; what is left of its time, r, leads from the time s to its    *)
(* next nominal expiry.                                                    *)
Expires(tm, P, T) == tm >= P /\ Mod(tm - P, T) = 0

Leads(s, r, P, T) ==
  /\ Expires(s + r, P, T)
  /\ \A d \in 1..(r - 1) : ~Expires(s + d, P, T)
  /\ IF s = 0 THEN r = P ELSE r > 0

LEMMA NominalExpires ==
  ASSUME NEW i \in Cyc, NEW tm
  PROVE  Nominal(i, tm) <=> Expires(tm, config[i].cycphs, config[i].cyctim)
BY DEF Nominal, Expires, Mod

(* It does at the start. *)
LEMMA StartLeads ==
  ASSUME NEW P \in Nat, NEW T \in Nat \ {0}
  PROVE  Leads(0, P, P, T)
<1>1. T * 0 + 0 = (0 + P) - P /\ 0 + P >= P
  OBVIOUS
<1>2. Mod(T * 0 + 0, T) = 0
  BY Remainder, 0 \in Nat, 0 \in 0..(T - 1)
<1>3. Expires(0 + P, P, T)
  BY <1>1, <1>2 DEF Expires
<1>4. \A d \in 1..(P - 1) : ~(0 + d >= P)
  OBVIOUS
<1> QED BY <1>3, <1>4 DEF Leads, Expires

(* A tick takes its length p off, or counts to the next nominal expiry.    *)
LEMMA TickLeads ==
  ASSUME NEW P \in Nat, NEW T \in Nat \ {0}, NEW s \in Nat, NEW r \in Nat,
         NEW p \in Nat \ {0}, Leads(s, r, P, T)
  PROVE  LET x == IF r <= p THEN T - Mod(p - r, T) ELSE r - p
         IN  x \in Nat /\ Leads(s + p, x, P, T)
<1>1. CASE r <= p
  <2> DEFINE m == s + r - P  o == p - r  x == T - Mod(o, T)
  <2>1. m \in Nat /\ o \in Nat /\ Mod(m, T) = 0
    BY <1>1 DEF Leads, Expires
  <2>2. x = T - Mod(o, T)
    OBVIOUS
  <2> HIDE DEF m, o, x
  <2>3. x \in 1..T /\ Mod(m + o + x, T) = 0 /\ \A d \in 1..(x - 1) : Mod(m + o + d, T) # 0
    BY <2>1, <2>2, NextMultiple
  <2>4. \A d \in Nat : m + o + d = ((s + p) + d) - P /\ ((s + p) + d) >= P
    BY <1>1, <2>1 DEF m, o
  <2>5. \A d \in Nat : Expires((s + p) + d, P, T) <=> Mod(m + o + d, T) = 0
    BY <2>4, Zenon DEF Expires
  <2>6. x \in Nat /\ x > 0 /\ s + p # 0 /\ \A d \in 1..(x - 1) : d \in Nat
    BY <2>3
  <2>7. Leads(s + p, x, P, T)
    BY <2>3, <2>5, <2>6, Zenon DEF Leads
  <2> QED BY <1>1, <2>6, <2>7 DEF x, o
<1>2. CASE ~(r <= p)
  <2> DEFINE x == r - p
  <2>1. x \in Nat /\ x > 0 /\ (s + p) + x = s + r /\ s + p # 0
    BY <1>2
  <2>2. \A d \in 1..(x - 1) : p + d \in 1..(r - 1) /\ (s + p) + d = s + (p + d)
    BY <1>2
  <2> HIDE DEF x
  <2>3. \A d \in 1..(x - 1) : ~Expires((s + p) + d, P, T)
    BY <2>2, Zenon DEF Leads
  <2>4. Leads(s + p, x, P, T)
    BY <2>1, <2>3, Zenon DEF Leads
  <2> QED BY <1>2, <2>1, <2>4 DEF x
<1> QED BY <1>1, <1>2

(* The inductive invariant: what is left of an active handler's time leads *)
(* to its next nominal expiry.                                             *)
CycTypeOK ==
  /\ exists \in [Cyc -> BOOLEAN] /\ active \in [Cyc -> BOOLEAN]
  /\ config \in [Cyc -> Config]
  /\ remaining \in [Cyc -> Nat] /\ since \in [Cyc -> Nat]

OnPhase(i) ==
  exists[i] /\ Leads(since[i], remaining[i], config[i].cycphs, config[i].cyctim)

CycInv == CycTypeOK /\ \A i \in Cyc : active[i] => OnPhase(i)

LEMMA ConfigType ==
  ASSUME NEW c \in Config
  PROVE  c.cyctim \in Nat \ {0} /\ c.cycphs \in Nat /\ c.sta \in BOOLEAN
BY CyclicAssumption

LEMMA CycInvInit == CycInit => CycInv
<1> SUFFICES ASSUME CycInit PROVE CycInv
  OBVIOUS
<1>1. (CHOOSE c \in Config : TRUE) \in Config
  BY CyclicAssumption
<1> QED BY <1>1 DEF CycInit, CycInv, CycTypeOK

(* A handler that starts has its phase before it, one that a step leaves   *)
(* alone stays on phase.                                                   *)
LEMMA StartsOnPhase ==
  ASSUME NEW i \in Cyc, CycTypeOK', exists'[i], since'[i] = 0,
         remaining'[i] = config'[i].cycphs
  PROVE  OnPhase(i)'
<1>1. config'[i].cycphs \in Nat /\ config'[i].cyctim \in Nat \ {0}
  BY ConfigType DEF CycTypeOK
<1>2. Leads(0, config'[i].cycphs, config'[i].cycphs, config'[i].cyctim)
  BY <1>1, StartLeads
<1> QED BY <1>2 DEF OnPhase

LEMMA StaysOnPhase ==
  ASSUME NEW i \in Cyc, OnPhase(i), exists'[i], since'[i] = since[i],
         remaining'[i] = remaining[i], config'[i] = config[i]
  PROVE  OnPhase(i)'
BY DEF OnPhase

LEMMA TickKeepsPhase ==
  ASSUME CycInv, cyclic_tick, NEW i \in Cyc, active[i]
  PROVE  remaining'[i] \in Nat /\ OnPhase(i)'
<1> DEFINE P == config[i].cycphs  T == config[i].cyctim  s == since[i]  r == remaining[i]
           x == IF r <= TimerPeriod THEN T - Mod(TimerPeriod - r, T) ELSE r - TimerPeriod
<1>1. P \in Nat /\ T \in Nat \ {0} /\ s \in Nat /\ r \in Nat /\ TimerPeriod \in Nat \ {0}
  BY ConfigType, TimerAssumption DEF CycInv, CycTypeOK
<1>2. exists[i] /\ Leads(s, r, P, T)
  BY DEF CycInv, OnPhase
<1>3. config'[i] = config[i] /\ exists'[i] /\ since'[i] = s + TimerPeriod /\ remaining'[i] = x
  BY <1>2 DEF cyclic_tick, Due, Reloaded, Mod
<1>4. x \in Nat /\ Leads(s + TimerPeriod, x, P, T)
  <2> HIDE DEF P, T, s, r
  <2> QED BY <1>1, <1>2, TickLeads
<1> QED
  <2> HIDE DEF x, s
  <2> QED BY <1>3, <1>4 DEF OnPhase

(* Nobody else disturbs what is left of a handler's time. *)
LEMMA CycInvNext ==
  ASSUME CycInv, [CycNext]_cycVars
  PROVE  CycInv'
<1>1. ASSUME NEW j \in Cyc, NEW c \in Config, tk_cre_cyc(j, c) PROVE CycInv'
  <2>1. CycTypeOK'
    BY <1>1, ConfigType DEF CycInv, CycTypeOK, tk_cre_cyc
  <2>2. ASSUME NEW i \in Cyc, active'[i] PROVE OnPhase(i)'
    <3>1. CASE i = j
      <4>1. exists'[i] /\ since'[i] = 0 /\ remaining'[i] = config'[i].cycphs
        BY <1>1, <3>1 DEF CycInv, CycTypeOK, tk_cre_cyc
      <4> QED BY <2>1, <4>1, StartsOnPhase
    <3>2. CASE i # j
      <4>1. /\ active[i] /\ exists'[i] = exists[i] /\ since'[i] = since[i]
            /\ remaining'[i] = remaining[i] /\ config'[i] = config[i]
        BY <1>1, <2>2, <3>2 DEF CycInv, CycTypeOK, tk_cre_cyc
      <4>2. OnPhase(i) /\ exists[i]
        BY <4>1 DEF CycInv, OnPhase
      <4> QED BY <4>1, <4>2, StaysOnPhase
    <3> QED BY <3>1, <3>2
  <2> QED BY <2>1, <2>2 DEF CycInv
<1>2. ASSUME NEW j \in Cyc, tk_sta_cyc(j) \/ tk_stp_cyc(j) \/ tk_del_cyc(j) PROVE CycInv'
  <2>1. CycTypeOK'
    <3>1. config[j].cycphs \in Nat
      BY ConfigType DEF CycInv, CycTypeOK
    <3>2. CASE tk_sta_cyc(j)
      BY <3>1, <3>2 DEF CycInv, CycTypeOK, tk_sta_cyc
    <3>3. CASE tk_stp_cyc(j)
      BY <3>3 DEF CycInv, CycTypeOK, tk_stp_cyc
    <3>4. CASE tk_del_cyc(j)
      BY <3>4 DEF CycInv, CycTypeOK, tk_del_cyc
    <3> QED BY <1>2, <3>2, <3>3, <3>4
  <2>2. ASSUME NEW i \in Cyc, active'[i] PROVE OnPhase(i)'
    <3>1. CASE i = j
      <4>1. exists'[i] /\ since'[i] = 0 /\ remaining'[i] = config'[i].cycphs
        BY <1>2, <2>2, <3>1 DEF CycInv, CycTypeOK, tk_sta_cyc, tk_stp_cyc, tk_del_cyc
      <4> QED BY <2>1, <4>1, StartsOnPhase
    <3>2. CASE i # j
      <4>1. /\ active[i] /\ exists'[i] = exists[i] /\ since'[i] = since[i]
            /\ remaining'[i] = remaining[i] /\ config'[i] = config[i]
        BY <1>2, <2>2, <3>2 DEF CycInv, CycTypeOK, tk_sta_cyc, tk_stp_cyc, tk_del_cyc
      <4>2. OnPhase(i) /\ exists[i]
        BY <4>1 DEF CycInv, OnPhase
      <4> QED BY <4>1, <4>2, StaysOnPhase
    <3> QED BY <3>1, <3>2
  <2> QED BY <2>1, <2>2 DEF CycInv
<1>3. ASSUME cyclic_tick PROVE CycInv'
  <2>1. \A i \in Cyc : active[i] => remaining'[i] \in Nat /\ OnPhase(i)'
    BY <1>3, TickKeepsPhase
  <2>2. \A i \in Cyc : remaining'[i] \in Nat
    <3>1. \A i \in Cyc : ~active[i] => remaining'[i] = remaining[i]
      BY <1>3 DEF cyclic_tick, Due
    <3> QED BY <2>1, <3>1 DEF CycInv, CycTypeOK
  <2>3. CycTypeOK'
    <3>1. \A i \in Cyc : since'[i] \in Nat
      BY <1>3, TimerAssumption DEF CycInv, CycTypeOK, cyclic_tick
    <3> QED BY <1>3, <2>2, <3>1 DEF CycInv, CycTypeOK, cyclic_tick
  <2>4. active' = active
    BY <1>3 DEF cyclic_tick
  <2> QED BY <2>1, <2>3, <2>4 DEF CycInv
<1>4. CASE UNCHANGED cycVars
  <2>1. CycTypeOK'
    BY <1>4 DEF CycInv, CycTypeOK, cycVars
  <2>2. \A i \in Cyc : active'[i] => OnPhase(i)'
    BY <1>4 DEF CycInv, OnPhase, cycVars
  <2> QED BY <2>1, <2>2 DEF CycInv
<1> QED BY <1>1, <1>2, <1>3, <1>4 DEF CycNext

(* The inductive invariant: no step loses the phase of a handler. *)
THEOREM PhaseIsKept == CycSpec => []CycInv
<1>1. CycInv /\ [CycNext]_cycVars => CycInv'
  BY CycInvNext
<1> QED BY <1>1, CycInvInit, PTL DEF CycSpec

(* For any periods, phases and tick length, what tk_ref_cyc reports leads  *)
(* to the next nominal expiry of a handler.                                *)
THEOREM PhaseNeverDrifts == CycSpec => []NominalPhase
<1>1. CycInv => NominalPhase
  <2> SUFFICES ASSUME CycInv, NEW i \in Cyc, active[i]
               PROVE  /\ Nominal(i, since[i] + lfttim(i))
                      /\ \A d \in 1..(lfttim(i) - 1) : ~Nominal(i, since[i] + d)
                      /\ since[i] > 0 => lfttim(i) > 0
    BY DEF NominalPhase
  <2>1. lfttim(i) = remaining[i] /\ since[i] \in Nat
    BY DEF lfttim, CycInv, CycTypeOK
  <2>2. Leads(since[i], remaining[i], config[i].cycphs, config[i].cyctim)
    BY DEF CycInv, OnPhase
  <2> QED BY <2>1, <2>2, NominalExpires DEF Leads
<1> QED BY <1>1, PhaseIsKept, PTL

(* For any periods, phases and tick length, a tick calls exactly the       *)
(* handlers with a nominal expiry in the time that it ends.                *)
THEOREM HandlersAreCalledWhenDue == CycSpec => CalledWhenDue
<1> DEFINE p == TimerPeriod
           due(i) == /\ active[i] /\ since'[i] = since[i] + p
                     /\ \/ \E d \in 1..p : Nominal(i, since[i] + d)
                        \/ since[i] = 0 /\ Nominal(i, 0)
<1>1. ASSUME CycInv, CycNext, NEW i \in Cyc PROVE i \in called' <=> due(i)
  <2>1. p \in Nat \ {0} /\ since[i] \in Nat /\ remaining[i] \in Nat
    BY <1>1, TimerAssumption DEF CycInv, CycTypeOK
  <2>2. CASE cyclic_tick /\ active[i]
    <3>1. exists[i] /\ Leads(since[i], remaining[i], config[i].cycphs, config[i].cyctim)
      BY <1>1, <2>2 DEF CycInv, OnPhase
    <3>2. since'[i] = since[i] + p /\ (i \in called' <=> remaining[i] <= p)
      BY <2>2, <3>1 DEF cyclic_tick, Due
    <3>3. Nominal(i, since[i] + remaining[i])
          /\ \A d \in 1..(remaining[i] - 1) : ~Nominal(i, since[i] + d)
      BY <3>1, NominalExpires DEF Leads
    <3>4. CASE remaining[i] <= p
      <4>1. CASE remaining[i] = 0
        <5>1. since[i] = 0 /\ Nominal(i, 0)
          BY <2>1, <3>1, <3>3, <4>1 DEF Leads
        <5> QED BY <2>2, <3>2, <3>4, <5>1
      <4>2. CASE remaining[i] # 0
        <5>1. remaining[i] \in 1..p
          BY <2>1, <3>4, <4>2
        <5> QED BY <2>2, <3>2, <3>3, <3>4, <5>1
      <4> QED BY <4>1, <4>2
    <3>5. CASE ~(remaining[i] <= p)
      <4>1. \A d \in 1..p : d \in 1..(remaining[i] - 1)
        BY <2>1, <3>5
      <4>2. since[i] = 0 => ~Nominal(i, 0)
        BY <2>1, <3>1, <3>5 DEF Leads, Nominal
      <4> QED BY <3>2, <3>3, <3>5, <4>1, <4>2
    <3> QED BY <3>4, <3>5
  <2>3. CASE cyclic_tick /\ ~active[i]
    BY <2>3 DEF cyclic_tick, Due
  <2>4. CASE ~cyclic_tick
    <3>1. called' = {} /\ (since'[i] = 0 \/ since'[i] = since[i])
      BY <1>1, <2>4 DEF CycInv, CycTypeOK, CycNext, tk_cre_cyc, tk_sta_cyc, tk_stp_cyc, tk_del_cyc
    <3>2. since'[i] # since[i] + p
      BY <2>1, <3>1
    <3> QED BY <3>1, <3>2
  <2> QED BY <2>2, <2>3, <2>4
<1>2. CycInv /\ [CycNext]_cycVars => [\A i \in Cyc : i \in called' <=> due(i)]_cycVars
  BY <1>1
<1> QED BY <1>2, PhaseIsKept, PTL DEF CycSpec, CalledWhenDue

(***************************************************************************)
(* Message queues: the rings are channels, and waits end in order.         *)
(***************************************************************************)

Fct == {"SND_MSGQ", "RCV_MSGQ"}

(* The cells are functions; MsgqTypeOK says what they hold. *)
RingShape ==
  /\ count \in [Msgq -> Nat] /\ head \in [Msgq -> Nat] /\ tail \in [Msgq -> Nat]
  /\ buffer = [q \in Msgq |-> buffer[q]]

(* NoNeedlessWait in terms of the tasks that wait. *)
MsgqWaiting(fct, q) == {t \in Task : waifct[t] = fct /\ waiobj[t] = q}

WaitedFor ==
  \A q \in Msgq : /\ MsgqWaiting("RCV_MSGQ", q) # {} => count[q] = 0
                  /\ MsgqWaiting("SND_MSGQ", q) # {} => count[q] = maxmsg[q]

(* Tasks wait only for queues that exist. *)
QueuesExist == \A fct \in Fct, q \in Msgq : MsgqWaiting(fct, q) # {} => msgqst[q] = "EXIST"

(* The inductive invariant. *)
MsgInv == KernelInv /\ RingShape /\ MsgqTypeOK /\ WaitedFor /\ QueuesExist

LEMMA FactorsAreOthers ==
  /\ Fct \subseteq WaitFactor /\ Fct \subseteq Waifct \ {"NON"}
  /\ \A fct \in Fct : fct \notin {"NON", "DLY", "SLP"}
BY MessageQueueAssumption, KernelAssumption DEF Fct, Waifct

(* The waiters are found in the wait queue, once each. *)
LEMMA MsgqWaitersProperties ==
  ASSUME KernelInv, NEW fct \in Fct, NEW q \in Msgq
  PROVE  /\ MsgqWaiters(fct, q) \in Seq(Task)
         /\ Range(MsgqWaiters(fct, q)) = MsgqWaiting(fct, q)
         /\ MsgqWaiting(fct, q) \in SUBSET Range(wait_queue)
         /\ MsgqWaiters(fct, q) = <<>> <=> MsgqWaiting(fct, q) = {}
         /\ MsgqWaiters(fct, q) # <<>> => Head(MsgqWaiters(fct, q)) \in MsgqWaiting(fct, q)
<1>1. \A t \in MsgqWaiting(fct, q) : t \in Task /\ state[t] = "WAIT"
  BY FactorsAreOthers DEF MsgqWaiting, KernelInv, ProcessorInv
<1>2. MsgqWaiting(fct, q) \in SUBSET Range(wait_queue)
  BY <1>1 DEF KernelInv, QueueIntegrity
<1>3. MsgqWaiters(fct, q) \in Seq(Task)
      /\ Range(MsgqWaiters(fct, q)) = Range(wait_queue) \cap MsgqWaiting(fct, q)
  <2>1. wait_queue \in Seq(Task)
    BY DEF KernelInv, TypeOK
  <2> QED BY <2>1, EntriesProperties DEF MsgqWaiters, MsgqWaiting
<1>4. Range(MsgqWaiters(fct, q)) = MsgqWaiting(fct, q)
  BY <1>2, <1>3
<1> DEFINE W == MsgqWaiters(fct, q)
<1> HIDE DEF W
<1>5. W \in Seq(Task) => (W = <<>> <=> Range(W) = {}) /\ (W # <<>> => Head(W) \in Range(W))
  <2> SUFFICES ASSUME W \in Seq(Task)
               PROVE  (W = <<>> <=> Range(W) = {}) /\ (W # <<>> => Head(W) \in Range(W))
    OBVIOUS
  <2>1. DOMAIN W = 1..Len(W) /\ Len(W) \in Nat
    BY LenProperties
  <2>2. W = <<>> => Range(W) = {}
    BY DEF Range
  <2>3. W # <<>> => 1 \in DOMAIN W /\ Head(W) = W[1]
    BY <2>1, EmptySeq
  <2>4. W # <<>> => Head(W) \in Range(W)
    BY <2>3 DEF Range
  <2> QED BY <2>2, <2>4
<1> QED BY <1>2, <1>3, <1>4, <1>5 DEF W

(* The moves of the ring. *)
LEMMA SuccessorType ==
  ASSUME NEW q \in Msgq, NEW i \in 0..(maxmsg[q] - 1)
  PROVE  Successor(q, i) \in 0..(maxmsg[q] - 1)
BY MessageQueueAssumption DEF Successor

LEMMA EnqueueType ==
  ASSUME RingShape, MsgqTypeOK, NEW q \in Msgq, NEW m \in Msg \cup {NOMSG}, enqueue_message(q, m)
  PROVE  /\ tail' \in [Msgq -> Nat] /\ buffer' = [r \in Msgq |-> buffer'[r]]
         /\ \A r \in Msgq : /\ tail'[r] \in 0..(maxmsg[r] - 1)
                            /\ buffer'[r] \in [0..(maxmsg[r] - 1) -> Msg \cup {NOMSG}]
<1>1. Successor(q, tail[q]) \in 0..(maxmsg[q] - 1) /\ maxmsg[q] \in Nat
  BY SuccessorType, MessageQueueAssumption DEF MsgqTypeOK
<1>2. tail' = [tail EXCEPT ![q] = Successor(q, tail[q])]
  BY DEF enqueue_message
<1>3. tail' \in [Msgq -> Nat] /\ \A r \in Msgq : tail'[r] \in 0..(maxmsg[r] - 1)
  <2>1. tail \in [Msgq -> Nat] /\ \A r \in Msgq : tail[r] \in 0..(maxmsg[r] - 1)
    BY DEF RingShape, MsgqTypeOK
  <2>2. Successor(q, tail[q]) \in Nat
    BY <1>1
  <2> DEFINE s == Successor(q, tail[q])
  <2> HIDE DEF s
  <2> QED BY <1>1, <1>2, <2>1, <2>2 DEF s
<1>4. buffer' = [buffer EXCEPT ![q] = [buffer[q] EXCEPT ![tail[q]] = m]]
  BY DEF enqueue_message
<1>5. \A r \in Msgq : buffer'[r] = IF r = q THEN [buffer[q] EXCEPT ![tail[q]] = m] ELSE buffer[r]
  BY <1>4 DEF RingShape
<1>6. buffer' = [r \in Msgq |-> buffer'[r]]
  BY <1>4 DEF RingShape
<1>7. \A r \in Msgq : buffer'[r] \in [0..(maxmsg[r] - 1) -> Msg \cup {NOMSG}]
  <2> TAKE r \in Msgq
  <2>1. buffer[r] \in [0..(maxmsg[r] - 1) -> Msg \cup {NOMSG}]
    BY DEF MsgqTypeOK
  <2>2. CASE r = q
    <3>1. buffer'[r] = [buffer[r] EXCEPT ![tail[q]] = m]
      BY <1>5, <2>2
    <3> QED BY <2>1, <3>1
  <2>3. CASE r # q
    <3>1. buffer'[r] = buffer[r]
      BY <1>5, <2>3
    <3> QED BY <2>1, <3>1
  <2> QED BY <2>2, <2>3
<1> QED BY <1>3, <1>6, <1>7

LEMMA DequeueType ==
  ASSUME KernelInv, RingShape, MsgqTypeOK, NEW q \in Msgq, dequeue_message(q)
  PROVE  /\ head' \in [Msgq -> Nat]
         /\ \A r \in Msgq : head'[r] \in 0..(maxmsg[r] - 1)
         /\ rcvmsg' \in [Msgq -> [Task -> Msg \cup {NOMSG}]]
<1>1. Successor(q, head[q]) \in 0..(maxmsg[q] - 1) /\ maxmsg[q] \in Nat
  BY SuccessorType, MessageQueueAssumption DEF MsgqTypeOK
<1>2. head' = [head EXCEPT ![q] = Successor(q, head[q])]
  BY DEF dequeue_message
<1>3. buffer[q][head[q]] \in Msg \cup {NOMSG}
  BY DEF MsgqTypeOK
<1>4. rcvmsg' \in [Msgq -> [Task -> Msg \cup {NOMSG}]]
  BY <1>3 DEF dequeue_message, Unwritten
<1>5. head' \in [Msgq -> Nat] /\ \A r \in Msgq : head'[r] \in 0..(maxmsg[r] - 1)
  <2>1. head \in [Msgq -> Nat] /\ \A r \in Msgq : head[r] \in 0..(maxmsg[r] - 1)
    BY DEF RingShape, MsgqTypeOK
  <2>2. Successor(q, head[q]) \in Nat
    BY <1>1
  <2> DEFINE s == Successor(q, head[q])
  <2> HIDE DEF s
  <2> QED BY <1>1, <1>2, <2>1, <2>2 DEF s
<1> QED BY <1>4, <1>5

(* The end of the wait of one waiter. *)
LEMMA MakeReadyPreserves ==
  ASSUME MsgInv, NEW fct \in Fct, NEW q \in Msgq, NEW t \in MsgqWaiting(fct, q), make_ready(t)
  PROVE  /\ KernelInv'
         /\ waiobj' \in [Task -> Msgq \cup {NONE}] /\ sndmsg' \in [Task -> Msg \cup {NOMSG}]
         /\ \A f \in Fct, r \in Msgq : MsgqWaiting(f, r)' \in SUBSET MsgqWaiting(f, r)
<1>1. t \in Task /\ {t} \in SUBSET Range(wait_queue)
  BY MsgqWaitersProperties DEF MsgInv, MsgqWaiting
<1> DEFINE err == [u \in Task |-> "E_OK"]
<1>2. /\ Release({t}, err) /\ UNCHANGED <<itskpri, wupcnt, cpuVars>>
      /\ waitim' = [waitim EXCEPT ![t] = 0]
      /\ waiobj' = [waiobj EXCEPT ![t] = NONE]
      /\ sndmsg' = [sndmsg EXCEPT ![t] = NOMSG]
  BY DEF make_ready
<1>3. \A u \in {t} : err[u] \in {"E_OK", "E_TMOUT"}
  BY <1>1
<1>4. waitim' \in [Task -> Nat \cup {TMO_FEVR}]
  BY <1>2 DEF MsgInv, KernelInv, TypeOK
<1>5. waifct' = [u \in Task |-> IF u \in {t} THEN "NON" ELSE waifct[u]]
  BY <1>2 DEF Release, Awaken, EndWait
<1> HIDE DEF err
<1>6. KernelInv'
  BY <1>1, <1>2, <1>3, <1>4, ReleasePreserves DEF MsgInv
<1>7. waiobj' \in [Task -> Msgq \cup {NONE}] /\ sndmsg' \in [Task -> Msg \cup {NOMSG}]
  BY <1>2 DEF MsgInv, MsgqTypeOK
<1>8. \A f \in Fct, r \in Msgq : MsgqWaiting(f, r)' \in SUBSET MsgqWaiting(f, r)
  BY <1>1, <1>2, <1>5, FactorsAreOthers DEF MsgqWaiting, MsgInv, MsgqTypeOK
<1> QED BY <1>6, <1>7, <1>8

(* The caller begins to wait. *)
LEMMA WaitForPreserves ==
  ASSUME MsgInv, InTask, NEW fct \in Fct, NEW q \in Msgq, NEW tmout \in MsgWaits,
         NEW m \in Msg \cup {NOMSG}, WaitFor(fct, q, tmout, m)
  PROVE  /\ KernelInv'
         /\ waiobj' \in [Task -> Msgq \cup {NONE}] /\ sndmsg' \in [Task -> Msg \cup {NOMSG}]
         /\ \A f \in Fct, r \in Msgq : <<f, r>> # <<fct, q>> =>
              MsgqWaiting(f, r)' \in SUBSET MsgqWaiting(f, r)
<1>1. /\ Suspend(fct, WaitTime(tmout)) /\ UNCHANGED <<itskpri, wupcnt, cpuVars>>
      /\ waiobj' = [waiobj EXCEPT ![cur_task] = q]
      /\ sndmsg' = [sndmsg EXCEPT ![cur_task] = m]
  BY DEF WaitFor
<1>2. WaitTime(tmout) \in Nat \cup {TMO_FEVR}
  BY MessageQueueAssumption, KernelAssumption, TimerAssumption DEF WaitTime
<1>3. fct \in Waifct \ {"NON"} /\ fct # "SLP"
  BY FactorsAreOthers
<1>4. KernelInv'
  BY <1>1, <1>2, <1>3, SuspendPreserves DEF MsgInv
<1>5. cur_task \in Task /\ waifct' = [waifct EXCEPT ![cur_task] = fct]
      /\ waifct \in [Task -> Waifct]
  BY <1>1, RunningIsHead DEF MsgInv, Suspend, StartWait, KernelInv, TypeOK
<1>6. waiobj' \in [Task -> Msgq \cup {NONE}] /\ sndmsg' \in [Task -> Msg \cup {NOMSG}]
  BY <1>1, <1>5 DEF MsgInv, MsgqTypeOK
<1>7. ASSUME NEW f \in Fct, NEW r \in Msgq, <<f, r>> # <<fct, q>>,
             NEW t \in MsgqWaiting(f, r)'
      PROVE  t \in MsgqWaiting(f, r)
  BY <1>1, <1>5, <1>7 DEF MsgqWaiting, MsgInv, MsgqTypeOK
<1> QED BY <1>4, <1>6, <1>7

(* WaitedFor says what NoNeedlessWait says. *)
LEMMA WaitedForIsNoNeedlessWait ==
  ASSUME KernelInv
  PROVE  WaitedFor <=> NoNeedlessWait
<1>1. \A fct \in Fct, q \in Msgq : MsgqWaiters(fct, q) = <<>> <=> MsgqWaiting(fct, q) = {}
  BY MsgqWaitersProperties
<1> QED BY <1>1 DEF WaitedFor, NoNeedlessWait, Fct

(***************************************************************************)
(* One lemma for each call.                                                *)
(***************************************************************************)
LEMMA CreateMsgqPreserves ==
  ASSUME MsgInv, NEW q \in Msgq, tk_cre_msgq(q)
  PROVE  MsgInv'
<1>1. /\ msgqst[q] = "NONEXIST" /\ msgqst' = [msgqst EXCEPT ![q] = "EXIST"]
      /\ count' = [count EXCEPT ![q] = 0]
      /\ head'  = [head EXCEPT ![q] = 0]
      /\ tail'  = [tail EXCEPT ![q] = 0]
      /\ rcvmsg' = Unwritten
      /\ UNCHANGED <<kernelVars, buffer, waiobj, sndmsg>>
  BY DEF tk_cre_msgq
<1>2. KernelInv' /\ UNCHANGED waifct
  BY <1>1, KernelStutter DEF MsgInv, kernelVars, tcbVars
<1>3. \A r \in Msgq : 0 \in 0..maxmsg[r] /\ 0 \in 0..(maxmsg[r] - 1)
  BY MessageQueueAssumption
<1>4. Unwritten \in [Msgq -> [Task -> Msg \cup {NOMSG}]]
  BY DEF Unwritten
<1>5. RingShape' /\ MsgqTypeOK'
  <2>1. RingShape'
    BY <1>1 DEF MsgInv, RingShape
  <2>2. \A r \in Msgq : /\ count'[r] \in 0..maxmsg[r]
                        /\ head'[r] \in 0..(maxmsg[r] - 1)
                        /\ tail'[r] \in 0..(maxmsg[r] - 1)
    BY <1>1, <1>3 DEF MsgInv, RingShape, MsgqTypeOK
  <2> QED BY <1>1, <1>4, <2>1, <2>2 DEF MsgInv, MsgqTypeOK
<1>6. \A fct \in Fct, r \in Msgq : MsgqWaiting(fct, r)' = MsgqWaiting(fct, r)
  BY <1>1, <1>2 DEF MsgqWaiting
<1>7. \A fct \in Fct : MsgqWaiting(fct, q) = {}
  BY <1>1 DEF MsgInv, QueuesExist
<1>8. WaitedFor' /\ QueuesExist'
  BY <1>1, <1>6, <1>7 DEF MsgInv, RingShape, MsgqTypeOK, WaitedFor, QueuesExist, Fct
<1> QED BY <1>2, <1>5, <1>8 DEF MsgInv

(* What the three outcomes of a call share: nobody waits for the queue q   *)
(* but those who did, or a caller for whom that is right, and q's ring has *)
(* room for what it counts.                                                *)
LEMMA CallPreserves ==
  ASSUME MsgInv, NEW q \in Msgq, KernelInv', UNCHANGED msgqst, msgqst[q] = "EXIST",
         waiobj' \in [Task -> Msgq \cup {NONE}], sndmsg' \in [Task -> Msg \cup {NOMSG}],
         rcvmsg' \in [Msgq -> [Task -> Msg \cup {NOMSG}]],
         tail' \in [Msgq -> Nat], head' \in [Msgq -> Nat],
         buffer' = [r \in Msgq |-> buffer'[r]],
         \A r \in Msgq : /\ tail'[r] \in 0..(maxmsg[r] - 1)
                         /\ head'[r] \in 0..(maxmsg[r] - 1)
                         /\ buffer'[r] \in [0..(maxmsg[r] - 1) -> Msg \cup {NOMSG}],
         NEW c \in 0..maxmsg[q], count' = [count EXCEPT ![q] = c],
         \A fct \in Fct, r \in Msgq : r # q => MsgqWaiting(fct, r)' \in SUBSET MsgqWaiting(fct, r),
         MsgqWaiting("RCV_MSGQ", q)' # {} => c = 0,
         MsgqWaiting("SND_MSGQ", q)' # {} => c = maxmsg[q]
  PROVE  MsgInv'
<1>1. c \in Nat /\ count \in [Msgq -> Nat]
  BY MessageQueueAssumption DEF MsgInv, RingShape
<1>2. \A r \in Msgq : count'[r] = IF r = q THEN c ELSE count[r]
  BY <1>1
<1>3. RingShape'
  BY <1>1 DEF RingShape
<1>4. MsgqTypeOK'
  BY <1>2 DEF MsgInv, MsgqTypeOK
<1>5. WaitedFor'
  BY <1>2 DEF MsgInv, WaitedFor, Fct
<1>6. QueuesExist'
  BY DEF MsgInv, QueuesExist
<1> QED BY <1>3, <1>4, <1>5, <1>6 DEF MsgInv

(* The ring as it was. *)
LEMMA RingType ==
  ASSUME MsgInv
  PROVE  /\ count \in [Msgq -> Nat] /\ tail \in [Msgq -> Nat] /\ head \in [Msgq -> Nat]
         /\ buffer = [r \in Msgq |-> buffer[r]]
         /\ \A r \in Msgq : /\ count[r] \in 0..maxmsg[r] /\ maxmsg[r] \in Nat
                             /\ tail[r] \in 0..(maxmsg[r] - 1)
                             /\ head[r] \in 0..(maxmsg[r] - 1)
                             /\ buffer[r] \in [0..(maxmsg[r] - 1) -> Msg \cup {NOMSG}]
         /\ waiobj \in [Task -> Msgq \cup {NONE}] /\ sndmsg \in [Task -> Msg \cup {NOMSG}]
         /\ Unwritten \in [Msgq -> [Task -> Msg \cup {NOMSG}]]
BY MessageQueueAssumption DEF MsgInv, RingShape, MsgqTypeOK, Unwritten

(* The kernel did nothing. *)
LEMMA NobodyMoved ==
  ASSUME MsgInv, UNCHANGED <<kernelVars, waiobj>>
  PROVE  KernelInv' /\ \A fct \in Fct, r \in Msgq : MsgqWaiting(fct, r)' = MsgqWaiting(fct, r)
<1>1. KernelInv' /\ UNCHANGED waifct
  BY KernelStutter DEF MsgInv, kernelVars, tcbVars
<1> QED BY <1>1 DEF MsgqWaiting

LEMMA SendPreserves ==
  ASSUME MsgInv, NEW q \in Msgq, NEW m \in Msg, NEW tmout \in MsgWaits,
         tk_snd_msgq(q, m, tmout)
  PROVE  MsgInv'
<1> DEFINE receivers == MsgqWaiters("RCV_MSGQ", q)
<1>1. InTask /\ UNCHANGED msgqst /\ msgqst[q] = "EXIST"
  BY DEF tk_snd_msgq
<1>2. /\ "RCV_MSGQ" \in Fct /\ "SND_MSGQ" \in Fct
      /\ MsgqWaiting("RCV_MSGQ", q) # {} => count[q] = 0
      /\ MsgqWaiting("SND_MSGQ", q) # {} => count[q] = maxmsg[q]
      /\ receivers = <<>> <=> MsgqWaiting("RCV_MSGQ", q) = {}
      /\ receivers # <<>> => Head(receivers) \in MsgqWaiting("RCV_MSGQ", q)
  <2>1. "RCV_MSGQ" \in Fct /\ "SND_MSGQ" \in Fct
    BY DEF Fct
  <2> QED BY <2>1, MsgqWaitersProperties DEF MsgInv, WaitedFor
<1>3. count[q] \in 0..maxmsg[q] /\ count = [count EXCEPT ![q] = count[q]]
  BY RingType
<1>4. ASSUME receivers # <<>>,
             rcvmsg' = [Unwritten EXCEPT ![q][Head(receivers)] = m],
             make_ready(Head(receivers)), UNCHANGED ringVars
      PROVE  MsgInv'
  <2>1. rcvmsg' \in [Msgq -> [Task -> Msg \cup {NOMSG}]]
    BY <1>4 DEF Unwritten
  <2>2. /\ KernelInv'
        /\ waiobj' \in [Task -> Msgq \cup {NONE}] /\ sndmsg' \in [Task -> Msg \cup {NOMSG}]
        /\ \A f \in Fct, r \in Msgq : MsgqWaiting(f, r)' \in SUBSET MsgqWaiting(f, r)
    BY <1>2, <1>4, MakeReadyPreserves
  <2>3. UNCHANGED <<buffer, count, head, tail>>
    BY <1>4 DEF ringVars
  <2>4. count' = [count EXCEPT ![q] = count[q]]
    BY <1>3, <2>3
  <2>5. /\ tail' \in [Msgq -> Nat] /\ head' \in [Msgq -> Nat]
        /\ buffer' = [r \in Msgq |-> buffer'[r]]
        /\ \A r \in Msgq : /\ tail'[r] \in 0..(maxmsg[r] - 1)
                            /\ head'[r] \in 0..(maxmsg[r] - 1)
                            /\ buffer'[r] \in [0..(maxmsg[r] - 1) -> Msg \cup {NOMSG}]
    BY <2>3, RingType
  <2>6. /\ MsgqWaiting("RCV_MSGQ", q)' # {} => count[q] = 0
        /\ MsgqWaiting("SND_MSGQ", q)' # {} => count[q] = maxmsg[q]
    BY <1>2, <2>2
  <2> QED BY <1>1, <1>3, <2>1, <2>2, <2>4, <2>5, <2>6, CallPreserves
<1>5. ASSUME receivers = <<>>, count[q] < maxmsg[q], enqueue_message(q, m),
             count' = [count EXCEPT ![q] = count[q] + 1],
             UNCHANGED <<kernelVars, head, waiobj, sndmsg>>, rcvmsg' = Unwritten
      PROVE  MsgInv'
  <2>1. KernelInv' /\ \A fct \in Fct, r \in Msgq : MsgqWaiting(fct, r)' = MsgqWaiting(fct, r)
    BY <1>5, NobodyMoved
  <2>2. /\ tail' \in [Msgq -> Nat] /\ buffer' = [r \in Msgq |-> buffer'[r]]
        /\ \A r \in Msgq : /\ tail'[r] \in 0..(maxmsg[r] - 1)
                            /\ buffer'[r] \in [0..(maxmsg[r] - 1) -> Msg \cup {NOMSG}]
    BY <1>5, EnqueueType DEF MsgInv
  <2>3. count[q] + 1 \in 0..maxmsg[q]
    BY <1>5, RingType
  <2>4. MsgqWaiting("RCV_MSGQ", q) = {} /\ MsgqWaiting("SND_MSGQ", q) = {}
    BY <1>2, <1>5, RingType
  <2>5. /\ head' \in [Msgq -> Nat] /\ \A r \in Msgq : head'[r] \in 0..(maxmsg[r] - 1)
        /\ waiobj' \in [Task -> Msgq \cup {NONE}] /\ sndmsg' \in [Task -> Msg \cup {NOMSG}]
        /\ rcvmsg' \in [Msgq -> [Task -> Msg \cup {NOMSG}]]
    BY <1>5, RingType
  <2>6. /\ \A fct \in Fct, r \in Msgq : r # q => MsgqWaiting(fct, r)' \in SUBSET MsgqWaiting(fct, r)
        /\ MsgqWaiting("RCV_MSGQ", q)' = {} /\ MsgqWaiting("SND_MSGQ", q)' = {}
    BY <1>2, <2>1, <2>4
  <2>7. count' = [count EXCEPT ![q] = count[q] + 1]
    BY <1>5
  <2> QED BY <1>1, <2>1, <2>2, <2>3, <2>5, <2>6, <2>7, CallPreserves
<1>6. ASSUME receivers = <<>>, count[q] >= maxmsg[q],
             WaitFor("SND_MSGQ", q, tmout, m), UNCHANGED ringVars, rcvmsg' = Unwritten
      PROVE  MsgInv'
  <2>1. /\ KernelInv'
        /\ waiobj' \in [Task -> Msgq \cup {NONE}] /\ sndmsg' \in [Task -> Msg \cup {NOMSG}]
        /\ \A f \in Fct, r \in Msgq : <<f, r>> # <<"SND_MSGQ", q>> =>
             MsgqWaiting(f, r)' \in SUBSET MsgqWaiting(f, r)
    BY <1>1, <1>2, <1>6, WaitForPreserves
  <2>2. UNCHANGED <<buffer, count, head, tail>>
    BY <1>6 DEF ringVars
  <2>3. count' = [count EXCEPT ![q] = count[q]] /\ count[q] = maxmsg[q]
    BY <1>3, <1>6, <2>2, RingType
  <2>4. MsgqWaiting("RCV_MSGQ", q)' = {}
    BY <1>2, <1>6, <2>1
  <2>5. \A fct \in Fct, r \in Msgq : r # q => MsgqWaiting(fct, r)' \in SUBSET MsgqWaiting(fct, r)
    BY <2>1
  <2> QED BY <1>1, <1>3, <1>6, <2>1, <2>2, <2>3, <2>4, <2>5, RingType, CallPreserves
<1> QED BY <1>4, <1>5, <1>6 DEF tk_snd_msgq

LEMMA ReceivePreserves ==
  ASSUME MsgInv, NEW q \in Msgq, NEW tmout \in MsgWaits, tk_rcv_msgq(q, tmout)
  PROVE  MsgInv'
<1> DEFINE senders == MsgqWaiters("SND_MSGQ", q)
<1>1. InTask /\ UNCHANGED msgqst /\ msgqst[q] = "EXIST"
  BY DEF tk_rcv_msgq
<1>2. /\ "RCV_MSGQ" \in Fct /\ "SND_MSGQ" \in Fct
      /\ MsgqWaiting("RCV_MSGQ", q) # {} => count[q] = 0
      /\ MsgqWaiting("SND_MSGQ", q) # {} => count[q] = maxmsg[q]
      /\ senders = <<>> <=> MsgqWaiting("SND_MSGQ", q) = {}
      /\ senders # <<>> => Head(senders) \in MsgqWaiting("SND_MSGQ", q)
  <2>1. "RCV_MSGQ" \in Fct /\ "SND_MSGQ" \in Fct
    BY DEF Fct
  <2> QED BY <2>1, MsgqWaitersProperties DEF MsgInv, WaitedFor
<1>3. count[q] \in 0..maxmsg[q] /\ count = [count EXCEPT ![q] = count[q]]
      /\ maxmsg[q] \in Nat \ {0}
  BY RingType, MessageQueueAssumption
<1>4. ASSUME count[q] > 0, senders # <<>>, dequeue_message(q),
             enqueue_message(q, sndmsg[Head(senders)]), make_ready(Head(senders)),
             UNCHANGED count
      PROVE  MsgInv'
  <2>1. /\ KernelInv'
        /\ waiobj' \in [Task -> Msgq \cup {NONE}] /\ sndmsg' \in [Task -> Msg \cup {NOMSG}]
        /\ \A f \in Fct, r \in Msgq : MsgqWaiting(f, r)' \in SUBSET MsgqWaiting(f, r)
    BY <1>2, <1>4, MakeReadyPreserves
  <2>2. sndmsg[Head(senders)] \in Msg \cup {NOMSG}
    BY <1>2, <1>4, RingType DEF MsgqWaiting
  <2>3. /\ tail' \in [Msgq -> Nat] /\ buffer' = [r \in Msgq |-> buffer'[r]]
        /\ \A r \in Msgq : /\ tail'[r] \in 0..(maxmsg[r] - 1)
                            /\ buffer'[r] \in [0..(maxmsg[r] - 1) -> Msg \cup {NOMSG}]
    BY <1>4, <2>2, EnqueueType DEF MsgInv
  <2>4. /\ head' \in [Msgq -> Nat] /\ \A r \in Msgq : head'[r] \in 0..(maxmsg[r] - 1)
        /\ rcvmsg' \in [Msgq -> [Task -> Msg \cup {NOMSG}]]
    BY <1>4, DequeueType DEF MsgInv
  <2>5. /\ \A fct \in Fct, r \in Msgq : r # q => MsgqWaiting(fct, r)' \in SUBSET MsgqWaiting(fct, r)
        /\ MsgqWaiting("RCV_MSGQ", q)' # {} => count[q] = 0
        /\ MsgqWaiting("SND_MSGQ", q)' # {} => count[q] = maxmsg[q]
    BY <1>2, <2>1
  <2>6. count' = [count EXCEPT ![q] = count[q]]
    BY <1>3, <1>4
  <2> QED BY <1>1, <1>3, <2>1, <2>3, <2>4, <2>5, <2>6, CallPreserves
<1>5. ASSUME count[q] > 0, senders = <<>>, dequeue_message(q),
             count' = [count EXCEPT ![q] = count[q] - 1],
             UNCHANGED <<kernelVars, buffer, tail, waiobj, sndmsg>>
      PROVE  MsgInv'
  <2>1. KernelInv' /\ \A fct \in Fct, r \in Msgq : MsgqWaiting(fct, r)' = MsgqWaiting(fct, r)
    BY <1>5, NobodyMoved
  <2>2. /\ head' \in [Msgq -> Nat] /\ \A r \in Msgq : head'[r] \in 0..(maxmsg[r] - 1)
        /\ rcvmsg' \in [Msgq -> [Task -> Msg \cup {NOMSG}]]
    BY <1>5, DequeueType DEF MsgInv
  <2>3. /\ tail' \in [Msgq -> Nat] /\ buffer' = [r \in Msgq |-> buffer'[r]]
        /\ \A r \in Msgq : /\ tail'[r] \in 0..(maxmsg[r] - 1)
                            /\ buffer'[r] \in [0..(maxmsg[r] - 1) -> Msg \cup {NOMSG}]
        /\ waiobj' \in [Task -> Msgq \cup {NONE}] /\ sndmsg' \in [Task -> Msg \cup {NOMSG}]
    BY <1>5, RingType
  <2>4. count[q] - 1 \in 0..maxmsg[q]
    BY <1>3, <1>5
  <2>5. /\ \A fct \in Fct, r \in Msgq : r # q => MsgqWaiting(fct, r)' \in SUBSET MsgqWaiting(fct, r)
        /\ MsgqWaiting("RCV_MSGQ", q)' = {} /\ MsgqWaiting("SND_MSGQ", q)' = {}
    BY <1>2, <1>3, <1>5, <2>1
  <2>6. count' = [count EXCEPT ![q] = count[q] - 1]
    BY <1>5
  <2> QED BY <1>1, <2>1, <2>2, <2>3, <2>4, <2>5, <2>6, CallPreserves
<1>6. ASSUME count[q] = 0, WaitFor("RCV_MSGQ", q, tmout, NOMSG), UNCHANGED ringVars,
             rcvmsg' = Unwritten
      PROVE  MsgInv'
  <2>1. /\ KernelInv'
        /\ waiobj' \in [Task -> Msgq \cup {NONE}] /\ sndmsg' \in [Task -> Msg \cup {NOMSG}]
        /\ \A f \in Fct, r \in Msgq : <<f, r>> # <<"RCV_MSGQ", q>> =>
             MsgqWaiting(f, r)' \in SUBSET MsgqWaiting(f, r)
    BY <1>1, <1>2, <1>6, WaitForPreserves
  <2>2. UNCHANGED <<buffer, count, head, tail>>
    BY <1>6 DEF ringVars
  <2>3. count' = [count EXCEPT ![q] = count[q]]
    BY <1>3, <2>2
  <2>4. MsgqWaiting("SND_MSGQ", q)' = {}
    BY <1>2, <1>3, <1>6, <2>1
  <2>5. \A fct \in Fct, r \in Msgq : r # q => MsgqWaiting(fct, r)' \in SUBSET MsgqWaiting(fct, r)
    BY <2>1
  <2> QED BY <1>1, <1>3, <1>6, <2>1, <2>2, <2>3, <2>4, <2>5, RingType, CallPreserves
<1> QED BY <1>4, <1>5, <1>6 DEF tk_rcv_msgq

(* The kernel below only ends waits. *)
LEMMA MessageKernelStepPreserves ==
  ASSUME MsgInv, MessageKernelStep
  PROVE  MsgInv'
<1>1. /\ KernelNext /\ rcvmsg' = Unwritten /\ UNCHANGED <<msgqst, buffer, count, head, tail>>
      /\ waiobj' = [t \in Task |-> IF waifct'[t] = waifct[t] THEN waiobj[t] ELSE NONE]
      /\ sndmsg' = [t \in Task |-> IF waifct'[t] = waifct[t] THEN sndmsg[t] ELSE NOMSG]
  BY DEF MessageKernelStep, ringVars
<1>2. KernelInv'
  BY <1>1, KernelNextInv DEF MsgInv
<1>3. \A fct \in Fct, q \in Msgq : MsgqWaiting(fct, q)' \in SUBSET MsgqWaiting(fct, q)
  <2> TAKE fct \in Fct, q \in Msgq
  <2>1. \A t \in Task : waifct'[t] = fct => waifct[t] = fct
    BY <1>1, KernelBeginsNoOtherWait, FactorsAreOthers DEF MsgInv
  <2> QED BY <1>1, <2>1 DEF MsgqWaiting
<1>4. waiobj' \in [Task -> Msgq \cup {NONE}] /\ sndmsg' \in [Task -> Msg \cup {NOMSG}]
  BY <1>1, RingType
<1>5. RingShape' /\ MsgqTypeOK'
  BY <1>1, <1>4, RingType DEF MsgInv, RingShape, MsgqTypeOK
<1>6. WaitedFor' /\ QueuesExist'
  BY <1>1, <1>3 DEF MsgInv, WaitedFor, QueuesExist, Fct
<1> QED BY <1>2, <1>5, <1>6 DEF MsgInv

(***************************************************************************)
(* The theorems.                                                           *)
(***************************************************************************)
LEMMA MsgInit == MessageInit => MsgInv
<1> SUFFICES ASSUME MessageInit PROVE MsgInv
  OBVIOUS
<1>1. KernelInv
  BY KernelInitInv DEF MessageInit
<1>2. RingShape /\ MsgqTypeOK
  BY MessageQueueAssumption DEF MessageInit, RingShape, MsgqTypeOK, Unwritten
<1>3. \A fct \in Fct, q \in Msgq : MsgqWaiting(fct, q) = {}
  BY MessageQueueAssumption DEF MessageInit, MsgqWaiting
<1>4. WaitedFor /\ QueuesExist
  BY <1>3 DEF WaitedFor, QueuesExist, Fct
<1> QED BY <1>1, <1>2, <1>4 DEF MsgInv

LEMMA MsgNext ==
  ASSUME MsgInv, [MessageNext]_messageQueueVars
  PROVE  MsgInv'
<1>1. CASE MessageCall
  BY <1>1, CreateMsgqPreserves, SendPreserves, ReceivePreserves DEF MessageCall
<1>2. CASE MessageKernelStep
  BY <1>2, MessageKernelStepPreserves
<1>3. CASE UNCHANGED messageQueueVars
  <2>1. UNCHANGED kernelVars /\ UNCHANGED waifct
        /\ UNCHANGED <<msgqst, buffer, count, head, tail, waiobj, sndmsg, rcvmsg>>
    BY <1>3 DEF messageQueueVars, kernelVars, tcbVars, msgqVars, ringVars
  <2> QED BY <2>1, KernelStutter
          DEF MsgInv, RingShape, MsgqTypeOK, WaitedFor, QueuesExist, MsgqWaiting
<1> QED BY <1>1, <1>2, <1>3 DEF MessageNext

(* The kernel's invariants also hold with message queues on top of it.     *)
THEOREM MessageQueueInvariant == MessageSpec => []MsgInv
BY MsgInit, MsgNext, PTL DEF MessageSpec

(* The rings never leave their buffers, whatever is sent and received.     *)
THEOREM RingsAreInBounds == MessageSpec => []MsgqTypeOK
<1>1. MsgInv => MsgqTypeOK
  BY DEF MsgInv
<1> QED BY <1>1, MessageQueueInvariant, PTL

(* Receivers wait only for an empty queue, and senders only for a full one.*)
THEOREM NobodyWaitsWithoutNeed == MessageSpec => []NoNeedlessWait
<1>1. MsgInv => NoNeedlessWait
  BY WaitedForIsNoNeedlessWait DEF MsgInv
<1> QED BY <1>1, MessageQueueInvariant, PTL

(***************************************************************************)
(* Each queue is a channel.                                                *)
(***************************************************************************)
(* Indices modulo the size n of a ring: a sum, and two steps round it. *)
LEMMA WrapsSum ==
  ASSUME NEW n \in Nat \ {0}, NEW x \in 0..n - 1, NEW y \in 0..n
  PROVE  (x + y) % n = IF x + y < n THEN x + y ELSE x + y - n
<1> DEFINE a == x + y
<1>1. a \in Nat /\ a < n + n
  OBVIOUS
<1> HIDE DEF a
<1>2. a % n = IF a < n THEN a ELSE a - n
  BY <1>1
<1> QED BY <1>2 DEF a

LEMMA StepsRound ==
  ASSUME NEW n \in Nat \ {0}, NEW h \in 0..n - 1, NEW c \in 0..n - 1
  PROVE  /\ (h + c) % n \in 0..n - 1
         /\ (((h + c) % n) + 1) % n = (h + (c + 1)) % n
         /\ (((h + 1) % n) + c) % n = (h + (c + 1)) % n
<1> DEFINE p == (h + c) % n
           s == (h + 1) % n
           d == c + 1
<1>1. /\ p = IF h + c < n THEN h + c ELSE h + c - n
      /\ s = IF h + 1 < n THEN h + 1 ELSE h + 1 - n
  <2>1. c \in 0..n /\ 1 \in 0..n
    OBVIOUS
  <2> QED BY <2>1, WrapsSum
<1>2. p \in 0..n - 1 /\ s \in 0..n - 1 /\ d \in 0..n /\ 1 \in 0..n /\ c \in 0..n
  BY <1>1
<1> HIDE DEF p, s, d
<1>3. (p + 1) % n = IF p + 1 < n THEN p + 1 ELSE p + 1 - n
  BY <1>2, WrapsSum
<1>4. (s + c) % n = IF s + c < n THEN s + c ELSE s + c - n
  BY <1>2, WrapsSum
<1>5. (h + d) % n = IF h + d < n THEN h + d ELSE h + d - n
  BY <1>2, WrapsSum
<1> QED BY <1>1, <1>2, <1>3, <1>4, <1>5 DEF p, s, d

Stored == Msg \cup {NOMSG}

(* The c cells of the ring b from h, and how they change. *)
Cells(b, h, c, n) == [k \in 1..c |-> b[(h + k - 1) % n]]

LEMMA CellIndices ==
  ASSUME NEW n \in Nat \ {0}, NEW h \in 0..n - 1, NEW c \in 0..n, NEW k \in 1..c
  PROVE  /\ (h + k - 1) % n \in 0..n - 1
         /\ c < n => (h + k - 1) % n # (h + c) % n
<1> DEFINE j == k - 1
<1>1. j \in 0..n /\ j < c /\ h + k - 1 = h + j
  OBVIOUS
<1> HIDE DEF j
<1>2. (h + j) % n = IF h + j < n THEN h + j ELSE h + j - n
  BY <1>1, WrapsSum
<1>3. (h + c) % n = IF h + c < n THEN h + c ELSE h + c - n
  BY WrapsSum
<1> QED BY <1>1, <1>2, <1>3

LEMMA CellsPut ==
  ASSUME NEW n \in Nat \ {0}, NEW b \in [0..n - 1 -> Stored], NEW h \in 0..n - 1,
         NEW c \in 0..n - 1, NEW m \in Stored
  PROVE  Cells([b EXCEPT ![(h + c) % n] = m], h, c + 1, n) = Append(Cells(b, h, c, n), m)
<1> DEFINE s == Cells(b, h, c, n)
           e == [b EXCEPT ![(h + c) % n] = m]
<1>1. c \in 0..n /\ c < n /\ c \in Nat
  OBVIOUS
<1>2. \A k \in 1..c : /\ (h + k - 1) % n \in 0..n - 1 /\ (h + k - 1) % n # (h + c) % n
  BY <1>1, CellIndices
<1>3. s \in Seq(Stored) /\ Len(s) = c
  <2>1. \A k \in 1..c : b[(h + k - 1) % n] \in Stored
    BY <1>2
  <2> QED BY <1>1, <2>1 DEF Cells
<1>4. (h + c) % n \in 0..n - 1
  BY StepsRound
<1>5. \A k \in 1..c : e[(h + k - 1) % n] = b[(h + k - 1) % n]
  BY <1>2
<1>6. e[(h + c) % n] = m
  BY <1>4
<1>7. h + (c + 1) - 1 = h + c
  BY <1>1
<1>8. \A k \in 1..c : s[k] = b[(h + k - 1) % n]
  BY DEF Cells
<1>9. Cells(e, h, c + 1, n) = [k \in 1..c + 1 |-> e[(h + k - 1) % n]]
  BY DEF Cells
<1> HIDE DEF s, e
<1>10. /\ Append(s, m) \in Seq(Stored) /\ Len(Append(s, m)) = c + 1
      /\ \A k \in 1..c : Append(s, m)[k] = s[k]
      /\ Append(s, m)[c + 1] = m
  BY <1>1, <1>3
<1>11. \A k \in 1..c + 1 : Append(s, m)[k] = e[(h + k - 1) % n]
  <2> TAKE k \in 1..c + 1
  <2>1. CASE k = c + 1
    BY <1>6, <1>7, <1>10, <2>1
  <2>2. CASE k \in 1..c
    BY <1>5, <1>8, <1>10, <2>2
  <2>3. k = c + 1 \/ k \in 1..c
    BY <1>1
  <2> QED BY <2>1, <2>2, <2>3
<1>12. Append(s, m) = [k \in 1..c + 1 |-> Append(s, m)[k]]
  <2>1. \A q \in Seq(Stored) : q = [k \in 1..Len(q) |-> q[k]]
    OBVIOUS
  <2> QED BY <1>10, <2>1
<1> QED BY <1>9, <1>11, <1>12 DEF s, e

LEMMA CellsGet ==
  ASSUME NEW n \in Nat \ {0}, NEW b \in [0..n - 1 -> Stored], NEW h \in 0..n - 1,
         NEW c \in 1..n
  PROVE  /\ Cells(b, h, c, n) # <<>> /\ Head(Cells(b, h, c, n)) = b[h]
         /\ Cells(b, (h + 1) % n, c - 1, n) = Tail(Cells(b, h, c, n))
<1> DEFINE s == Cells(b, h, c, n)
<1>1. c \in 0..n /\ c >= 1 /\ 0 \in 0..n - 1 /\ h + 1 - 1 = h /\ h + 0 = h
  OBVIOUS
<1>2. s \in Seq(Stored) /\ Len(s) = c
  <2>1. \A k \in 1..c : (h + k - 1) % n \in 0..n - 1
    BY <1>1, CellIndices
  <2>2. \A k \in 1..c : b[(h + k - 1) % n] \in Stored
    BY <2>1
  <2> QED BY <1>1, <2>2 DEF Cells
<1>3. \A k \in 1..c : s[k] = b[(h + k - 1) % n]
  BY DEF Cells
<1>4. h % n = h
  <2>1. (h + 0) % n = IF h + 0 < n THEN h + 0 ELSE h + 0 - n
    <3>1. 0 \in 0..n
      OBVIOUS
    <3> QED BY <3>1, WrapsSum
  <2> QED BY <1>1, <2>1
<1>5. Cells(b, (h + 1) % n, c - 1, n) = [k \in 1..c - 1 |-> b[(((h + 1) % n) + k - 1) % n]]
  BY DEF Cells
<1> HIDE DEF s
<1>6. s # <<>> /\ Head(s) = b[h]
  <2>1. 1 \in 1..c /\ s[1] = b[(h + 1 - 1) % n]
    BY <1>1, <1>3
  <2>2. s # <<>> /\ Head(s) = s[1]
    BY <1>1, <1>2
  <2>3. s[1] = b[h % n]
    BY <1>1, <2>1
  <2> QED BY <1>4, <2>2, <2>3
<1>7. /\ Tail(s) \in Seq(Stored) /\ Len(Tail(s)) = c - 1
      /\ \A k \in 1..c - 1 : Tail(s)[k] = s[k + 1]
  BY <1>1, <1>2
<1>8. ASSUME NEW k \in 1..c - 1
      PROVE  b[(((h + 1) % n) + k - 1) % n] = Tail(s)[k]
  <2>1. /\ k - 1 \in 0..n - 1 /\ k + 1 \in 1..c /\ (k - 1) + 1 = (k + 1) - 1
        /\ h + ((k - 1) + 1) = h + (k + 1) - 1
    OBVIOUS
  <2>2. (((h + 1) % n) + (k - 1)) % n = (h + ((k - 1) + 1)) % n
    BY <2>1, StepsRound
  <2>3. (h + 1) % n \in 0..n - 1
    <3>1. (h + 1) % n = IF h + 1 < n THEN h + 1 ELSE h + 1 - n
      <4>1. 1 \in 0..n
        OBVIOUS
      <4> QED BY <4>1, WrapsSum
    <3> QED BY <3>1
  <2>4. ((h + 1) % n) + (k - 1) = ((h + 1) % n) + k - 1
    BY <2>3
  <2>5. s[k + 1] = b[(h + (k + 1) - 1) % n]
    BY <1>3, <2>1
  <2> QED BY <1>7, <2>1, <2>2, <2>4, <2>5
<1>9. Tail(s) = [k \in 1..c - 1 |-> Tail(s)[k]]
  <2>1. \A q \in Seq(Stored) : q = [k \in 1..Len(q) |-> q[k]]
    OBVIOUS
  <2> QED BY <1>7, <2>1
<1>10. Cells(b, (h + 1) % n, c - 1, n) = Tail(s)
  BY <1>5, <1>8, <1>9
<1> QED BY <1>6, <1>10 DEF s

(* Where the next message goes; a queue is empty when it is created; and   *)
(* who waits to send has a message.                                        *)
Fifo ==
  \A q \in Msgq : /\ tail[q] = (head[q] + count[q]) % maxmsg[q]
                  /\ msgqst[q] = "NONEXIST" => count[q] = 0

Offers == \A t \in Task : waifct[t] = "SND_MSGQ" => sndmsg[t] \in Msg

ChanInv == MsgInv /\ Fifo /\ Offers

ChannelStep(q) == [Channel(q)!Next]_(Channel(q)!vars)

LEMMA RingFacts ==
  ASSUME MsgInv, Fifo, NEW q \in Msgq
  PROVE  /\ maxmsg[q] \in Nat \ {0}
         /\ buffer[q] \in [0..maxmsg[q] - 1 -> Stored]
         /\ head[q] \in 0..maxmsg[q] - 1 /\ tail[q] \in 0..maxmsg[q] - 1
         /\ count[q] \in 0..maxmsg[q]
         /\ tail[q] = (head[q] + count[q]) % maxmsg[q]
         /\ Contents(q) = Cells(buffer[q], head[q], count[q], maxmsg[q])
         /\ Contents(q)' = Cells(buffer'[q], head'[q], count'[q], maxmsg[q])
         /\ Len(Contents(q)) = count[q]
<1>1. count[q] \in Nat
  BY RingType
<1> QED BY <1>1, RingType, MessageQueueAssumption DEF Fifo, Contents, Cells, Stored

LEMMA SuccessorIsNext ==
  ASSUME NEW q \in Msgq, NEW i \in 0..maxmsg[q] - 1
  PROVE  Successor(q, i) = (i + 1) % maxmsg[q]
<1> DEFINE n == maxmsg[q]
<1>1. n \in Nat \ {0} /\ i \in 0..n - 1 /\ 1 \in 0..n
  BY MessageQueueAssumption
<1>2. Successor(q, i) = IF i + 1 >= n THEN 0 ELSE i + 1
  BY DEF Successor
<1> HIDE DEF n
<1>3. (i + 1) % n = IF i + 1 < n THEN i + 1 ELSE i + 1 - n
  BY <1>1, WrapsSum
<1> QED BY <1>1, <1>2, <1>3 DEF n

(* The effect of a call on its queue and on the others. *)
LEMMA PutEffect ==
  ASSUME MsgInv, Fifo, NEW q \in Msgq, NEW m \in Msg, count[q] < maxmsg[q],
         enqueue_message(q, m), count' = [count EXCEPT ![q] = @ + 1], head' = head
  PROVE  /\ Contents(q)' = Append(Contents(q), m)
         /\ tail'[q] = (head'[q] + count'[q]) % maxmsg[q]
<1> DEFINE n == maxmsg[q]
           b == buffer[q]
           h == head[q]
           c == count[q]
<1>1. /\ n \in Nat \ {0} /\ b \in [0..n - 1 -> Stored] /\ h \in 0..n - 1 /\ c \in 0..n - 1
      /\ tail[q] = (h + c) % n /\ tail[q] \in 0..n - 1 /\ m \in Stored
      /\ Contents(q) = Cells(b, h, c, n)
      /\ Contents(q)' = Cells(buffer'[q], head'[q], count'[q], n)
  BY RingFacts DEF Stored
<1>2. /\ buffer'[q] = [b EXCEPT ![(h + c) % n] = m] /\ head'[q] = h /\ count'[q] = c + 1
      /\ tail'[q] = Successor(q, tail[q])
  BY <1>1 DEF enqueue_message, MsgInv, RingShape
<1>3. Successor(q, tail[q]) = (tail[q] + 1) % n
  BY <1>1, SuccessorIsNext
<1> HIDE DEF n, b, h, c
<1>4. Cells([b EXCEPT ![(h + c) % n] = m], h, c + 1, n) = Append(Cells(b, h, c, n), m)
  <2>1. /\ n \in Nat \ {0} /\ b \in [0..n - 1 -> Stored] /\ h \in 0..n - 1
        /\ c \in 0..n - 1 /\ m \in Stored
    BY <1>1
  <2> QED BY <2>1, CellsPut
<1>5. (((h + c) % n) + 1) % n = (h + (c + 1)) % n
  BY <1>1, StepsRound
<1>6. tail'[q] = (head'[q] + count'[q]) % n
  BY <1>1, <1>2, <1>3, <1>5
<1> QED BY <1>1, <1>2, <1>4, <1>6 DEF n

LEMMA GetEffect ==
  ASSUME MsgInv, Fifo, NEW q \in Msgq, count[q] > 0, dequeue_message(q)
  PROVE  /\ Contents(q) # <<>> /\ Head(Contents(q)) = buffer[q][head[q]]
         /\ head'[q] = (head[q] + 1) % maxmsg[q]
         /\ Cells(buffer[q], head'[q], count[q] - 1, maxmsg[q]) = Tail(Contents(q))
         /\ tail[q] = (head'[q] + (count[q] - 1)) % maxmsg[q]
<1> DEFINE n == maxmsg[q]
           b == buffer[q]
           h == head[q]
           c == count[q]
           d == c - 1
<1>1. /\ n \in Nat \ {0} /\ b \in [0..n - 1 -> Stored] /\ h \in 0..n - 1 /\ c \in 1..n
      /\ tail[q] = (h + c) % n /\ Contents(q) = Cells(b, h, c, n)
  BY RingFacts
<1>2. d \in 0..n - 1 /\ d + 1 = c
  BY <1>1
<1>3. head'[q] = Successor(q, h) /\ Successor(q, h) = (h + 1) % n
  BY <1>1, SuccessorIsNext DEF dequeue_message, MsgInv, RingShape
<1> HIDE DEF n, b, h
<1>4. /\ Cells(b, h, c, n) # <<>> /\ Head(Cells(b, h, c, n)) = b[h]
      /\ Cells(b, (h + 1) % n, c - 1, n) = Tail(Cells(b, h, c, n))
  <2> HIDE DEF c
  <2>1. n \in Nat \ {0} /\ b \in [0..n - 1 -> Stored] /\ h \in 0..n - 1 /\ c \in 1..n
    BY <1>1
  <2> QED BY <2>1, CellsGet
<1> HIDE DEF d
<1>5. (((h + 1) % n) + d) % n = (h + (d + 1)) % n
  BY <1>1, <1>2, StepsRound
<1> QED BY <1>1, <1>2, <1>3, <1>4, <1>5 DEF n, b, h, d

LEMMA GetPutEffect ==
  ASSUME MsgInv, Fifo, NEW q \in Msgq, NEW m \in Msg, count[q] = maxmsg[q],
         dequeue_message(q), enqueue_message(q, m), UNCHANGED count
  PROVE  /\ Contents(q)' = Append(Tail(Contents(q)), m) /\ Len(Contents(q)) = maxmsg[q]
         /\ Contents(q)'[maxmsg[q]] = m
         /\ tail'[q] = (head'[q] + count'[q]) % maxmsg[q]
<1> DEFINE n == maxmsg[q]
           b == buffer[q]
           h == (head[q] + 1) % n
           c == count[q] - 1
<1>1. /\ n \in Nat \ {0} /\ b \in [0..n - 1 -> Stored] /\ head[q] \in 0..n - 1
      /\ count[q] = n /\ tail[q] \in 0..n - 1 /\ m \in Stored
      /\ Contents(q)' = Cells(buffer'[q], head'[q], count'[q], n)
      /\ Len(Contents(q)) = n
  BY RingFacts DEF Stored
<1>2. /\ Contents(q) # <<>> /\ head'[q] = h
      /\ Cells(b, h, c, n) = Tail(Contents(q)) /\ tail[q] = (h + c) % n
  <2>1. count[q] > 0
    <3> HIDE DEF n
    <3> QED BY <1>1
  <2> QED BY <2>1, GetEffect
<1>3. c \in 0..n - 1 /\ c + 1 = n /\ count'[q] = n /\ h \in 0..n - 1
  <2> HIDE DEF n
  <2>1. 1 \in 0..n
    BY <1>1
  <2>2. (head[q] + 1) % n = IF head[q] + 1 < n THEN head[q] + 1 ELSE head[q] + 1 - n
    BY <1>1, <2>1, WrapsSum
  <2>3. h \in 0..n - 1
    BY <1>1, <2>2
  <2>4. c \in 0..n - 1 /\ c + 1 = n /\ count'[q] = n
    BY <1>1
  <2> QED BY <2>3, <2>4
<1>4. buffer'[q] = [b EXCEPT ![tail[q]] = m] /\ tail'[q] = Successor(q, tail[q])
  BY <1>1 DEF enqueue_message, MsgInv, RingShape
<1>5. Successor(q, tail[q]) = (tail[q] + 1) % n
  BY <1>1, SuccessorIsNext
<1> HIDE DEF n, b, h, c
<1>6. Cells([b EXCEPT ![(h + c) % n] = m], h, c + 1, n) = Append(Cells(b, h, c, n), m)
  <2>1. /\ n \in Nat \ {0} /\ b \in [0..n - 1 -> Stored] /\ h \in 0..n - 1
        /\ c \in 0..n - 1 /\ m \in Stored
    BY <1>1, <1>3
  <2> QED BY <2>1, CellsPut
<1>7. Contents(q)' = Append(Tail(Contents(q)), m)
  BY <1>1, <1>2, <1>3, <1>4, <1>6
<1>8. tail'[q] = (head'[q] + count'[q]) % n
  <2>1. (((h + c) % n) + 1) % n = (h + (c + 1)) % n
    BY <1>1, <1>3, StepsRound
  <2> QED BY <1>2, <1>3, <1>4, <1>5, <2>1
<1>9. Contents(q)'[n] = m
  <2> DEFINE s == Contents(q)
  <2>1. s \in Seq(Stored)
    <3>1. Cells(b, head[q], n, n) \in Seq(Stored)
      <4>1. \A k \in 1..n : (head[q] + k - 1) % n \in 0..n - 1
        <5>1. n \in 0..n
          BY <1>1
        <5> QED BY <1>1, <5>1, CellIndices
      <4>2. \A k \in 1..n : b[(head[q] + k - 1) % n] \in Stored
        BY <1>1, <4>1
      <4> DEFINE g == [k \in 1..n |-> b[(head[q] + k - 1) % n]]
      <4>3. n \in Nat /\ DOMAIN g = 1..n /\ \A k \in 1..n : g[k] \in Stored
        BY <1>1, <4>2
      <4>4. g = Cells(b, head[q], n, n)
        BY DEF Cells
      <4> HIDE DEF g
      <4>5. g = [k \in 1..n |-> g[k]]
        BY <4>4 DEF Cells
      <4> QED BY <4>3, <4>4, <4>5
    <3> QED BY <1>1, <3>1, RingFacts DEF b, n
  <2> HIDE DEF s
  <2>2. Tail(s) \in Seq(Stored) /\ Len(Tail(s)) + 1 = n
    BY <1>1, <1>2, <2>1 DEF s
  <2>3. Append(Tail(s), m)[Len(Tail(s)) + 1] = m
    BY <1>1, <2>2
  <2> QED BY <1>7, <2>2, <2>3 DEF s
<1> QED BY <1>1, <1>7, <1>8, <1>9 DEF n

(* What a step must do for the queue q. *)
FifoStep(q) ==
  /\ ChannelStep(q)
  /\ tail'[q] = (head'[q] + count'[q]) % maxmsg[q]
  /\ msgqst'[q] = "NONEXIST" => count'[q] = 0

(* A queue that a step leaves alone. *)
LEMMA RestStep ==
  ASSUME Fifo, NEW q \in Msgq, rcvmsg'[q] = Unwritten[q], msgqst'[q] = msgqst[q],
         buffer'[q] = buffer[q], count'[q] = count[q], head'[q] = head[q], tail'[q] = tail[q]
  PROVE  FifoStep(q)
<1>1. Contents(q)' = Contents(q)
  BY DEF Contents
<1>2. rcvmsg'[q] = [t \in Task |-> NOMSG]
  BY DEF Unwritten
<1>3. ChannelStep(q)
  BY <1>1, <1>2 DEF ChannelStep, Channel!Next, Channel!Rest, Channel!Nothing
<1> QED BY <1>3 DEF FifoStep, Fifo

(* A call on q, which leaves the other queues alone. *)
LEMMA OneQueueSteps ==
  ASSUME MsgInv, Fifo, NEW q \in Msgq, FifoStep(q), UNCHANGED msgqst,
         \A r \in Msgq : r # q => rcvmsg'[r] = Unwritten[r],
         \/ UNCHANGED buffer \/ \E b : buffer' = [buffer EXCEPT ![q] = b],
         \/ UNCHANGED count \/ \E c : count' = [count EXCEPT ![q] = c],
         \/ UNCHANGED head \/ \E h : head' = [head EXCEPT ![q] = h],
         \/ UNCHANGED tail \/ \E t : tail' = [tail EXCEPT ![q] = t]
  PROVE  \A r \in Msgq : FifoStep(r)
<1>1. \A r \in Msgq : r # q => /\ buffer'[r] = buffer[r] /\ count'[r] = count[r]
                               /\ head'[r] = head[r] /\ tail'[r] = tail[r]
  BY DEF MsgInv, RingShape
<1> QED BY <1>1, RestStep

LEMMA MakeReadyOffers ==
  ASSUME MsgInv, Offers, NEW u \in Task, make_ready(u)
  PROVE  Offers'
<1>1. /\ waifct' = [t \in Task |-> IF t \in {u} THEN "NON" ELSE waifct[t]]
      /\ sndmsg' = [sndmsg EXCEPT ![u] = NOMSG]
  BY DEF make_ready, Release, Awaken, EndWait
<1>2. sndmsg \in [Task -> Msg \cup {NOMSG}]
  BY RingType
<1> QED BY <1>1, <1>2 DEF Offers

LEMMA WaitForOffers ==
  ASSUME MsgInv, Offers, InTask, NEW fct \in Fct, NEW q \in Msgq, NEW tmout,
         NEW m \in Msg \cup {NOMSG}, WaitFor(fct, q, tmout, m), fct = "SND_MSGQ" => m \in Msg
  PROVE  Offers'
<1>1. /\ cur_task \in Task /\ waifct' = [waifct EXCEPT ![cur_task] = fct]
      /\ waifct \in [Task -> Waifct] /\ sndmsg' = [sndmsg EXCEPT ![cur_task] = m]
  BY RunningIsHead DEF MsgInv, WaitFor, Suspend, StartWait, KernelInv, TypeOK
<1>2. sndmsg \in [Task -> Msg \cup {NOMSG}]
  BY RingType
<1> QED BY <1>1, <1>2 DEF Offers

LEMMA IdleOffers ==
  ASSUME Offers, UNCHANGED <<kernelVars, sndmsg>>
  PROVE  Offers'
BY DEF Offers, kernelVars, tcbVars

LEMMA SendIsPut ==
  ASSUME ChanInv, NEW q \in Msgq, NEW m \in Msg, NEW tmout \in MsgWaits,
         tk_snd_msgq(q, m, tmout)
  PROVE  Offers' /\ \A r \in Msgq : FifoStep(r)
<1> DEFINE receivers == MsgqWaiters("RCV_MSGQ", q)
<1>1. /\ InTask /\ UNCHANGED msgqst /\ msgqst[q] = "EXIST"
      /\ MsgInv /\ Fifo /\ Offers /\ "RCV_MSGQ" \in Fct /\ "SND_MSGQ" \in Fct
  BY DEF tk_snd_msgq, ChanInv, Fct
<1>2. receivers # <<>> => Head(receivers) \in Task /\ count[q] = 0
  <2>1. /\ receivers # <<>> => Head(receivers) \in MsgqWaiting("RCV_MSGQ", q)
        /\ MsgqWaiting("RCV_MSGQ", q) # {} => count[q] = 0
    BY <1>1, MsgqWaitersProperties DEF MsgInv, WaitedFor
  <2> QED BY <2>1 DEF MsgqWaiting
<1>3. CASE /\ receivers # <<>>
           /\ rcvmsg' = [Unwritten EXCEPT ![q][Head(receivers)] = m]
           /\ make_ready(Head(receivers)) /\ UNCHANGED ringVars
  <2>1. UNCHANGED <<buffer, count, head, tail>>
    BY <1>3 DEF ringVars
  <2>2. /\ rcvmsg'[q] = [[t \in Task |-> NOMSG] EXCEPT ![Head(receivers)] = m]
        /\ \A r \in Msgq : r # q => rcvmsg'[r] = Unwritten[r]
    BY <1>3 DEF Unwritten
  <2>3. Contents(q)' = Contents(q) /\ Contents(q) = <<>>
    <3>1. count[q] = 0 /\ Contents(q)' = Contents(q)
      BY <1>2, <1>3, <2>1 DEF Contents
    <3> QED BY <3>1 DEF Contents
  <2>4. ChannelStep(q)
    BY <1>2, <1>3, <2>2, <2>3
    DEF ChannelStep, Channel!Next, Channel!PutGet, Channel!Deliver, Channel!Nothing
  <2>5. FifoStep(q)
    BY <1>1, <2>1, <2>4 DEF FifoStep, Fifo
  <2>6. \A r \in Msgq : FifoStep(r)
    BY <1>1, <2>1, <2>2, <2>5, OneQueueSteps
  <2> QED BY <1>1, <1>2, <1>3, <2>6, MakeReadyOffers
<1>4. CASE /\ receivers = <<>> /\ count[q] < maxmsg[q] /\ enqueue_message(q, m)
           /\ count' = [count EXCEPT ![q] = @ + 1]
           /\ UNCHANGED <<kernelVars, head, waiobj, sndmsg>> /\ rcvmsg' = Unwritten
  <2>1. /\ Contents(q)' = Append(Contents(q), m) /\ Len(Contents(q)) < maxmsg[q]
        /\ tail'[q] = (head'[q] + count'[q]) % maxmsg[q]
    BY <1>1, <1>4, PutEffect, RingFacts
  <2>2. rcvmsg'[q] = [t \in Task |-> NOMSG]
    BY <1>4 DEF Unwritten
  <2>3. ChannelStep(q)
    BY <2>1, <2>2 DEF ChannelStep, Channel!Next, Channel!Put, Channel!Nothing
  <2>4. FifoStep(q)
    BY <1>1, <2>1, <2>3 DEF FifoStep
  <2>5. /\ \E b : buffer' = [buffer EXCEPT ![q] = b]
        /\ \E t : tail' = [tail EXCEPT ![q] = t]
    BY <1>4 DEF enqueue_message
  <2>6. \A r \in Msgq : FifoStep(r)
    BY <1>1, <1>4, <2>4, <2>5, OneQueueSteps
  <2> QED BY <1>1, <1>4, <2>6, IdleOffers
<1>5. CASE /\ receivers = <<>> /\ count[q] >= maxmsg[q]
           /\ WaitFor("SND_MSGQ", q, tmout, m) /\ UNCHANGED ringVars /\ rcvmsg' = Unwritten
  <2>1. \A r \in Msgq : FifoStep(r)
    BY <1>1, <1>5, RestStep DEF ringVars
  <2> QED BY <1>1, <1>5, <2>1, WaitForOffers
<1> QED BY <1>3, <1>4, <1>5 DEF tk_snd_msgq

LEMMA ReceiveIsGet ==
  ASSUME ChanInv, NEW q \in Msgq, NEW tmout \in MsgWaits, tk_rcv_msgq(q, tmout)
  PROVE  Offers' /\ \A r \in Msgq : FifoStep(r)
<1> DEFINE senders == MsgqWaiters("SND_MSGQ", q)
<1>1. /\ InTask /\ UNCHANGED msgqst /\ msgqst[q] = "EXIST"
      /\ MsgInv /\ Fifo /\ Offers /\ "RCV_MSGQ" \in Fct /\ "SND_MSGQ" \in Fct
  BY DEF tk_rcv_msgq, ChanInv, Fct
<1>2. senders # <<>> => /\ Head(senders) \in Task /\ count[q] = maxmsg[q]
                        /\ sndmsg[Head(senders)] \in Msg
  <2>1. /\ senders # <<>> => Head(senders) \in MsgqWaiting("SND_MSGQ", q)
        /\ MsgqWaiting("SND_MSGQ", q) # {} => count[q] = maxmsg[q]
    BY <1>1, MsgqWaitersProperties DEF MsgInv, WaitedFor
  <2> QED BY <1>1, <2>1 DEF MsgqWaiting, Offers
<1>3. cur_task \in Task
  BY <1>1, RunningIsHead DEF MsgInv
<1>4. ASSUME count[q] > 0, dequeue_message(q)
      PROVE  /\ rcvmsg'[q] = [[t \in Task |-> NOMSG] EXCEPT ![cur_task] = Head(Contents(q))]
             /\ \A r \in Msgq : r # q => rcvmsg'[r] = Unwritten[r]
             /\ \E h : head' = [head EXCEPT ![q] = h]
             /\ Channel(q)!Deliver(Head(Contents(q)))
  <2>1. Head(Contents(q)) = buffer[q][head[q]]
    BY <1>1, <1>4, GetEffect
  <2>2. /\ rcvmsg'[q] = [[t \in Task |-> NOMSG] EXCEPT ![cur_task] = Head(Contents(q))]
        /\ \A r \in Msgq : r # q => rcvmsg'[r] = Unwritten[r]
    BY <1>4, <2>1 DEF dequeue_message, Unwritten
  <2>3. \E h : head' = [head EXCEPT ![q] = h]
    BY <1>4 DEF dequeue_message
  <2> QED BY <1>3, <2>2, <2>3 DEF Channel!Deliver, Channel!Nothing
<1>5. CASE /\ count[q] > 0 /\ senders # <<>> /\ dequeue_message(q)
           /\ enqueue_message(q, sndmsg[Head(senders)]) /\ make_ready(Head(senders))
           /\ UNCHANGED count
  <2> DEFINE m == sndmsg[Head(senders)]
  <2>1. m \in Msg /\ count[q] = maxmsg[q]
    BY <1>2, <1>5
  <2>2. /\ Contents(q)' = Append(Tail(Contents(q)), m) /\ Len(Contents(q)) = maxmsg[q]
        /\ tail'[q] = (head'[q] + count'[q]) % maxmsg[q]
    <3> HIDE DEF m
    <3> QED BY <1>1, <1>5, <2>1, GetPutEffect DEF m
  <2>3. ChannelStep(q)
    BY <1>4, <1>5, <2>1, <2>2 DEF ChannelStep, Channel!Next, Channel!GetPut
  <2>4. FifoStep(q)
    BY <1>1, <2>2, <2>3 DEF FifoStep
  <2>5. /\ \E x : buffer' = [buffer EXCEPT ![q] = x]
        /\ \E x : tail' = [tail EXCEPT ![q] = x]
    BY <1>5 DEF enqueue_message
  <2>6. \A r \in Msgq : FifoStep(r)
    BY <1>1, <1>4, <1>5, <2>4, <2>5, OneQueueSteps
  <2> QED BY <1>1, <1>2, <1>5, <2>6, MakeReadyOffers
<1>6. CASE /\ count[q] > 0 /\ senders = <<>> /\ dequeue_message(q)
           /\ count' = [count EXCEPT ![q] = @ - 1]
           /\ UNCHANGED <<kernelVars, buffer, tail, waiobj, sndmsg>>
  <2>1. /\ Contents(q)' = Cells(buffer'[q], head'[q], count'[q], maxmsg[q])
        /\ count'[q] = count[q] - 1
    BY <1>1, <1>6, RingFacts DEF MsgInv, RingShape
  <2>2. /\ Contents(q) # <<>> /\ Contents(q)' = Tail(Contents(q))
        /\ tail'[q] = (head'[q] + count'[q]) % maxmsg[q]
    BY <1>1, <1>6, <2>1, GetEffect
  <2>3. ChannelStep(q)
    BY <1>4, <1>6, <2>2 DEF ChannelStep, Channel!Next, Channel!Get
  <2>4. FifoStep(q)
    BY <1>1, <2>2, <2>3 DEF FifoStep
  <2>5. \A r \in Msgq : FifoStep(r)
    BY <1>1, <1>4, <1>6, <2>4, OneQueueSteps
  <2> QED BY <1>1, <1>6, <2>5, IdleOffers
<1>7. CASE /\ count[q] = 0 /\ WaitFor("RCV_MSGQ", q, tmout, NOMSG) /\ UNCHANGED ringVars
           /\ rcvmsg' = Unwritten
  <2>1. \A r \in Msgq : FifoStep(r)
    BY <1>1, <1>7, RestStep DEF ringVars
  <2> QED BY <1>1, <1>7, <2>1, WaitForOffers
<1> QED BY <1>5, <1>6, <1>7 DEF tk_rcv_msgq

LEMMA CreateIsRest ==
  ASSUME ChanInv, NEW q \in Msgq, tk_cre_msgq(q)
  PROVE  Offers' /\ \A r \in Msgq : FifoStep(r)
<1>1. /\ MsgInv /\ Fifo /\ Offers /\ msgqst[q] = "NONEXIST"
      /\ msgqst' = [msgqst EXCEPT ![q] = "EXIST"] /\ msgqst \in [Msgq -> {"NONEXIST", "EXIST"}]
      /\ count' = [count EXCEPT ![q] = 0] /\ head' = [head EXCEPT ![q] = 0]
      /\ tail'  = [tail EXCEPT ![q] = 0] /\ rcvmsg' = Unwritten
      /\ UNCHANGED <<kernelVars, buffer, waiobj, sndmsg>>
  BY DEF tk_cre_msgq, ChanInv, MsgInv, MsgqTypeOK
<1>2. \A r \in Msgq : r # q => /\ count'[r] = count[r] /\ head'[r] = head[r]
                               /\ tail'[r] = tail[r] /\ msgqst'[r] = msgqst[r]
  BY <1>1 DEF MsgInv, RingShape
<1>3. \A r \in Msgq : r # q => FifoStep(r)
  BY <1>1, <1>2, RestStep
<1>4. count[q] = 0 /\ count'[q] = 0 /\ head'[q] = 0 /\ tail'[q] = 0
  BY <1>1 DEF Fifo, MsgInv, RingShape
<1>5. Contents(q)' = Contents(q)
  BY <1>4 DEF Contents
<1>6. rcvmsg'[q] = [t \in Task |-> NOMSG]
  BY <1>1 DEF Unwritten
<1>7. ChannelStep(q)
  BY <1>5, <1>6 DEF ChannelStep, Channel!Next, Channel!Rest, Channel!Nothing
<1>8. (0 + 0) % maxmsg[q] = 0
  <2>1. maxmsg[q] \in Nat \ {0}
    BY MessageQueueAssumption
  <2> DEFINE n == maxmsg[q]
  <2> HIDE DEF n
  <2>2. (0 + 0) % n = IF 0 + 0 < n THEN 0 + 0 ELSE 0 + 0 - n
    <3>1. n \in Nat \ {0} /\ 0 \in 0..n - 1 /\ 0 \in 0..n
      BY <2>1 DEF n
    <3> QED BY <3>1, WrapsSum
  <2> QED BY <2>1, <2>2 DEF n
<1>9. FifoStep(q)
  BY <1>4, <1>7, <1>8 DEF FifoStep
<1> QED BY <1>1, <1>3, <1>9, IdleOffers

LEMMA KernelIsRest ==
  ASSUME ChanInv, MessageKernelStep
  PROVE  Offers' /\ \A r \in Msgq : FifoStep(r)
<1>1. /\ KernelNext /\ rcvmsg' = Unwritten /\ UNCHANGED <<msgqst, buffer, count, head, tail>>
      /\ sndmsg' = [t \in Task |-> IF waifct'[t] = waifct[t] THEN sndmsg[t] ELSE NOMSG]
      /\ MsgInv /\ Fifo /\ Offers
  BY DEF MessageKernelStep, ringVars, ChanInv
<1>2. \A r \in Msgq : FifoStep(r)
  BY <1>1, RestStep
<1>3. "SND_MSGQ" \in Fct
  BY DEF Fct
<1>4. \A t \in Task : waifct'[t] = "SND_MSGQ" => waifct[t] = "SND_MSGQ"
  BY <1>1, <1>3, KernelBeginsNoOtherWait, FactorsAreOthers DEF MsgInv
<1>5. Offers'
  BY <1>1, <1>4 DEF Offers
<1> QED BY <1>2, <1>5

(* Every step is, for every queue, one of a channel or none. *)
LEMMA ChannelSteps ==
  ASSUME ChanInv, [MessageNext]_messageQueueVars
  PROVE  ChanInv' /\ \A q \in Msgq : ChannelStep(q)
<1>1. MsgInv'
  BY MsgNext DEF ChanInv
<1>2. CASE MessageCall \/ MessageKernelStep
  <2>1. Offers' /\ \A r \in Msgq : FifoStep(r)
    BY <1>2, SendIsPut, ReceiveIsGet, CreateIsRest, KernelIsRest DEF MessageCall
  <2>2. (\A r \in Msgq : ChannelStep(r)) /\ Fifo'
    BY <2>1 DEF FifoStep, Fifo
  <2> QED BY <1>1, <2>1, <2>2 DEF ChanInv
<1>3. CASE UNCHANGED messageQueueVars
  <2>1. UNCHANGED <<kernelVars, msgqst, buffer, count, head, tail, sndmsg, rcvmsg>>
    BY <1>3 DEF messageQueueVars, msgqVars, ringVars
  <2>2. Fifo' /\ Offers'
    BY <2>1, IdleOffers DEF ChanInv, Fifo
  <2>3. \A q \in Msgq : Contents(q)' = Contents(q) /\ rcvmsg'[q] = rcvmsg[q]
    BY <2>1 DEF Contents
  <2>4. \A q \in Msgq : ChannelStep(q)
    BY <2>3 DEF ChannelStep, Channel!vars
  <2> QED BY <1>1, <2>2, <2>4 DEF ChanInv
<1> QED BY <1>2, <1>3 DEF MessageNext

LEMMA ChannelInit == MessageInit => ChanInv /\ \A q \in Msgq : Channel(q)!Init
<1> SUFFICES ASSUME MessageInit PROVE ChanInv /\ \A q \in Msgq : Channel(q)!Init
  OBVIOUS
<1>1. /\ MsgInv /\ \A t \in Task : waifct[t] = "NON"
      /\ \A q \in Msgq : count[q] = 0 /\ head[q] = 0 /\ tail[q] = 0
      /\ rcvmsg = Unwritten
  BY MsgInit DEF MessageInit, KernelInit
<1>2. Offers
  BY <1>1 DEF Offers
<1>3. ASSUME NEW q \in Msgq PROVE (0 + 0) % maxmsg[q] = 0
  <2> DEFINE n == maxmsg[q]
  <2>1. n \in Nat \ {0}
    BY MessageQueueAssumption
  <2> HIDE DEF n
  <2>2. (0 + 0) % n = IF 0 + 0 < n THEN 0 + 0 ELSE 0 + 0 - n
    <3>1. 0 \in 0..n - 1 /\ 0 \in 0..n
      BY <2>1
    <3> QED BY <2>1, <3>1, WrapsSum
  <2> QED BY <2>1, <2>2 DEF n
<1>4. Fifo
  BY <1>1, <1>3 DEF Fifo
<1>5. \A q \in Msgq : Channel(q)!Init
  BY <1>1 DEF Channel!Init, Channel!Nothing, Contents, Unwritten
<1> QED BY <1>1, <1>2, <1>4, <1>5 DEF ChanInv

(* Every message queue is a bounded first-in first-out channel, with its   *)
(* direct hand-over and with the messages of waiting senders               *)
(* (tk_snd_msgq, tk_rcv_msgq).                                             *)
THEOREM QueuesAreChannels == MessageSpec => ImplementsChannels
<1>1. ChanInv /\ [MessageNext]_messageQueueVars
        => ChanInv' /\ \A q \in Msgq : [Channel(q)!Next]_(Channel(q)!vars)
  BY ChannelSteps DEF ChannelStep
<1> QED BY <1>1, ChannelInit, PTL DEF MessageSpec, ImplementsChannels

(* A wait for the queue ends when it is the first one and its message has  *)
(* been handed over or stored (make_ready), or by a time-out without       *)
(* effect on the queue.                                                    *)
THEOREM WaitsEndInTurn == MessageSpec => WaitsEndInOrder
<1> DEFINE Ends(q, fct, k) ==
             LET W == MsgqWaiters(fct, q) IN
             \/ /\ waierr'[W[k]] = "E_OK" /\ k = 1
                /\ IF fct = "SND_MSGQ" THEN Contents(q)'[maxmsg[q]] = sndmsg[W[k]]
                                       ELSE rcvmsg'[q][W[k]] # NOMSG
             \/ waierr'[W[k]] = "E_TMOUT" /\ UNCHANGED ringVars /\ rcvmsg' = Unwritten
           A == \A q \in Msgq, fct \in {"SND_MSGQ", "RCV_MSGQ"} :
                  LET W == MsgqWaiters(fct, q) IN
                  \A k \in 1..Len(W) : state'[W[k]] = "READY" => Ends(q, fct, k)
<1>1. ChanInv /\ [MessageNext]_messageQueueVars => [A]_messageQueueVars
  <2> SUFFICES ASSUME ChanInv, MessageNext, NEW q \in Msgq, NEW fct \in {"SND_MSGQ", "RCV_MSGQ"},
                      NEW k \in 1..Len(MsgqWaiters(fct, q)), state'[MsgqWaiters(fct, q)[k]] = "READY"
               PROVE  Ends(q, fct, k)
    OBVIOUS
  <2> DEFINE W == MsgqWaiters(fct, q)
             t == W[k]
  <2>1. MsgInv /\ KernelInv /\ Fifo /\ Offers /\ fct \in Fct /\ Fct \subseteq WaitFactor
    BY FactorsAreOthers DEF ChanInv, MsgInv, Fct
  <2>2. /\ t \in Task /\ waifct[t] = fct /\ waiobj[t] = q
        /\ W # <<>> /\ Head(W) = W[1] /\ 1 \in 1..Len(W)
    <3>1. W \in Seq(Task) /\ Range(W) = MsgqWaiting(fct, q) /\ DOMAIN W = 1..Len(W)
      BY <2>1, MsgqWaitersProperties, LenProperties
    <3>2. t \in MsgqWaiting(fct, q)
      BY <3>1 DEF Range
    <3>3. t \in Task /\ waifct[t] = fct /\ waiobj[t] = q
      BY <3>2 DEF MsgqWaiting
    <3> HIDE DEF W
    <3>4. 1 \in 1..Len(W) /\ W # <<>>
      BY <3>1 DEF W
    <3>5. Head(W) = W[1]
      BY <3>1, <3>4
    <3> QED BY <3>3, <3>4, <3>5
  <2>3. \A i \in 1..Len(W) : W[i] = t => i = k
    <3>1. NoDuplicates(W)
      BY <2>1, EntriesProperties DEF MsgqWaiters, KernelInv, QueueIntegrity, TypeOK
    <3> QED BY <3>1 DEF NoDuplicates
  <2>4. state[t] = "WAIT" /\ (InTask => cur_task # t)
    BY <2>1, <2>2, FactorsAreOthers, RunningIsHead DEF KernelInv, ProcessorInv
  <2> HIDE DEF W, t
  <2>5. ASSUME NEW f \in Fct, NEW r \in Msgq, MsgqWaiters(f, r) # <<>>, make_ready(Head(MsgqWaiters(f, r)))
        PROVE  f = fct /\ r = q /\ Head(W) = t /\ k = 1 /\ waierr'[t] = "E_OK"
    <3> DEFINE u == Head(MsgqWaiters(f, r))
    <3>1. u \in MsgqWaiting(f, r)
      BY <2>1, <2>5, MsgqWaitersProperties
    <3>2. /\ state' = [x \in Task |-> IF x \in {u} THEN "READY" ELSE state[x]]
          /\ waierr' = [x \in Task |-> IF x \in {u} THEN [y \in Task |-> "E_OK"][x] ELSE waierr[x]]
      BY <2>5 DEF make_ready, Release, Awaken, EndWait, Readied
    <3> HIDE DEF u
    <3>3. t = u
      BY <2>2, <2>4, <3>2 DEF W, t
    <3>4. f = fct /\ r = q
      BY <2>2, <3>1, <3>3 DEF MsgqWaiting
    <3>5. Head(W) = t
      BY <3>3, <3>4 DEF u, W
    <3>6. waierr'[t] = "E_OK"
      BY <2>2, <3>2, <3>3
    <3> QED BY <2>2, <2>3, <3>4, <3>5, <3>6
  <2>6. ASSUME NEW r \in Msgq, NEW m \in Msg, NEW tmout \in MsgWaits, tk_snd_msgq(r, m, tmout)
        PROVE  Ends(q, fct, k)
    <3>1. CASE /\ MsgqWaiters("RCV_MSGQ", r) # <<>>
               /\ rcvmsg' = [Unwritten EXCEPT ![r][Head(MsgqWaiters("RCV_MSGQ", r))] = m]
               /\ make_ready(Head(MsgqWaiters("RCV_MSGQ", r)))
      <4>1. fct = "RCV_MSGQ" /\ r = q /\ Head(W) = t /\ k = 1 /\ waierr'[t] = "E_OK"
        BY <2>5, <3>1 DEF Fct
      <4>2. rcvmsg'[q][t] = m
        BY <2>2, <3>1, <4>1 DEF Unwritten, W
      <4>3. m # NOMSG
        BY MessageQueueAssumption
      <4> QED BY <4>1, <4>2, <4>3 DEF t, W
    <3>2. CASE UNCHANGED kernelVars
      BY <2>4, <3>2 DEF kernelVars, tcbVars, t, W
    <3>3. CASE WaitFor("SND_MSGQ", r, tmout, m)
      BY <2>2, <2>4, <2>6, <3>3 DEF tk_snd_msgq, WaitFor, Suspend, StartWait, t, W, KernelInv, TypeOK
    <3> QED BY <2>6, <3>1, <3>2, <3>3 DEF tk_snd_msgq
  <2>7. ASSUME NEW r \in Msgq, NEW tmout \in MsgWaits, tk_rcv_msgq(r, tmout)
        PROVE  Ends(q, fct, k)
    <3>1. CASE /\ count[r] > 0 /\ MsgqWaiters("SND_MSGQ", r) # <<>> /\ dequeue_message(r)
               /\ enqueue_message(r, sndmsg[Head(MsgqWaiters("SND_MSGQ", r))])
               /\ make_ready(Head(MsgqWaiters("SND_MSGQ", r))) /\ UNCHANGED count
      <4>1. fct = "SND_MSGQ" /\ r = q /\ Head(W) = t /\ k = 1 /\ waierr'[t] = "E_OK"
        BY <2>5, <3>1 DEF Fct
      <4>2. sndmsg[t] \in Msg /\ count[q] = maxmsg[q]
        <5>1. sndmsg[t] \in Msg
          BY <2>1, <2>2, <4>1 DEF Offers
        <5>2. MsgqWaiting("SND_MSGQ", q) # {}
          BY <2>2, <4>1 DEF MsgqWaiting
        <5> QED BY <2>1, <5>1, <5>2 DEF MsgInv, WaitedFor
      <4>3. enqueue_message(q, sndmsg[t]) /\ dequeue_message(q) /\ UNCHANGED count
        BY <3>1, <4>1 DEF W
      <4>4. Contents(q)'[maxmsg[q]] = sndmsg[t]
        <5> DEFINE m == sndmsg[t]
        <5> HIDE DEF m
        <5> QED BY <2>1, <4>2, <4>3, GetPutEffect DEF m
      <4> QED BY <4>1, <4>4 DEF t, W
    <3>2. CASE UNCHANGED kernelVars
      BY <2>4, <3>2 DEF kernelVars, tcbVars, t, W
    <3>3. CASE WaitFor("RCV_MSGQ", r, tmout, NOMSG)
      BY <2>2, <2>4, <2>7, <3>3 DEF tk_rcv_msgq, WaitFor, Suspend, StartWait, t, W, KernelInv, TypeOK
    <3> QED BY <2>7, <3>1, <3>2, <3>3 DEF tk_rcv_msgq
  <2>8. ASSUME NEW r \in Msgq, tk_cre_msgq(r) PROVE Ends(q, fct, k)
    BY <2>4, <2>8 DEF tk_cre_msgq, kernelVars, tcbVars, t, W
  <2>9. CASE MessageKernelStep
    <3>1. waierr'[t] = "E_TMOUT"
      <4>1. KernelNext /\ state'[t] = "READY" /\ waifct[t] \in WaitFactor
        BY <2>1, <2>2, <2>9 DEF MessageKernelStep, t, W
      <4> QED BY <2>1, <2>2, <4>1, KernelEndsByTimeout
    <3> QED BY <2>9, <3>1 DEF MessageKernelStep, t, W
  <2> QED BY <2>6, <2>7, <2>8, <2>9 DEF MessageNext, MessageCall
<1>2. MessageInit => ChanInv
  BY ChannelInit
<1>3. ChanInv /\ [MessageNext]_messageQueueVars => ChanInv'
  BY ChannelSteps
<1> QED BY <1>1, <1>2, <1>3, PTL DEF MessageSpec, WaitsEndInOrder
=============================================================================
