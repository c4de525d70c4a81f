------------------------------- MODULE Mutex -------------------------------
(***************************************************************************)
(* Mutexes with strict, dynamic priority inheritance (src/kernel/mutex.c)  *)
(* on top of the kernel core.  The two kernel operations that call into    *)
(* mutex.c, tk_ext_tsk and the SysTick handler, are modelled here with     *)
(* those calls; the grain of atomicity is that of Kernel.tla.              *)
(***************************************************************************)
EXTENDS Kernel, FiniteSetsExt

CONSTANTS
  tcb_tbl,  \* the TCB table: a sequence of all tasks, in TCB order
  NumMtx,   \* the number of mutexes that are created
  Attrs,    \* bound: the mtxatr of the mutexes, of TA_TFIFO and TA_INHERIT
  MtxWaits  \* bound: the TMOs passed to tk_loc_mtx

Mtx == 1..NumMtx

ASSUME MutexAssumption ==
  /\ tcb_tbl \in Seq(Task) /\ Range(tcb_tbl) = Task /\ NoDuplicates(tcb_tbl)
  /\ NumMtx \in Nat
  /\ Attrs \subseteq {"TA_TFIFO", "TA_INHERIT"}
  /\ MtxWaits \subseteq Nat \cup {TMO_FEVR}
  /\ "MTX" \in WaitFactor

VARIABLES
  mtxst,   \* state of the MTXCB: "NONEXIST" or "EXIST"
  attr,    \* attr of the MTXCB
  owner,   \* the task that holds the mutex, or NONE
  waimtx   \* TCB: the mutex the task waits for (waiobj), 0 when it does not

cbVars  == <<mtxst, attr>>
mtxVars == <<cbVars, owner, waimtx>>
vars    == <<kernelVars, mtxVars>>

(* The waiters of mutex i in wait queue order. *)
Waiters(i) == Entries(wait_queue, {t \in Task : waimtx[t] = i})

(***************************************************************************)
(* recalculate_priorities.                                                 *)
(***************************************************************************)

(* The waiting tasks whose priority t inherits directly. *)
InheritsFrom(t, own, wq, obj) ==
  {w \in Range(wq) : /\ obj[w] \in Mtx /\ own[obj[w]] = t
                     /\ attr[obj[w]] = "TA_INHERIT"}

(* One scan lowers the number of each owner to that of its best waiter.    *)
Lowered(pri, own, wq, obj) ==
  [t \in Task |-> Min({pri[w] : w \in InheritsFrom(t, own, wq, obj) \cup {t}})]

(* Mutants: one scan only; no inheritance at all.                          *)
Calculated_one_scan(own, wq, obj) == Lowered(BasePri, own, wq, obj)
Calculated_base(own, wq, obj)     == BasePri

(* Every task starts from its base priority.  The code scans in place,     *)
(* until nothing changes or as often as there are TCBs: the same fixed     *)
(* point, which takes fewer scans than there are tasks.                    *)
Calculated(own, wq, obj) ==
  LET scan[n \in 0..Len(tcb_tbl)] ==
        IF n = 0 THEN BasePri ELSE Lowered(scan[n - 1], own, wq, obj)
  IN  scan[Len(tcb_tbl)]

(* Mutant: the tasks stay in their queues. *)
Requeued_nothing(rq, pri) == rq

(* READY tasks whose priority changes leave their queue and join the end   *)
(* of the new one, in TCB order.                                           *)
Requeued(rq, pri) ==
  LET queued == UNION {Range(rq[p]) : p \in Pri}
  IN  [p \in Pri |-> LET here == {t \in queued : pri[t] = p}
                     IN  Entries(rq[p], here) \o Entries(tcb_tbl, here \ Range(rq[p]))]

(* The outcome for the queues rq, and the priorities. *)
recalculate_priorities(rq) ==
  /\ itskpri' = Calculated(owner', wait_queue', waimtx')
  /\ ready_queue' = Requeued(rq, itskpri')

(***************************************************************************)
(* release_mutex, for each mutex in R in turn.                             *)
(***************************************************************************)
(* Mutants: the attribute is ignored; no waiter is not told by NULL.       *)
select_waiter_first(i) == IF Waiters(i) = <<>> THEN NONE ELSE Head(Waiters(i))

select_waiter_null(i) == IF Waiters(i) = <<>> THEN 0 ELSE select_waiter_first(i)

select_waiter(i) ==
  LET W == Waiters(i)
      best == {t \in Range(W) : \A u \in Range(W) : itskpri[t] <= itskpri[u]}
  IN  IF W = <<>> THEN NONE
      ELSE IF attr[i] = "TA_INHERIT" THEN Head(Entries(W, best)) ELSE Head(W)

(* The waiters that get the mutexes of R, in mutex order. *)
NewOwners(R) ==
  LET ids == Entries([i \in Mtx |-> i], {i \in R : select_waiter(i) # NONE})
  IN  [k \in DOMAIN ids |-> select_waiter(ids[k])]

(* Mutant: the waiter is woken, but the mutex is free. *)
release_mutexes_free(R) ==
  /\ owner' = [i \in Mtx |-> IF i \in R THEN NONE ELSE owner[i]]
  /\ EndWait(Range(NewOwners(R)), [t \in Task |-> "E_OK"])
  /\ waitim' = [t \in Task |-> IF t \in Range(NewOwners(R)) THEN 0 ELSE waitim[t]]
  /\ waimtx' = [t \in Task |-> IF t \in Range(NewOwners(R)) THEN 0 ELSE waimtx[t]]

(* Everything but the queueing; a new owner's wait ends with E_OK. *)
release_mutexes(R) ==
  /\ owner' = [i \in Mtx |-> IF i \in R THEN select_waiter(i) ELSE owner[i]]
  /\ EndWait(Range(NewOwners(R)), [t \in Task |-> "E_OK"])
  /\ waitim' = [t \in Task |-> IF t \in Range(NewOwners(R)) THEN 0 ELSE waitim[t]]
  /\ waimtx' = [t \in Task |-> IF t \in Range(NewOwners(R)) THEN 0 ELSE waimtx[t]]

WithNewOwners(R) ==
  [p \in Pri |-> ready_queue[p] \o Entries(NewOwners(R), {t \in Task : itskpri[t] = p})]

(***************************************************************************)
(* The calls.                                                              *)
(***************************************************************************)
tk_cre_mtx(i, mtxatr) ==
  /\ InTask
  /\ mtxst[i] = "NONEXIST" /\ \A j \in 1..(i - 1) : mtxst[j] = "EXIST"
  /\ mtxst' = [mtxst EXCEPT ![i] = "EXIST"]
  /\ attr'  = [attr EXCEPT ![i] = mtxatr]
  /\ UNCHANGED <<kernelVars, owner, waimtx>>

(* E_ILUSE for the owner and E_TMOUT for a poll of a held mutex are        *)
(* without effect.                                                         *)
tk_loc_mtx(i, tmout) ==
  /\ InTask
  /\ mtxst[i] = "EXIST"
  /\ \/ /\ owner[i] = NONE
        /\ owner' = [owner EXCEPT ![i] = cur_task]
        /\ UNCHANGED <<kernelVars, cbVars, waimtx>>
     \/ /\ owner[i] \notin {NONE, cur_task} /\ tmout # TMO_POL
        /\ StartWait("MTX", WaitTime(tmout))
        /\ waimtx' = [waimtx EXCEPT ![cur_task] = i]
        /\ UNCHANGED owner
        /\ recalculate_priorities(
             [ready_queue EXCEPT ![itskpri[cur_task]] = tqueue_remove_entry(@, cur_task)])
        /\ scheduler
        /\ UNCHANGED <<wupcnt, cpuVars, cbVars>>

(* E_ILUSE, without effect, when the caller is not the owner. *)
tk_unl_mtx(i) ==
  /\ InTask
  /\ mtxst[i] = "EXIST" /\ owner[i] = cur_task
  /\ release_mutexes({i})
  /\ recalculate_priorities(WithNewOwners({i}))
  /\ state' = Readied(Range(NewOwners({i})))
  /\ scheduler
  /\ UNCHANGED <<wupcnt, cpuVars, cbVars>>

Owned(t) == {i \in Mtx : mtxst[i] = "EXIST" /\ owner[i] = t}

(* What mutex_release_all finds.  Mutant: it stops at the first.           *)
OwnedByCaller_first == {i \in Owned(cur_task) : \A j \in Owned(cur_task) : i <= j}

OwnedByCaller == Owned(cur_task)

(* tk_ext_tsk with mutex_release_all: the task releases what it owns while *)
(* it is READY, and leaves the ready queue of its recalculated priority.   *)
tk_ext_tsk_mtx ==
  LET owned == OwnedByCaller
  IN  /\ InTask
      /\ release_mutexes(owned)
      /\ itskpri' = Calculated(owner', wait_queue', waimtx')
      /\ ready_queue' = [Requeued(WithNewOwners(owned), itskpri')
                           EXCEPT ![itskpri'[cur_task]] = tqueue_remove_entry(@, cur_task)]
      /\ state' = [Readied(Range(NewOwners(owned))) EXCEPT ![cur_task] = "DORMANT"]
      /\ pc' = "exited"
      /\ scheduler
      /\ UNCHANGED <<wupcnt, context, cur_task, disp, cbVars>>

(* One expired task in the SysTick handler: k holds the wait queue, the    *)
(* ready queues and the priorities as the loop has left them so far.       *)
TimeOut(k, t) ==
  LET wq  == tqueue_remove_entry(k.wq, t)
      pri == IF waifct[t] = "MTX" THEN Calculated(owner, wq, waimtx) ELSE k.pri
  IN  [wq  |-> wq,
       pri |-> pri,
       rq  |-> [Requeued(k.rq, pri) EXCEPT ![pri[t]] = tqueue_add_entry(@, t)]]

(* What the loop of the SysTick handler has left after each of the tasks   *)
(* W, which have expired.                                                  *)
TimeOuts(W) ==
  LET k[n \in 0..Len(W)] ==
        IF n = 0 THEN [wq |-> wait_queue, rq |-> ready_queue, pri |-> itskpri]
                 ELSE TimeOut(k[n - 1], W[n])
  IN  k

(* The SysTick handler: the expired tasks in wait queue order, a mutex     *)
(* wait with mutex_wait_timeout.                                           *)
systimer_handler_mtx ==
  LET expired == {t \in Range(wait_queue) : Expired(t)}
      W == Entries(wait_queue, expired)
      end == TimeOuts(W)[Len(W)]
  IN  /\ Elapse
      /\ wait_queue' = end.wq /\ ready_queue' = end.rq /\ itskpri' = end.pri
      /\ state'  = Readied(expired)
      /\ waierr' = [t \in Task |-> IF t \notin expired THEN waierr[t]
                                   ELSE IF waifct[t] = "DLY" THEN "E_OK" ELSE "E_TMOUT"]
      /\ waifct' = [t \in Task |-> IF t \in expired THEN "NON" ELSE waifct[t]]
      /\ waimtx' = [t \in Task |-> IF t \in expired THEN 0 ELSE waimtx[t]]
      /\ scheduler
      /\ UNCHANGED <<wupcnt, cpuVars, cbVars, owner>>

(***************************************************************************)
(* Specification.                                                          *)
(***************************************************************************)
Init ==
  /\ KernelInit
  /\ mtxst  = [i \in Mtx |-> "NONEXIST"]
  /\ attr   = [i \in Mtx |-> "TA_TFIFO"]
  /\ owner  = [i \in Mtx |-> NONE]
  /\ waimtx = [t \in Task |-> 0]

MutexCall ==
  \E i \in Mtx : \/ \E mtxatr \in Attrs : tk_cre_mtx(i, mtxatr)
                 \/ tk_unl_mtx(i)
                 \/ \E tmout \in MtxWaits : tk_loc_mtx(i, tmout)

(* tk_cre_tsk takes the first free TCB. *)
CreateNext(t) ==
  /\ \A k \in 1..Len(tcb_tbl) : tcb_tbl[k] = t
       => \A j \in 1..(k - 1) : state[tcb_tbl[j]] # "NONEXIST"
  /\ tk_cre_tsk(t)

(* The kernel operations that leave the mutexes alone. *)
KernelStep ==
  /\ \/ \E t \in Task : CreateNext(t) \/ tk_sta_tsk(t) \/ tk_wup_tsk(t)
     \/ \E d \in Delays : tk_dly_tsk(d)
     \/ \E tmout \in SleepTimes : tk_slp_tsk(tmout)
     \/ Dispatcher
  /\ UNCHANGED mtxVars

Next == MutexCall \/ KernelStep \/ tk_ext_tsk_mtx \/ systimer_handler_mtx

Spec == Init /\ [][Next]_vars

(* The mutex by which task u directly boosts another one, as a relation:   *)
(* u waits for a TA_INHERIT mutex that t owns.                             *)
Boosts(u, t) ==
  waimtx[u] # 0 /\ attr[waimtx[u]] = "TA_INHERIT" /\ owner[waimtx[u]] = t

(* The tasks that wait for t, directly or through other owners: the least  *)
(* set closed under Boosts.                                                *)
Dependents(t) ==
  CHOOSE D \in SUBSET Task :
    /\ \A u, v \in Task : Boosts(u, v) /\ v \in D \cup {t} => u \in D
    /\ \A E \in SUBSET Task :
         (\A u, v \in Task : Boosts(u, v) /\ v \in E \cup {t} => u \in E) => D \subseteq E

(***************************************************************************)
(* Properties.                                                             *)
(***************************************************************************)

(* Strict, dynamic inheritance (README.md:871-883): at every moment the    *)
(* priority of each task is the best of its own and those of all tasks     *)
(* that wait for it through chains of TA_INHERIT mutexes, no better and no *)
(* worse, after any locks, unlocks, time-outs and exits, nested or not.    *)
StrictInheritance ==
  \A t \in Task : itskpri[t] = Min({BasePri[u] : u \in Dependents(t) \cup {t}})

(* No orphans: a mutex is owned by a task that is alive, also after exits  *)
(* (README.md:869), one with waiters has an owner that is not among them,  *)
(* and a task waits for a mutex exactly while its wait factor says so.     *)
OwnersAlive ==
  /\ \A i \in Mtx : owner[i] # NONE => mtxst[i] = "EXIST" /\ state[owner[i]] \in {"READY", "WAIT"}
  /\ \A t \in Task : waimtx[t] # 0 => owner[waimtx[t]] \notin {NONE, t}
  /\ \A t \in Task : waimtx[t] # 0 <=> waifct[t] = "MTX"

(* Priority inversion is bounded: while a task waits for a TA_INHERIT      *)
(* mutex whose owner could run, nothing less urgent than the waiter runs.  *)
BoundedInversion ==
  \A t \in Task : waimtx[t] # 0 /\ attr[waimtx[t]] = "TA_INHERIT"
                    /\ state[owner[waimtx[t]]] = "READY" /\ InTask
                      => itskpri[cur_task] <= itskpri[t]

(* Ownership is handed over: a mutex with waiters never becomes free for   *)
(* another task to take (README.md:864); the longest waiter of a TA_TFIFO  *)
(* mutex gets it, and the longest among the most urgent of a TA_INHERIT one.*)
HandsOver ==
  [][\A i \in Mtx : owner'[i] # owner[i] /\ Waiters(i) # <<>> =>
       LET W == Waiters(i) IN
       \E k \in 1..Len(W) :
         /\ owner'[i] = W[k] /\ state'[W[k]] = "READY" /\ waierr'[W[k]] = "E_OK"
         /\ attr[i] = "TA_TFIFO" => k = 1
         /\ attr[i] = "TA_INHERIT" =>
              \A j \in 1..Len(W) : \/ itskpri[W[k]] < itskpri[W[j]]
                                   \/ itskpri[W[k]] = itskpri[W[j]] /\ k <= j]_vars

(* A time-out never conveys the mutex (README.md:866).                     *)
TimeOutGivesNothing ==
  [][\A t \in Task : waimtx[t] # 0 /\ state[t] = "WAIT" /\ state'[t] = "READY" =>
       (waierr'[t] = "E_OK" <=> owner'[waimtx[t]] = t)]_vars
=============================================================================
