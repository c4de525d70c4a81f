----------------------------- MODULE Semaphore -----------------------------
(***************************************************************************)
(* Counting semaphores (src/kernel/semaphore.c) on top of the kernel core. *)
(* A task waits with tk_wai_sem; tasks, interrupt handlers and cyclic      *)
(* handlers return units with tk_sig_sem.  The grain of atomicity is that  *)
(* of Kernel.tla: each call runs between DI and EI.                        *)
(***************************************************************************)
EXTENDS Kernel

CONSTANTS
  Sem,      \* the SEMCBs, one for each T_CSEM passed to tk_cre_sem
  InitSem,  \* isemcnt of each T_CSEM
  MaxSem,   \* maxsem of each T_CSEM
  Counts,   \* bound: the numbers of units that are asked for and returned
  SemWaits  \* bound: the TMOs passed to tk_wai_sem

ASSUME SemaphoreAssumption ==
  /\ MaxSem \in [Sem -> Nat \ {0}]
  /\ InitSem \in [Sem -> Nat] /\ \A s \in Sem : InitSem[s] <= MaxSem[s]
  /\ Counts \subseteq Nat \ {0}
  /\ SemWaits \subseteq Nat \cup {TMO_FEVR}
  /\ "SEM" \in WaitFactor

VARIABLES
  semst,   \* state of the SEMCB: "NONEXIST" or "EXIST"
  semcnt,  \* the units that are available
  waisem   \* TCB: the semaphore a task waits for (waiobj) and the units it
           \* asked for (waisem); <<>> when it waits for none

semVars == <<semst, semcnt, waisem>>
vars    == <<kernelVars, semVars>>

Waiting(s) == {t \in Task : waisem[t] # <<>> /\ waisem[t].obj = s}

(* The waiters of s in wait queue order: first come, first served. *)
Waiters(s) == Entries(wait_queue, Waiting(s))

(* The end of any wait ends a semaphore wait too. *)
EndWaits == waisem' = [t \in Task |-> IF waifct'[t] = "SEM" THEN waisem[t] ELSE <<>>]

tk_cre_sem(s) ==
  /\ InTask
  /\ semst[s] = "NONEXIST"
  /\ semst'  = [semst EXCEPT ![s] = "EXIST"]
  /\ semcnt' = [semcnt EXCEPT ![s] = InitSem[s]]
  /\ UNCHANGED <<kernelVars, waisem>>

(* Mutant: one unit too few suffices. *)
Available_short(s, cnt) == semcnt[s] + 1 >= cnt

Available(s, cnt) == semcnt[s] >= cnt

(* E_TMOUT without effect when the units lack and tmout is TMO_POL.        *)
tk_wai_sem(s, cnt, tmout) ==
  /\ InTask
  /\ semst[s] = "EXIST"
  /\ cnt <= MaxSem[s]
  /\ \/ /\ Available(s, cnt)
        /\ semcnt' = [semcnt EXCEPT ![s] = @ - cnt]
        /\ UNCHANGED <<kernelVars, semst, waisem>>
     \/ /\ ~Available(s, cnt) /\ tmout # TMO_POL
        /\ Suspend("SEM", WaitTime(tmout))
        /\ waisem' = [waisem EXCEPT ![cur_task] = [obj |-> s, cnt |-> cnt]]
        /\ UNCHANGED <<itskpri, wupcnt, cpuVars, semst, semcnt>>

(* The waiters in W end their waits in turn, each followed by scheduler(). *)
ReleaseInTurn(W) ==
  /\ Awaken(Range(W), [t \in Task |-> "E_OK"])
  /\ waitim' = [t \in Task |-> IF t \in Range(W) THEN 0 ELSE waitim[t]]
  /\ IF W = <<>> THEN UNCHANGED <<sche_task, pendsv>>
     ELSE /\ sche_task' = TopTask(ready_queue')
          /\ pendsv' = \/ pendsv
                       \/ /\ ~disp_running
                          /\ \E k \in 1..Len(W) :
                               TopTask(ReadyAfter({W[i] : i \in 1..k})) # cur_task

(* Mutant: the limit is checked before the units are added. *)
Overflows_late(s, cnt) == semcnt[s] > MaxSem[s]

Overflows(s, cnt) == semcnt[s] + cnt > MaxSem[s]

(* After n grants from the waiters W, `left` units do not suffice for the  *)
(* next one.  Mutant: a single grant is enough.                            *)
Stops_after_one(W, n, left) == n < Len(W) /\ n # 1 => left < waisem[W[n + 1]].cnt

Stops(W, n, left) == n < Len(W) => left < waisem[W[n + 1]].cnt

(* Mutant: the units go to any waiter they suffice for. *)
tk_sig_sem_any(s, cnt) ==
  /\ semst[s] = "EXIST" /\ ~Overflows(s, cnt)
  /\ \E t \in Waiting(s) :
       /\ semcnt' = [semcnt EXCEPT ![s] = @ + cnt - waisem[t].cnt]
       /\ semcnt'[s] >= 0
       /\ ReleaseInTurn(<<t>>)
  /\ EndWaits
  /\ UNCHANGED <<itskpri, wupcnt, cpuVars, semst>>

(* Units return and go to the waiters in order, until one wants more than  *)
(* is left; left[k] is semcnt after the k-th grant.  E_QOVR, without       *)
(* effect, when there would be more units than maxsem.                     *)
tk_sig_sem(s, cnt) ==
  /\ semst[s] = "EXIST"
  /\ ~Overflows(s, cnt)
  /\ LET W == Waiters(s)
     IN  \E n \in 0..Len(W) : \E left \in [0..n -> 0..(semcnt[s] + cnt)] :
           /\ left[0] = semcnt[s] + cnt
           /\ \A k \in 1..n : left[k] = left[k - 1] - waisem[W[k]].cnt
           /\ Stops(W, n, left[n])
           /\ semcnt' = [semcnt EXCEPT ![s] = left[n]]
           /\ ReleaseInTurn(SubSeq(W, 1, n))
  /\ EndWaits
  /\ UNCHANGED <<itskpri, wupcnt, cpuVars, semst>>

(***************************************************************************)
(* Specification.                                                          *)
(***************************************************************************)
Init ==
  /\ KernelInit
  /\ semst  = [s \in Sem |-> "NONEXIST"]
  /\ semcnt = [s \in Sem |-> 0]
  /\ waisem = [t \in Task |-> <<>>]

SemaphoreCall ==
  \E s \in Sem : \/ tk_cre_sem(s)
                 \/ \E cnt \in Counts : \/ tk_sig_sem(s, cnt)
                                        \/ \E tmout \in SemWaits : tk_wai_sem(s, cnt, tmout)

KernelStep == KernelNext /\ EndWaits /\ UNCHANGED <<semst, semcnt>>

Next == SemaphoreCall \/ KernelStep

Spec == Init /\ [][Next]_vars

(***************************************************************************)
(* Properties.                                                             *)
(***************************************************************************)
SemTypeOK ==
  /\ semst  \in [Sem -> {"NONEXIST", "EXIST"}]
  /\ semcnt \in [Sem -> Nat]
  /\ waisem \in [Task -> {<<>>} \cup [obj : Sem, cnt : Nat \ {0}]]

(* Units are neither lost into the negative nor invented: whatever the     *)
(* order of requests, returns with several grants, and time-outs, there    *)
(* are between 0 and maxsem of them, and a TCB waits for a semaphore       *)
(* exactly while its wait factor says so, for units that can ever come.    *)
SemaphoreInv ==
  /\ \A s \in Sem : semcnt[s] \in 0..MaxSem[s]
  /\ \A t \in Task : waisem[t] # <<>> <=> waifct[t] = "SEM"
  /\ \A t \in Task : waisem[t] # <<>> => /\ semst[waisem[t].obj] = "EXIST"
                                         /\ waisem[t].cnt <= MaxSem[waisem[t].obj]

(* No task waits for units that are there. *)
FirstWaiterLacksUnits ==
  \A s \in Sem : Waiters(s) # <<>> => semcnt[s] < waisem[Head(Waiters(s))].cnt

(* No task waits without need: the loop of tk_sig_sem grants all it can    *)
(* before EI, and tk_wai_sem suspends only on a real shortage.  The tick   *)
(* is the one exception (when the first waiter gives up, nobody looks      *)
(* whether the units suffice for the second); a return of units puts that  *)
(* right.                                                                  *)
OnlyTimeoutStrandsUnits ==
  [][FirstWaiterLacksUnits /\ ~FirstWaiterLacksUnits' => systimer_handler]_vars

(* A grant goes to the longest waiter: when a wait for s ends with E_OK,   *)
(* every waiter that came earlier has been granted in the same call.       *)
GrantsInOrder ==
  [][\A s \in Sem : LET W == Waiters(s) IN \A i, j \in 1..Len(W) :
       i < j /\ state'[W[j]] = "READY" /\ waierr'[W[j]] = "E_OK"
         => state'[W[i]] = "READY" /\ waierr'[W[i]] = "E_OK"]_vars
=============================================================================
