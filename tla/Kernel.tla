------------------------------- MODULE Kernel -------------------------------
(***************************************************************************)
(* The core of the kernel: tasks, ready queues, the wait queue, the        *)
(* scheduler, the PendSV dispatcher with its idle loop, the system timer   *)
(* and sleep / wakeup / delay.                                             *)
(*                                                                         *)
(* Grain of atomicity.  The machine has one core.  Every API function      *)
(* works between DI and EI, SysTick and the device interrupts all have     *)
(* priority 0 and do not preempt one another, and the dispatcher runs in   *)
(* PendSV, the lowest priority.  So an API call, an interrupt handler, and *)
(* each stretch of the dispatcher with PRIMASK set is one step; interrupts *)
(* may come between any two of them: between EI and PendSV, between the    *)
(* entry of PendSV and its `msr primask`, and in the idle loop.            *)
(*                                                                         *)
(* A TCB field that no code reads in a state of the task (waitim and       *)
(* waifct of a task that is not waiting) has a fixed value there.          *)
(***************************************************************************)
EXTENDS TaskQueue, SysTick

CONSTANTS
  Task,         \* the TCBs, one for each T_CTSK passed to tk_cre_tsk
  MaxPri,       \* CNF_MAX_TSKPRI; 1 is the highest priority
  BasePri,      \* btskpri: the priority in the task's T_CTSK
  NONE,         \* a NULL TCB pointer
  Delays,       \* bound: the positive RELTIMs passed to tk_dly_tsk
  SleepTimes,   \* bound: the TMOs passed to tk_slp_tsk
  WaitFactor,   \* the TWFCT_* of the waits other modules add
  MaxWup        \* bound on wupcnt

TMO_FEVR == -1
TMO_POL  == 0
Pri      == 1..MaxPri
State    == {"NONEXIST", "DORMANT", "READY", "WAIT"}
Waifct   == {"NON", "DLY", "SLP"} \cup WaitFactor

ASSUME KernelAssumption ==
  /\ MaxPri \in Nat \ {0}
  /\ BasePri \in [Task -> Pri]
  /\ NONE \notin Task
  /\ Delays \subseteq Nat \ {0}
  /\ SleepTimes \subseteq Nat \cup {TMO_FEVR}
  /\ MaxWup \in Nat
  /\ WaitFactor \cap {"NON", "DLY", "SLP"} = {}

VARIABLES
  state, itskpri, waifct, waitim, waierr, wupcnt,  \* fields of the TCBs
  context,      \* where the stack frame saved in a TCB resumes the task
  ready_queue,  \* one queue of READY tasks for each priority
  wait_queue,   \* the tasks in the WAIT state
  cur_task, sche_task,
  pendsv,       \* PendSV is pending (dispatch() sets ICSR.PENDSVSET)
  disp,         \* the dispatcher: not running, just entered, or idling
  pc            \* the thread the processor is in, beneath any handler

tcbVars    == <<state, itskpri, waifct, waitim, waierr, wupcnt>>
queueVars  == <<ready_queue, wait_queue>>
cpuVars    == <<context, cur_task, disp, pc>>
kernelVars == <<tcbVars, queueVars, cpuVars, sche_task, pendsv>>

(***************************************************************************)
(* The scheduler.                                                          *)
(***************************************************************************)
HighestPri(rq) == CHOOSE p \in Pri : rq[p] # <<>> /\ \A o \in 1..(p - 1) : rq[o] = <<>>

TopTask(rq) == IF \E p \in Pri : rq[p] # <<>> THEN Head(rq[HighestPri(rq)]) ELSE NONE

(* disp_running is 1 from the dispatcher's first stores until it has       *)
(* switched; the only point an interrupt handler sees it is the idle loop. *)
disp_running == disp = "idle"

(* Mutants: the new task must wait for the current one to give up; the     *)
(* choice is made before the queues are updated.                           *)
scheduler_without_preemption ==
  /\ sche_task' = TopTask(ready_queue')
  /\ pendsv' = \/ pendsv
               \/ /\ sche_task' # cur_task /\ ~disp_running
                  /\ cur_task # NONE => state'[cur_task] # "READY"

scheduler_stale ==
  /\ sche_task' = TopTask(ready_queue)
  /\ pendsv' = (pendsv \/ (sche_task' # cur_task /\ ~disp_running))

scheduler ==
  /\ sche_task' = TopTask(ready_queue')
  /\ pendsv' = (pendsv \/ (sche_task' # cur_task /\ ~disp_running))

(***************************************************************************)
(* Who is executing.  A task executes when no exception is active or       *)
(* pending; main() runs with cur_task = NULL until the first dispatch.     *)
(***************************************************************************)
Executing == disp = "off" /\ ~pendsv
InTask    == Executing /\ cur_task # NONE /\ pc = "body"

(***************************************************************************)
(* The two moves every waiting call is made of.                            *)
(***************************************************************************)

(* The running task's TCB enters the wait queue.  `err`, to which waierr   *)
(* points, was initialised to E_OK.                                        *)
StartWait(fct, tim) ==
  /\ state'  = [state EXCEPT ![cur_task] = "WAIT"]
  /\ waifct' = [waifct EXCEPT ![cur_task] = fct]
  /\ waitim' = [waitim EXCEPT ![cur_task] = tim]
  /\ waierr' = [waierr EXCEPT ![cur_task] = "E_OK"]
  /\ wait_queue' = tqueue_add_entry(wait_queue, cur_task)

Suspend(fct, tim) ==
  /\ ready_queue' = [ready_queue EXCEPT ![itskpri[cur_task]] = tqueue_remove_top(@)]
  /\ StartWait(fct, tim)
  /\ scheduler

(* Mutant: the TCB keeps its wait factor. *)
EndWait_keeps_factor(S, err) ==
  /\ wait_queue' = Entries(wait_queue, Range(wait_queue) \ S)
  /\ waierr' = [t \in Task |-> IF t \in S THEN err[t] ELSE waierr[t]]
  /\ UNCHANGED waifct

(* The waits of the tasks in S end with error code err[t]; the code meets  *)
(* them in wait queue order and links each to the end of its ready queue.  *)
EndWait(S, err) ==
  /\ wait_queue' = Entries(wait_queue, Range(wait_queue) \ S)
  /\ waifct' = [t \in Task |-> IF t \in S THEN "NON" ELSE waifct[t]]
  /\ waierr' = [t \in Task |-> IF t \in S THEN err[t] ELSE waierr[t]]

Readied(S) == [t \in Task |-> IF t \in S THEN "READY" ELSE state[t]]

(* Mutant: a task that is woken comes first in its queue. *)
ReadyAfter_first(S) ==
  [p \in Pri |-> Entries(wait_queue, {t \in S : itskpri[t] = p}) \o ready_queue[p]]

ReadyAfter(S) ==
  [p \in Pri |-> ready_queue[p] \o Entries(wait_queue, {t \in S : itskpri[t] = p})]

Awaken(S, err) ==
  /\ EndWait(S, err)
  /\ state' = Readied(S)
  /\ ready_queue' = ReadyAfter(S)

Release(S, err) == Awaken(S, err) /\ scheduler

(* Mutant: the time that remains of the current tick is not allowed for. *)
WaitTime_short(tmout) == tmout

WaitTime(tmout) == IF tmout = TMO_FEVR THEN tmout ELSE tmout + TimerPeriod

(***************************************************************************)
(* Task management.                                                        *)
(***************************************************************************)
tk_cre_tsk(t) ==
  /\ state[t] = "NONEXIST"
  /\ state' = [state EXCEPT ![t] = "DORMANT"]
  /\ itskpri' = [itskpri EXCEPT ![t] = BasePri[t]]
  /\ UNCHANGED <<waifct, waitim, waierr, wupcnt, queueVars, cpuVars, sche_task, pendsv>>

(* Mutants: a task may be started again; the frame saved when the task     *)
(* exited is not replaced.                                                 *)
tk_sta_tsk_again(t) ==
  /\ state[t] \in {"DORMANT", "READY"}
  /\ state' = [state EXCEPT ![t] = "READY"]
  /\ context' = [context EXCEPT ![t] = "entry"]
  /\ ready_queue' = [ready_queue EXCEPT ![itskpri[t]] = tqueue_add_entry(@, t)]
  /\ scheduler
  /\ UNCHANGED <<itskpri, waifct, waitim, waierr, wupcnt, wait_queue, cur_task, disp, pc>>

tk_sta_tsk_old_context(t) ==
  /\ state[t] = "DORMANT"
  /\ state' = [state EXCEPT ![t] = "READY"]
  /\ context' = IF context[t] = "none" THEN [context EXCEPT ![t] = "entry"] ELSE context
  /\ ready_queue' = [ready_queue EXCEPT ![itskpri[t]] = tqueue_add_entry(@, t)]
  /\ scheduler
  /\ UNCHANGED <<itskpri, waifct, waitim, waierr, wupcnt, wait_queue, cur_task, disp, pc>>

(* E_OBJ, without effect, when the task is not DORMANT. *)
tk_sta_tsk(t) ==
  /\ state[t] = "DORMANT"
  /\ state' = [state EXCEPT ![t] = "READY"]
  /\ context' = [context EXCEPT ![t] = "entry"]
  /\ ready_queue' = [ready_queue EXCEPT ![itskpri[t]] = tqueue_add_entry(@, t)]
  /\ scheduler
  /\ UNCHANGED <<itskpri, waifct, waitim, waierr, wupcnt, wait_queue, cur_task, disp, pc>>

(* No mutex exists in this module; Mutex.tla has the call that also        *)
(* releases the mutexes of the task.  wupcnt is left as it is.             *)
tk_ext_tsk ==
  /\ InTask
  /\ ready_queue' = [ready_queue EXCEPT ![itskpri[cur_task]] = tqueue_remove_entry(@, cur_task)]
  /\ state' = [state EXCEPT ![cur_task] = "DORMANT"]
  /\ pc' = "exited"
  /\ scheduler
  /\ UNCHANGED <<itskpri, waifct, waitim, waierr, wupcnt, wait_queue, context, cur_task, disp>>

(***************************************************************************)
(* Task synchronisation.                                                   *)
(***************************************************************************)
tk_dly_tsk(dlytim) ==
  /\ InTask
  /\ Suspend("DLY", dlytim + TimerPeriod)
  /\ UNCHANGED <<itskpri, wupcnt, cpuVars>>

(* Mutant: counted wakeups are not looked at. *)
tk_slp_tsk_at_once(tmout) ==
  /\ InTask
  /\ Suspend("SLP", WaitTime(tmout))
  /\ UNCHANGED <<itskpri, wupcnt, cpuVars>>

tk_slp_tsk(tmout) ==
  /\ InTask
  /\ \/ /\ wupcnt[cur_task] > 0
        /\ wupcnt' = [wupcnt EXCEPT ![cur_task] = @ - 1]
        /\ UNCHANGED <<state, itskpri, waifct, waitim, waierr, queueVars, cpuVars, sche_task, pendsv>>
     \/ /\ wupcnt[cur_task] = 0
        /\ Suspend("SLP", WaitTime(tmout))
        /\ UNCHANGED <<itskpri, wupcnt, cpuVars>>

(* Callable from tasks and interrupt handlers.  The sleeper's err stays    *)
(* E_OK.  E_OBJ, without effect, for a DORMANT or NONEXIST task.           *)
tk_wup_tsk(t) ==
  \/ /\ state[t] = "WAIT" /\ waifct[t] = "SLP"
     /\ Release({t}, waierr)
     /\ waitim' = [waitim EXCEPT ![t] = 0]
     /\ UNCHANGED <<itskpri, wupcnt, cpuVars>>
  \/ /\ state[t] = "READY" \/ (state[t] = "WAIT" /\ waifct[t] # "SLP")
     /\ wupcnt[t] < MaxWup
     /\ wupcnt' = [wupcnt EXCEPT ![t] = @ + 1]
     /\ UNCHANGED <<state, itskpri, waifct, waitim, waierr, queueVars, cpuVars, sche_task, pendsv>>

(***************************************************************************)
(* The SysTick handler.                                                    *)
(***************************************************************************)
Finite(t)  == waitim[t] # TMO_FEVR
Expired(t) == Finite(t) /\ waitim[t] <= TimerPeriod

(* Mutants: waits without a time-out count down too; only the task at the  *)
(* head of the wait queue is looked at.                                    *)
Elapse_always ==
  waitim' = [t \in Task |-> IF t \notin Range(wait_queue) THEN waitim[t]
                            ELSE IF Expired(t) THEN 0
                            ELSE waitim[t] - TimerPeriod]

Elapse_head ==
  waitim' = [t \in Task |->
    IF wait_queue = <<>> \/ t # Head(wait_queue) \/ ~Finite(t) THEN waitim[t]
    ELSE IF Expired(t) THEN 0 ELSE waitim[t] - TimerPeriod]

(* What the tick leaves of the waiting times. *)
Elapse ==
  waitim' = [t \in Task |-> IF t \notin Range(wait_queue) \/ ~Finite(t) THEN waitim[t]
                            ELSE IF Expired(t) THEN 0
                            ELSE waitim[t] - TimerPeriod]

systimer_handler ==
  /\ Elapse
  /\ Release({t \in Range(wait_queue) : Expired(t)},
             [t \in Task |-> IF waifct[t] = "DLY" THEN "E_OK" ELSE "E_TMOUT"])
  /\ UNCHANGED <<itskpri, wupcnt, cpuVars>>

(***************************************************************************)
(* The dispatcher.                                                         *)
(***************************************************************************)

(* The processor takes PendSV; interrupts are still enabled and            *)
(* disp_running is still 0.                                                *)
pendsv_entry ==
  /\ disp = "off" /\ pendsv
  /\ disp' = "entry"
  /\ pendsv' = FALSE
  /\ UNCHANGED <<tcbVars, queueVars, context, cur_task, sche_task, pc>>

(* The frame to resume t from: a fresh one enters the task function. *)
Resume(t) ==
  /\ cur_task' = t
  /\ disp' = "off"
  /\ pc' = IF context'[t] = "entry" THEN "body" ELSE context'[t]

(* Mutant: cur_task is left as it was when no task is ready. *)
dispatch_entry_keeps_task ==
  /\ disp = "entry"
  /\ context' = IF cur_task = NONE THEN context ELSE [context EXCEPT ![cur_task] = pc]
  /\ IF sche_task = NONE
     THEN disp' = "idle" /\ pc' = "none" /\ UNCHANGED cur_task
     ELSE Resume(sche_task)
  /\ UNCHANGED <<tcbVars, queueVars, sche_task, pendsv>>

(* From `msr primask` on: save the context of cur_task, if there is one,   *)
(* and switch to sche_task, or enter the idle loop.                        *)
dispatch_entry ==
  /\ disp = "entry"
  /\ context' = IF cur_task = NONE THEN context ELSE [context EXCEPT ![cur_task] = pc]
  /\ IF sche_task = NONE
     THEN cur_task' = NONE /\ disp' = "idle" /\ pc' = "none"
     ELSE Resume(sche_task)
  /\ UNCHANGED <<tcbVars, queueVars, sche_task, pendsv>>

(* Mutant: the idle loop waits for a dispatch to be requested. *)
idle_exit_on_request ==
  /\ disp = "idle" /\ sche_task # NONE /\ pendsv
  /\ UNCHANGED context
  /\ Resume(sche_task)
  /\ UNCHANGED <<tcbVars, queueVars, sche_task, pendsv>>

(* The idle loop finds that an interrupt handler has made a task ready. *)
idle_exit ==
  /\ disp = "idle" /\ sche_task # NONE
  /\ UNCHANGED context
  /\ Resume(sche_task)
  /\ UNCHANGED <<tcbVars, queueVars, sche_task, pendsv>>

(***************************************************************************)
(* Specification.                                                          *)
(***************************************************************************)
KernelInit ==
  /\ state   = [t \in Task |-> "NONEXIST"]
  /\ itskpri = BasePri
  /\ waifct  = [t \in Task |-> "NON"]
  /\ waitim  = [t \in Task |-> 0]
  /\ waierr  = [t \in Task |-> "E_OK"]
  /\ wupcnt  = [t \in Task |-> 0]
  /\ context = [t \in Task |-> "none"]
  /\ ready_queue = [p \in Pri |-> <<>>]
  /\ wait_queue  = <<>>
  /\ cur_task = NONE /\ sche_task = NONE
  /\ pendsv = FALSE
  /\ disp = "off"
  /\ pc = "main"

TaskCall ==
  \/ tk_ext_tsk
  \/ \E d \in Delays : tk_dly_tsk(d)
  \/ \E tmout \in SleepTimes : tk_slp_tsk(tmout)

(* Calls that do not look at their context: the running task, main() and   *)
(* interrupt handlers can make them, at any time.                          *)
AnyContextCall == \E t \in Task : tk_cre_tsk(t) \/ tk_sta_tsk(t) \/ tk_wup_tsk(t)

Dispatcher == pendsv_entry \/ dispatch_entry \/ idle_exit

KernelNext == TaskCall \/ AnyContextCall \/ systimer_handler \/ Dispatcher

KernelSpec == KernelInit /\ [][KernelNext]_kernelVars

(* The processor takes a pending PendSV once the handlers before it return, *)
(* the dispatcher is straight-line code, the idle loop polls sche_task, and *)
(* the SysTick timer keeps running.  What tasks call is up to them.         *)
KernelFairness ==
  /\ WF_kernelVars(pendsv_entry)
  /\ WF_kernelVars(dispatch_entry)
  /\ WF_kernelVars(idle_exit)
  /\ WF_kernelVars(systimer_handler)

(***************************************************************************)
(* Properties.                                                             *)
(***************************************************************************)
TypeOK ==
  /\ state   \in [Task -> State]
  /\ itskpri \in [Task -> Pri]
  /\ waifct  \in [Task -> Waifct]
  /\ waitim  \in [Task -> Nat \cup {TMO_FEVR}]
  /\ waierr  \in [Task -> {"E_OK", "E_TMOUT"}]
  /\ wupcnt  \in [Task -> 0..MaxWup]
  /\ context \in [Task -> {"none", "entry", "body", "exited"}]
  /\ ready_queue \in [Pri -> Seq(Task)]
  /\ wait_queue \in Seq(Task)
  /\ cur_task \in Task \cup {NONE} /\ sche_task \in Task \cup {NONE}
  /\ pendsv \in BOOLEAN
  /\ disp \in {"off", "entry", "idle"}
  /\ pc \in {"main", "body", "exited", "none"}

(* Each TCB is linked exactly where its state says: a waiting task once in *)
(* the wait queue, a READY one once in the ready queue of its current      *)
(* priority, any other nowhere.  The waiting calls unlink the *head* of a  *)
(* ready queue on the belief that it is the caller (task_sync.c:19,47), so *)
(* this breaks as soon as the running task is not the head of its queue.   *)
QueueIntegrity ==
  /\ NoDuplicates(wait_queue)
  /\ \A p \in Pri : NoDuplicates(ready_queue[p])
  /\ \A t \in Task : t \in Range(wait_queue) <=> state[t] = "WAIT"
  /\ \A t \in Task, p \in Pri :
       t \in Range(ready_queue[p]) <=> state[t] = "READY" /\ itskpri[t] = p

(* Whenever task code executes, it is the code of the task that is first   *)
(* in the highest non-empty ready queue, whatever interrupts came before,  *)
(* during and after the dispatch that started it (scheduler.c, dispatch.S);*)
(* main() and the idle loop execute only while no task is ready.           *)
RunsTopTask == Executing => cur_task = TopTask(ready_queue)

(* No dispatch is lost: sche_task is always the top task, and when it is   *)
(* not the current one then PendSV is pending or the dispatcher is active, *)
(* although scheduler() requests no dispatch while disp_running is set.    *)
NoLostDispatch ==
  /\ sche_task = TopTask(ready_queue)
  /\ sche_task # cur_task => pendsv \/ disp # "off"

(* Where the thread of task t goes on when it next executes.               *)
Resumes(t) == IF t = cur_task THEN pc ELSE context[t]

(* An alive task that will go on behind its tk_ext_tsk, not at its entry   *)
(* and not in its body.                                                    *)
Lost(t) == state[t] \in {"READY", "WAIT"} /\ Resumes(t) = "exited"

(* The task has ended and the processor has not been switched away from it *)
(* yet: from the EI of tk_ext_tsk to the dispatcher's `msr primask`.       *)
InExit(t) == cur_task = t /\ state[t] = "DORMANT"

(* A task that ended does not come back behind its tk_ext_tsk, with one    *)
(* exception: the frame that the dispatcher saves over the TCB of a task   *)
(* that ended (dispatch.S:30-31) is replaced before the task is resumed,   *)
(* over any number of lives, switches and preemptions, unless an interrupt *)
(* handler starts the task again before that frame is saved.               *)
NoResurrection == [][\A t \in Task : Lost(t)' => Lost(t) \/ InExit(t)]_kernelVars

(* A task does not sleep while a wakeup request for it is counted: whether *)
(* tk_wup_tsk comes before or after tk_slp_tsk, no wakeup is lost.         *)
NoSleepOnCountedWakeup == \A t \in Task : waifct[t] = "SLP" => wupcnt[t] = 0

(* What ties the processor to the tasks, needed to prove the properties    *)
(* above: a TCB has a wait factor exactly while it waits; cur_task is NULL *)
(* exactly in main() and in the idle loop; the thread of cur_task executes *)
(* its body while the task is alive, and one that left its body does not   *)
(* wait; an alive task that is switched out has a frame to go on from.     *)
ProcessorInv ==
  /\ \A t \in Task : waifct[t] = "NON" <=> state[t] # "WAIT"
  /\ disp = "idle" <=> pc = "none"
  /\ cur_task = NONE <=> pc \in {"main", "none"}
  /\ pc = "body" => state[cur_task] \in {"READY", "WAIT"}
  /\ pc = "exited" => state[cur_task] \in {"DORMANT", "READY"}
  /\ \A t \in Task : state[t] \in {"READY", "WAIT"} /\ t # cur_task => context[t] # "none"

(* The inductive invariant. *)
KernelInv ==
  /\ TypeOK
  /\ QueueIntegrity
  /\ NoLostDispatch
  /\ NoSleepOnCountedWakeup
  /\ ProcessorInv

(* A wait with a finite time ends, however other waits come and go.        *)
FiniteWaitEnds ==
  \A t \in Task : (state[t] = "WAIT" /\ Finite(t)) ~> state[t] # "WAIT"

(* The task on the processor; in main() there is none.                     *)
Running == IF Executing THEN cur_task ELSE NONE

(* The kernel implements preemptive fixed-priority scheduling, first come  *)
(* first served within a priority.                                         *)
Ideal == INSTANCE PreemptiveScheduler WITH
           queue <- ready_queue, running <- Running

ImplementsScheduler == Ideal!Spec
=============================================================================
