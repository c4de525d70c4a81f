----------------------------- MODULE KernelTime -----------------------------
(***************************************************************************)
(* How long timed waits last.  The kernel core with two history variables: *)
(* for each waiting task the time it asked for, and the ticks since then.  *)
(***************************************************************************)
EXTENDS Kernel

VARIABLES asked, ticks

timeVars == <<kernelVars, asked, ticks>>

TimeInit ==
  /\ KernelInit
  /\ asked = [t \in Task |-> TMO_FEVR]
  /\ ticks = [t \in Task |-> 0]

(* The history of a task that does not wait is void. *)
Remember(a, n) ==
  /\ asked' = [t \in Task |-> IF state'[t] = "WAIT" THEN a[t] ELSE TMO_FEVR]
  /\ ticks' = [t \in Task |-> IF state'[t] = "WAIT" /\ Finite(t)' THEN n[t] ELSE 0]

(* The running task starts to wait for time tim, or goes on. *)
Timed ==
  \/ \E d \in Delays : tk_dly_tsk(d) /\ Remember([asked EXCEPT ![cur_task] = d], ticks)
  \/ \E tmout \in SleepTimes :
       tk_slp_tsk(tmout) /\ Remember([asked EXCEPT ![cur_task] = tmout], ticks)

Tick == systimer_handler /\ Remember(asked, [t \in Task |-> ticks[t] + 1])

Untimed ==
  /\ \/ tk_ext_tsk
     \/ AnyContextCall
     \/ Dispatcher
  /\ Remember(asked, ticks)

TimeNext == Timed \/ Tick \/ Untimed

TimeSpec == TimeInit /\ [][TimeNext]_timeVars

(* A timed wait never ends early and not a tick too late, whatever happens *)
(* meanwhile.  The call may come just before a tick, so n + 1 ticks are    *)
(* sure to span only n periods: the wait ends with the first tick by which *)
(* the time asked for must have passed.  (task_sync.c adds TIMER_PERIOD to *)
(* the time for that reason.)                                              *)
EndsOnTime ==
  [][\A t \in Task : Tick /\ state[t] = "WAIT" /\ Finite(t) =>
       (state'[t] = "READY" <=> ticks[t] * TimerPeriod >= asked[t])]_timeVars
=============================================================================
