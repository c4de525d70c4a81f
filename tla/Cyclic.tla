------------------------------- MODULE Cyclic -------------------------------
(***************************************************************************)
(* Cyclic handlers (src/kernel/cyclic.c).  Tasks create, start, stop and   *)
(* delete them with interrupts disabled; the SysTick handler calls         *)
(* cyclic_tick once per tick, which calls the handlers that are due.  What *)
(* a handler does (it may only notify) is in the modules of the objects it *)
(* notifies, as a call from any context.                                   *)
(*                                                                         *)
(* `since` and `called` are history: the time since the start of an active *)
(* handler, and the handlers called in the last step.  The config of a     *)
(* control block that does not exist is never read.                        *)
(***************************************************************************)
EXTENDS SysTick

CONSTANTS
  NumCyc,       \* CNF_MAX_CYCID
  Config,       \* bound: the T_CCYC used, records of cyctim, cycphs and sta
  MaxTime       \* bound on `since`

Cyc == 1..NumCyc

ASSUME CyclicAssumption ==
  /\ NumCyc \in Nat /\ MaxTime \in Nat
  /\ Config \subseteq [cyctim : Nat \ {0}, cycphs : Nat, sta : BOOLEAN] /\ Config # {}

VARIABLES exists, active, config, remaining, since, called

cycVars == <<exists, active, config, remaining, since, called>>

(* In the first unused control block. *)
tk_cre_cyc(i, c) ==
  /\ ~exists[i] /\ \A j \in 1..(i - 1) : exists[j]
  /\ exists' = [exists EXCEPT ![i] = TRUE]
  /\ active' = [active EXCEPT ![i] = c.sta]
  /\ config' = [config EXCEPT ![i] = c]
  /\ remaining' = [remaining EXCEPT ![i] = c.cycphs]
  /\ since' = [since EXCEPT ![i] = 0]
  /\ called' = {}

(* Also restarts an active handler. *)
tk_sta_cyc(i) ==
  /\ exists[i]
  /\ active' = [active EXCEPT ![i] = TRUE]
  /\ remaining' = [remaining EXCEPT ![i] = config[i].cycphs]
  /\ since' = [since EXCEPT ![i] = 0]
  /\ called' = {}
  /\ UNCHANGED <<exists, config>>

tk_stp_cyc(i) ==
  /\ exists[i]
  /\ active' = [active EXCEPT ![i] = FALSE]
  /\ since' = [since EXCEPT ![i] = 0]
  /\ called' = {}
  /\ UNCHANGED <<exists, config, remaining>>

tk_del_cyc(i) ==
  /\ exists[i]
  /\ exists' = [exists EXCEPT ![i] = FALSE]
  /\ active' = [active EXCEPT ![i] = FALSE]
  /\ since' = [since EXCEPT ![i] = 0]
  /\ called' = {}
  /\ UNCHANGED <<config, remaining>>

(* lfttim of tk_ref_cyc. *)
lfttim(i) == IF active[i] THEN remaining[i] ELSE 0

(* Mutant: a handler is called a tick late. *)
Due_late == {i \in Cyc : exists[i] /\ active[i] /\ remaining[i] < TimerPeriod}

Due == {i \in Cyc : exists[i] /\ active[i] /\ remaining[i] <= TimerPeriod}

(* Mutants: a late call delays the next one; several periods may not be    *)
(* over at once.                                                           *)
Reloaded_afresh(i) == config[i].cyctim
Reloaded_once(i)   == config[i].cyctim - (TimerPeriod - remaining[i])

(* A late call does not delay the next one. *)
Reloaded(i) ==
  LET overdue == TimerPeriod - remaining[i]
  IN  config[i].cyctim - (overdue % config[i].cyctim)

cyclic_tick ==
  /\ \A i \in Cyc : active[i] => since[i] < MaxTime
  /\ remaining' = [i \in Cyc |-> IF i \in Due THEN Reloaded(i)
                                 ELSE IF exists[i] /\ active[i] THEN remaining[i] - TimerPeriod
                                 ELSE remaining[i]]
  /\ called' = Due
  /\ since' = [i \in Cyc |-> IF active[i] THEN since[i] + TimerPeriod ELSE since[i]]
  /\ UNCHANGED <<exists, active, config>>

CycInit ==
  /\ exists = [i \in Cyc |-> FALSE]
  /\ active = [i \in Cyc |-> FALSE]
  /\ config = [i \in Cyc |-> CHOOSE c \in Config : TRUE]
  /\ remaining = [i \in Cyc |-> 0]
  /\ since = [i \in Cyc |-> 0]
  /\ called = {}

CycNext ==
  \/ \E i \in Cyc : \/ \E c \in Config : tk_cre_cyc(i, c)
                    \/ tk_sta_cyc(i) \/ tk_stp_cyc(i) \/ tk_del_cyc(i)
  \/ cyclic_tick

CycSpec == CycInit /\ [][CycNext]_cycVars

(* Handler i is nominally due at time tm after its start. *)
Nominal(i, tm) ==
  tm >= config[i].cycphs /\ (tm - config[i].cycphs) % config[i].cyctim = 0

(***************************************************************************)
(* Properties.                                                             *)
(***************************************************************************)

(* The phase never drifts: at every moment the remaining time that         *)
(* tk_ref_cyc reports leads to a nominal expiry, and to the next one, also *)
(* for periods that are no multiple of the tick or shorter than it, after  *)
(* restarts, and when several expiries were merged into one call.          *)
NominalPhase ==
  \A i \in Cyc : active[i] =>
    /\ Nominal(i, since[i] + lfttim(i))
    /\ \A d \in 1..(lfttim(i) - 1) : ~Nominal(i, since[i] + d)
    /\ since[i] > 0 => lfttim(i) > 0

(* A tick calls a handler exactly when a nominal expiry lies in the time   *)
(* that the tick ends (README.md:2247-2252); the one at the start itself   *)
(* counts to the first tick.  A handler that was stopped or deleted is not *)
(* called.                                                                 *)
CalledWhenDue ==
  [][\A i \in Cyc :
       i \in called' <=>
         /\ active[i] /\ since'[i] = since[i] + TimerPeriod
         /\ \/ \E d \in 1..TimerPeriod : Nominal(i, since[i] + d)
            \/ since[i] = 0 /\ Nominal(i, 0)]_cycVars
=============================================================================
