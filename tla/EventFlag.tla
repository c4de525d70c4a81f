----------------------------- MODULE EventFlag -----------------------------
(***************************************************************************)
(* Event flags (src/kernel/eventflag.c) on top of the kernel core.  A      *)
(* pattern is the set of its bits.  Tasks wait; tasks, interrupt handlers  *)
(* and cyclic handlers set and clear.  The grain of atomicity is that of   *)
(* Kernel.tla.                                                             *)
(***************************************************************************)
EXTENDS Kernel

CONSTANTS
  Flg,       \* the FLGCBs, one for each T_CFLG passed to tk_cre_flg
  InitPtn,   \* iflgptn of each T_CFLG
  Bit,       \* the bits of a pattern
  Modes,     \* bound: the wfmodes used, sets of "ORW", "CLR" and "BITCLR"
  FlgWaits   \* bound: the TMOs passed to tk_wai_flg

ASSUME EventFlagAssumption ==
  /\ InitPtn \in [Flg -> SUBSET Bit]
  /\ Modes \subseteq SUBSET {"ORW", "CLR", "BITCLR"}
  /\ FlgWaits \subseteq Nat \cup {TMO_FEVR}
  /\ "FLG" \in WaitFactor

VARIABLES
  flgst,    \* state of the FLGCB: "NONEXIST" or "EXIST"
  flgptn,   \* the current pattern
  waiflg,   \* TCB: waiobj, waiptn and wfmode of a task that waits for a flag
  p_flgptn  \* history: the pattern that the last step returned to each task,
            \* {} to none

flgVars       == <<flgst, flgptn, waiflg, p_flgptn>>
eventFlagVars == <<kernelVars, flgVars>>

WaitingFor(f) == {t \in Task : waiflg[t] # <<>> /\ waiflg[t].obj = f}

(* In wait queue order.  Mutant: only the first one is found.              *)
FlagWaiters_first(f) ==
  LET W == Entries(wait_queue, WaitingFor(f)) IN IF W = <<>> THEN W ELSE <<Head(W)>>

FlagWaiters(f) == Entries(wait_queue, WaitingFor(f))

NoPattern == [t \in Task |-> {}]

(* w has the fields ptn and mode. *)
check_flag(p, w) == IF "ORW" \in w.mode THEN p \cap w.ptn # {} ELSE w.ptn \subseteq p

(* What a wait that succeeds leaves of the pattern. *)
Consume(p, w) ==
  IF "CLR" \in w.mode THEN {} ELSE IF "BITCLR" \in w.mode THEN p \ w.ptn ELSE p

tk_cre_flg(f) ==
  /\ InTask
  /\ flgst[f] = "NONEXIST"
  /\ flgst'  = [flgst EXCEPT ![f] = "EXIST"]
  /\ flgptn' = [flgptn EXCEPT ![f] = InitPtn[f]]
  /\ p_flgptn' = NoPattern
  /\ UNCHANGED <<kernelVars, waiflg>>

(* What the pattern p is after the waiter w has been looked at. *)
After(p, w) == IF check_flag(p, w) THEN Consume(p, w) ELSE p

(* Mutants: the last waiter is looked at first; what is consumed is taken  *)
(* away too late.                                                          *)
Seen_backwards(W, p) ==
  LET n == Len(W)
      seen[k \in 1..n + 1] == IF k = 1 THEN p ELSE After(seen[k - 1], waiflg[W[n + 2 - k]])
  IN  [k \in 1..n + 1 |-> IF k = n + 1 THEN seen[k] ELSE seen[n + 1 - k]]

Seen_unchanged(W, p) == [k \in 1..Len(W) + 1 |-> p]

(* The pattern that each of the waiters W sees, and the one that is left:  *)
(* each sees what the previous one has left of the pattern p.              *)
Seen(W, p) ==
  LET seen[k \in 1..Len(W) + 1] ==
        IF k = 1 THEN p ELSE After(seen[k - 1], waiflg[W[k - 1]])
  IN  seen

(* The waiters are looked at in wait queue order.  The code stops at the   *)
(* empty pattern, which fulfils no wait, and calls scheduler() once, if it *)
(* has ended a wait.  *waierr stays E_OK.                                  *)
tk_set_flg(f, setptn) ==
  LET W == FlagWaiters(f)
      seen == Seen(W, flgptn[f] \cup setptn)
      done == {k \in 1..Len(W) : check_flag(seen[k], waiflg[W[k]])}
      woken == {W[k] : k \in done}
  IN  /\ flgst[f] = "EXIST"
      /\ flgptn' = [flgptn EXCEPT ![f] = seen[Len(W) + 1]]
      /\ p_flgptn' = [t \in Task |-> IF t \in woken
                                     THEN seen[CHOOSE k \in done : W[k] = t] ELSE {}]
      /\ waiflg' = [t \in Task |-> IF t \in woken THEN <<>> ELSE waiflg[t]]
      /\ \/ /\ woken # {}
            /\ Release(woken, waierr)
            /\ waitim' = [t \in Task |-> IF t \in woken THEN 0 ELSE waitim[t]]
            /\ UNCHANGED <<itskpri, wupcnt, cpuVars>>
         \/ woken = {} /\ UNCHANGED kernelVars
      /\ UNCHANGED flgst

(* Called with the complement of the bits to clear. *)
tk_clr_flg(f, clrptn) ==
  /\ flgst[f] = "EXIST"
  /\ flgptn' = [flgptn EXCEPT ![f] = @ \cap clrptn]
  /\ p_flgptn' = NoPattern
  /\ UNCHANGED <<kernelVars, flgst, waiflg>>

(* E_TMOUT, without effect, when a poll does not find its bits. *)
tk_wai_flg(f, waiptn, wfmode, tmout) ==
  LET w == [obj |-> f, ptn |-> waiptn, mode |-> wfmode]
  IN  /\ InTask
      /\ flgst[f] = "EXIST"
      /\ \/ /\ check_flag(flgptn[f], w)
            /\ p_flgptn' = [NoPattern EXCEPT ![cur_task] = flgptn[f]]
            /\ flgptn' = [flgptn EXCEPT ![f] = Consume(@, w)]
            /\ UNCHANGED <<kernelVars, waiflg>>
         \/ /\ ~check_flag(flgptn[f], w) /\ tmout # TMO_POL
            /\ Suspend("FLG", WaitTime(tmout))
            /\ waiflg' = [waiflg EXCEPT ![cur_task] = w]
            /\ p_flgptn' = NoPattern
            /\ UNCHANGED <<itskpri, wupcnt, cpuVars, flgptn>>
      /\ UNCHANGED flgst

(***************************************************************************)
(* Specification.                                                          *)
(***************************************************************************)
FlagInit ==
  /\ KernelInit
  /\ flgst  = [f \in Flg |-> "NONEXIST"]
  /\ flgptn = [f \in Flg |-> {}]
  /\ waiflg = [t \in Task |-> <<>>]
  /\ p_flgptn = NoPattern

FlagCall ==
  \E f \in Flg :
    \/ tk_cre_flg(f)
    \/ \E ptn \in SUBSET Bit : tk_set_flg(f, ptn) \/ tk_clr_flg(f, ptn)
    \/ \E ptn \in SUBSET Bit \ {{}}, mode \in Modes, tmout \in FlgWaits :
         tk_wai_flg(f, ptn, mode, tmout)

FlagKernelStep ==
  /\ KernelNext
  /\ waiflg' = [t \in Task |-> IF waifct'[t] = "FLG" THEN waiflg[t] ELSE <<>>]
  /\ p_flgptn' = NoPattern
  /\ UNCHANGED <<flgst, flgptn>>

FlagNext == FlagCall \/ FlagKernelStep

FlagSpec == FlagInit /\ [][FlagNext]_eventFlagVars

(***************************************************************************)
(* Properties.                                                             *)
(***************************************************************************)
(* No event is missed: no task waits for a pattern that is there, wherever *)
(* interrupt handlers set and clear between its calls, and although the    *)
(* loop of tk_set_flg passes each waiter only once while others consume.   *)
NoMissedEvent ==
  \A t \in Task : waiflg[t] # <<>> => ~check_flag(flgptn[waiflg[t].obj], waiflg[t])

(* The wait of t ends without a time-out. *)
Ended(t) == state[t] = "WAIT" /\ state'[t] = "READY" /\ waierr'[t] = "E_OK"

(* A task whose wait ends without a time-out has been given a pattern that *)
(* fulfils it, and one that waited longer and whose wait goes on could not *)
(* have been fulfilled by that pattern: nobody is overtaken.               *)
FirstComeFirstServed ==
  [][\A f \in Flg :
       LET W == FlagWaiters(f) IN
       \A j \in 1..Len(W) : Ended(W[j]) =>
         /\ check_flag(p_flgptn'[W[j]], waiflg[W[j]])
         /\ \A i \in 1..(j - 1) :
              Ended(W[i]) \/ ~check_flag(p_flgptn'[W[j]], waiflg[W[i]])]_eventFlagVars

(* A bit that a wait consumes (TWF_CLR, TWF_BITCLR) is one task's alone:   *)
(* no other wait that the same event ends sees it later, nor does it stay  *)
(* in the flag.                                                            *)
ConsumedOnce ==
  [][\A f \in Flg :
       LET W == FlagWaiters(f)
           consumed(w, p) == IF "CLR" \in w.mode THEN p
                             ELSE IF "BITCLR" \in w.mode THEN w.ptn ELSE {}
       IN \A i \in 1..Len(W) : Ended(W[i]) =>
            LET gone == consumed(waiflg[W[i]], p_flgptn'[W[i]]) IN
            /\ gone \cap flgptn'[f] = {}
            /\ \A j \in i + 1 .. Len(W) : Ended(W[j]) => gone \cap p_flgptn'[W[j]] = {}]_eventFlagVars
=============================================================================
