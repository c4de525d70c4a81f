----------------------------- MODULE TaskCalls -----------------------------
(***************************************************************************)
(* The kernel as the drivers and the application use it: fixed-priority    *)
(* scheduling, binary semaphores (TA_TFIFO, isemcnt = maxsem = 1, no       *)
(* time-out), event flags of one bit with one waiter and TWF_ORW |         *)
(* TWF_BITCLR, and a mutex with TA_INHERIT.  The modules of the kernel     *)
(* model the calls in full; a call is one step there, and so it is here.   *)
(*                                                                         *)
(* A task calls and stands, in its pc, after the call; while it is in a    *)
(* list of waiters it does not run.                                        *)
(***************************************************************************)
EXTENDS Naturals, Sequences, SequencesExt

(* The task that executes: the ready task of the highest priority (Kernel, *)
(* RunsTopTask; where the priorities of an instance differ, it is unique). *)
Runs(t, Ready, pri) == t \in Ready /\ \A u \in Ready : pri[t] <= pri[u]

FreeSem == [cnt |-> 1, wai |-> <<>>]

tk_wai_sem(s, t) ==
  IF s.cnt = 1 THEN [s EXCEPT !.cnt = 0] ELSE [s EXCEPT !.wai = Append(@, t)]

(* The unit goes to the first waiter, else back to the count. *)
tk_sig_sem(s) ==
  IF s.wai = <<>> THEN [s EXCEPT !.cnt = 1] ELSE [s EXCEPT !.wai = Tail(@)]

ClearFlg == [ptn |-> FALSE, wai |-> FALSE]

tk_wai_flg(f) == IF f.ptn THEN ClearFlg ELSE [f EXCEPT !.wai = TRUE]

tk_set_flg(f) == IF f.wai THEN ClearFlg ELSE [f EXCEPT !.ptn = TRUE]

FreeMtx == [owner |-> "none", wai |-> {}]

tk_loc_mtx(m, t) ==
  IF m.owner = "none" THEN [m EXCEPT !.owner = t] ELSE [m EXCEPT !.wai = @ \cup {t}]

(* The most urgent waiter becomes the owner. *)
tk_unl_mtx(m, pri) ==
  IF m.wai = {} THEN FreeMtx
  ELSE LET next == CHOOSE t \in m.wai : \A u \in m.wai : pri[t] <= pri[u]
       IN  [owner |-> next, wai |-> m.wai \ {next}]

(* The priorities while m is as it is: its owner has that of its most      *)
(* urgent waiter.                                                          *)
Inherited(m, pri) ==
  [t \in DOMAIN pri |-> IF t = m.owner THEN Min({pri[t]} \cup {pri[u] : u \in m.wai})
                        ELSE pri[t]]
=============================================================================
