------------------------ MODULE PreemptiveScheduler ------------------------
(***************************************************************************)
(* What the kernel promises about the processor (README.md, "優先度ベースの *)
(* プリエンプティブ・スケジューリング"): the processor belongs to the first *)
(* task of the highest non-empty queue.  Tasks arrive at the end of the    *)
(* queue of their priority at any time; only the running task leaves.      *)
(* Between two tasks the processor is being switched (running = NONE).     *)
(***************************************************************************)
EXTENDS Integers, Sequences, SequencesExt

CONSTANTS Task, MaxPri, NONE

VARIABLES queue, running

vars == <<queue, running>>

(* The first task of the highest non-empty queue of q. *)
First(q) ==
  LET used == {p \in 1..MaxPri : q[p] # <<>>}
  IN  IF used = {} THEN NONE ELSE Head(q[Min(used)])

Queued(q) == UNION {ToSet(q[p]) : p \in 1..MaxPri}

Init == queue = [p \in 1..MaxPri |-> <<>>] /\ running = NONE

(* Tasks queue up behind those of their priority; the running task keeps   *)
(* the processor only if it still comes first.                             *)
Arrive ==
  /\ \A p \in 1..MaxPri :
       /\ IsPrefix(queue[p], queue'[p])
       /\ \A i \in Len(queue[p]) + 1 .. Len(queue'[p]) : queue'[p][i] \notin Queued(queue)
  /\ running' = IF running = First(queue') THEN running ELSE NONE

(* The running task stops being ready. *)
Leave ==
  /\ running # NONE
  /\ \E p \in 1..MaxPri :
       /\ queue[p] # <<>> /\ Head(queue[p]) = running
       /\ queue' = [queue EXCEPT ![p] = Tail(@)]
  /\ running' = NONE

Switch ==
  /\ running = NONE
  /\ First(queue) # NONE
  /\ running' = First(queue)
  /\ UNCHANGED queue

Next == Arrive \/ Leave \/ Switch

Spec == Init /\ [][Next]_vars /\ WF_vars(Switch)
=============================================================================
