--------------------------- MODULE TaskQueueList ---------------------------
(***************************************************************************)
(* src/kernel/task_queue.c with its pointers.  A queue is a TCB pointer;   *)
(* `next` chains the TCBs and ends in NULL, and the `pre` of the first TCB *)
(* points to the last one.  A TCB that has been unlinked keeps whatever    *)
(* its pointers held.                                                      *)
(*                                                                         *)
(* The kernel calls the operations with interrupts disabled, adds only     *)
(* TCBs that are in no queue, and removes a TCB only from the queue it is  *)
(* in; QueueIntegrity of Kernel.tla says that it keeps to this.            *)
(***************************************************************************)
EXTENDS Integers, FiniteSets, Functions

CONSTANTS Task, Queue, NULL

ASSUME ListAssumption == IsFiniteSet(Task) /\ NULL \notin Task

VARIABLES first, next, pre

listVars == <<first, next, pre>>

(* The TCBs met from pointer p on, following `next`, as a sequence.  A     *)
(* circular chain shows as a sequence longer than there are TCBs.          *)
Chain(p) ==
  LET walk[n \in 0..Cardinality(Task)] ==
        IF n = 0 THEN p ELSE IF walk[n - 1] = NULL THEN NULL ELSE next[walk[n - 1]]
  IN  [i \in 1..Cardinality({n \in DOMAIN walk : walk[n] # NULL}) |-> walk[i - 1]]

Linked(k) == Range(Chain(first[k]))

Init ==
  /\ first = [k \in Queue |-> NULL]
  /\ next = [t \in Task |-> NULL]
  /\ pre  = [t \in Task |-> NULL]

tqueue_add_entry(k, t) ==
  /\ \A q \in Queue : t \notin Linked(q)
  /\ \/ /\ first[k] = NULL
        /\ first' = [first EXCEPT ![k] = t]
        /\ pre'  = [pre EXCEPT ![t] = t]
        /\ next' = [next EXCEPT ![t] = NULL]
     \/ /\ first[k] # NULL
        /\ LET queue_end == pre[first[k]]
           IN  /\ next' = [next EXCEPT ![queue_end] = t, ![t] = NULL]
               /\ pre'  = [pre EXCEPT ![t] = queue_end, ![first[k]] = t]
        /\ UNCHANGED first

(* Mutant: the new first TCB is not told the last one. *)
tqueue_remove_top_stale(k) ==
  /\ first[k] # NULL
  /\ first' = [first EXCEPT ![k] = next[first[k]]]
  /\ UNCHANGED <<next, pre>>

tqueue_remove_top(k) ==
  /\ first[k] # NULL
  /\ first' = [first EXCEPT ![k] = next[first[k]]]
  /\ pre' = IF first'[k] = NULL THEN pre ELSE [pre EXCEPT ![first'[k]] = pre[first[k]]]
  /\ UNCHANGED next

(* Mutant: the first TCB is not treated specially. *)
tqueue_remove_entry_inner(k, t) ==
  /\ t \in Linked(k)
  /\ next' = [next EXCEPT ![pre[t]] = next[t]]
  /\ pre'  = [pre EXCEPT ![IF next[t] # NULL THEN next[t] ELSE first[k]] = pre[t]]
  /\ UNCHANGED first

tqueue_remove_entry(k, t) ==
  /\ t \in Linked(k)
  /\ \/ first[k] = t /\ tqueue_remove_top(k)
     \/ /\ first[k] # t
        /\ next' = [next EXCEPT ![pre[t]] = next[t]]
        /\ pre'  = [pre EXCEPT ![IF next[t] # NULL THEN next[t] ELSE first[k]] = pre[t]]
        /\ UNCHANGED first

Next == \E k \in Queue : \/ tqueue_remove_top(k)
                         \/ \E t \in Task : tqueue_add_entry(k, t) \/ tqueue_remove_entry(k, t)

Spec == Init /\ [][Next]_listVars

(***************************************************************************)
(* Properties.                                                             *)
(***************************************************************************)

(* The pointers implement queues: each operation has the effect of the     *)
(* sequence operator of the same name, on its queue alone.                 *)
Abstract == INSTANCE QueueSpec WITH queue <- [k \in Queue |-> Chain(first[k])]

ImplementsQueues == Abstract!Spec
=============================================================================
