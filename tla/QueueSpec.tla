----------------------------- MODULE QueueSpec -----------------------------
(***************************************************************************)
(* What the kernel promises itself about its task queues: each queue is a  *)
(* sequence of TCBs, no TCB is in two places, and the three operations are *)
(* those of TaskQueue.tla.                                                 *)
(***************************************************************************)
EXTENDS TaskQueue

CONSTANTS Task, Queue

VARIABLE queue

InQueue(k) == Range(queue[k])
Unlinked   == Task \ UNION {InQueue(k) : k \in Queue}

Init == queue = [k \in Queue |-> <<>>]

Add(k, t)    == t \in Unlinked   /\ queue' = [queue EXCEPT ![k] = tqueue_add_entry(@, t)]
RemoveTop(k) == queue' = [queue EXCEPT ![k] = tqueue_remove_top(@)]
Remove(k, t) == t \in InQueue(k) /\ queue' = [queue EXCEPT ![k] = tqueue_remove_entry(@, t)]

Next == \E k \in Queue : RemoveTop(k) \/ \E t \in Task : Add(k, t) \/ Remove(k, t)

Spec == Init /\ [][Next]_queue
=============================================================================
