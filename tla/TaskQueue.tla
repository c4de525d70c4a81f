----------------------------- MODULE TaskQueue -----------------------------
(***************************************************************************)
(* The queue operations of src/kernel/task_queue.c at the level the rest   *)
(* of the kernel relies on: a queue is the sequence of TCBs met by         *)
(* following `next` from the queue head.  TaskQueueList models the linked  *)
(* cells themselves and is shown to implement these operators.             *)
(***************************************************************************)
EXTENDS Integers, Sequences, FiniteSets, Functions

(***************************************************************************)
(* The entries of q that are in S, in the order they have in q.  It equals *)
(* SelectSeq(q, LAMBDA t : t \in S) (MCTaskQueueList checks it); it is       *)
(* written with ranks, not recursively, so that theorems about it can be   *)
(* proved.                                                                 *)
(***************************************************************************)
Entries(q, S) ==
  LET I == {i \in 1..Len(q) : q[i] \in S}
  IN  [k \in 1..Cardinality(I) |->
         q[CHOOSE i \in I : Cardinality(I \cap (1..i)) = k]]

(* Append the TCB behind the last one. *)
tqueue_add_entry(q, t) == Append(q, t)

(* Unlink the first TCB; nothing happens to an empty queue. *)
tqueue_remove_top(q) == IF q = <<>> THEN q ELSE Tail(q)

(* Unlink TCB t, which is linked in q (the callers' obligation). *)
tqueue_remove_entry(q, t) == Entries(q, Range(q) \ {t})

NoDuplicates(q) == \A i, j \in 1..Len(q) : q[i] = q[j] => i = j
=============================================================================
