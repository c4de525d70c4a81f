-------------------------- MODULE MCTaskQueueList --------------------------
(* TaskQueueList on small instances. *)
EXTENDS TaskQueueList, Sequences, TLC

TQ == INSTANCE TaskQueue

(* Entries is the standard selection, on every queue of up to four entries. *)
ASSUME EntriesSelects ==
  \A S \in SUBSET Task, n \in 0..4 : \A q \in [1..n -> Task] :
    TQ!Entries(q, S) = SelectSeq(q, LAMBDA t : t \in S)
=============================================================================
