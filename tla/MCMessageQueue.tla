--------------------------- MODULE MCMessageQueue ---------------------------
(* MessageQueue on a small instance. *)
EXTENDS MessageQueue, TLC

CONSTANTS t1, t2, t3, q1

MCTask    == {t1, t2, t3}
MCBasePri == t1 :> 1 @@ t2 :> 2 @@ t3 :> 2
MCTimes   == {-1, 1}
One       == {q1}
OneSize   == q1 :> 2
=============================================================================
