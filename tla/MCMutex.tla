------------------------------ MODULE MCMutex ------------------------------
(* Mutex on a small instance. *)
EXTENDS Mutex, TLC

CONSTANTS t1, t2, t3

MCTask    == {t1, t2, t3}
MCTable   == <<t1, t2, t3>>
MCBasePri == t1 :> 1 @@ t2 :> 2 @@ t3 :> 3
MCAttrs    == {"TA_INHERIT", "TA_TFIFO"}
MCMtxWaits == {-1, 1}
MCDelays   == {1}
=============================================================================
