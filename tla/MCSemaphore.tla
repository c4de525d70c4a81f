---------------------------- MODULE MCSemaphore ----------------------------
(* Semaphore on a small instance: one task above two others, and           *)
(* interrupt handlers that return units at any time.                       *)
EXTENDS Semaphore, TLC

CONSTANTS t1, t2, t3, s1, s2

MCTask    == {t1, t2, t3}
MCBasePri == t1 :> 1 @@ t2 :> 2 @@ t3 :> 2
MCSem     == {s1, s2}
MCInitSem == s1 :> 1 @@ s2 :> 0
MCMaxSem  == s1 :> 2 @@ s2 :> 1
MCCounts  == {1, 2}
MCTimes   == {-1, 1}
=============================================================================
