------------------------------ MODULE MCKernel ------------------------------
(* Kernel with KernelTime's history on a small instance: two tasks of one  *)
(* priority below a third.  A tick is two units long; the times are less   *)
(* than a tick, and a tick.                                                *)
EXTENDS KernelTime, TLC

CONSTANTS t1, t2, t3

MCTask       == {t1, t2, t3}
MCBasePri    == t1 :> 1 @@ t2 :> 2 @@ t3 :> 2
MCDelays     == {2}
MCSleepTimes == {-1, 1}

TimeFairSpec == TimeSpec /\ KernelFairness
=============================================================================
