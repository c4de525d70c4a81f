------------------------------ MODULE MCI2cBus ------------------------------
(* I2cBus on a small instance: pages of one column, calibrations of two    *)
(* readings, and two faults, so that the retry can fail, too.              *)
EXTENDS I2cBus, TLC

MCPriority == "rx" :> 4 @@ "inapower" :> 10 @@ "lcdtemp" :> 11

(* A time-out at the start of an attempt, and an abort while it reads. *)
MCFailures == {[stage |-> "enable", aborted |-> FALSE],
               [stage |-> "rx", aborted |-> TRUE]}
=============================================================================
