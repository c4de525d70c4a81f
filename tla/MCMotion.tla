------------------------------ MODULE MCMotion ------------------------------
(* Motion with two samples to detect motion and ten to miss it (three for  *)
(* DarkWhenOff), and two readings of a calibration.                        *)
EXTENDS Motion, TLC

MCPriority == "rx" :> 4 @@ "mpuirq" :> 9 @@ "led" :> 13
=============================================================================
