------------------------------- MODULE MCUart -------------------------------
(* Uart on a small instance: a reporter above the console and one below    *)
(* both tasks, and rings of two cells.                                     *)
EXTENDS Uart, TLC

MCPriority == "hi" :> 3 @@ "rx" :> 4 @@ "tx" :> 6 @@ "lo" :> 8
=============================================================================
