---------------------------- MODULE MCFlashLog -----------------------------
(* FlashLog on a small instance: a sector of two records and a queue of    *)
(* one message.                                                            *)
EXTENDS FlashLog, TLC

MCPriority == "flashlog" :> 3 @@ "rx" :> 4 @@ "mpuirq" :> 9
=============================================================================
