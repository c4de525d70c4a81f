---------------------------- MODULE OutputQueue ----------------------------
(* What a queue of output messages promises: messages leave in the order   *)
(* in which they entered, each once; one that meets a full queue is        *)
(* counted as lost.                                                        *)
EXTENDS Naturals, Sequences

CONSTANTS Msg, Size

VARIABLES chan, lost

Init == chan = <<>> /\ lost = 0

Send(m) == Len(chan) < Size /\ chan' = Append(chan, m) /\ UNCHANGED lost
Lose    == Len(chan) = Size /\ lost' = lost + 1 /\ UNCHANGED chan
Receive == chan # <<>> /\ chan' = Tail(chan) /\ UNCHANGED lost

Next == Lose \/ Receive \/ \E m \in Msg : Send(m)

Spec == Init /\ [][Next]_<<chan, lost>>
=============================================================================
