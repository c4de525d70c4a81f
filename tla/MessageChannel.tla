--------------------------- MODULE MessageChannel ---------------------------
(***************************************************************************)
(* What a fixed-length message queue promises: a first-in first-out channel*)
(* for at most `size` messages that neither loses, duplicates nor reorders *)
(* what it accepted.  `inbox` shows what the last step delivered to each   *)
(* task, NOMSG for nothing.  A message may pass through an empty channel,  *)
(* or move up into a full one as another leaves it, in one step.           *)
(***************************************************************************)
EXTENDS Naturals, Sequences

CONSTANTS Task, Msg, NOMSG, size

VARIABLES chan, inbox

vars == <<chan, inbox>>

Nothing    == [t \in Task |-> NOMSG]
Deliver(m) == \E t \in Task : inbox' = [Nothing EXCEPT ![t] = m]

Init == chan = <<>> /\ inbox = Nothing

Put ==
  /\ Len(chan) < size
  /\ \E m \in Msg : chan' = Append(chan, m)
  /\ inbox' = Nothing

Get == chan # <<>> /\ Deliver(Head(chan)) /\ chan' = Tail(chan)

PutGet == chan = <<>> /\ (\E m \in Msg : Deliver(m)) /\ UNCHANGED chan

GetPut ==
  /\ Len(chan) = size
  /\ Deliver(Head(chan))
  /\ \E m \in Msg : chan' = Append(Tail(chan), m)

(* The channel is left alone. *)
Rest == inbox' = Nothing /\ UNCHANGED chan

Next == Put \/ Get \/ PutGet \/ GetPut \/ Rest

Spec == Init /\ [][Next]_vars
=============================================================================
