---------------------------- MODULE MessageQueue ----------------------------
(***************************************************************************)
(* A fixed-length message queue (src/kernel/message_queue.c) on top of the *)
(* kernel core: a ring buffer, direct hand-over to a waiting receiver, and *)
(* waiting senders whose messages move up when one is received.  Only      *)
(* tasks send and receive.  The grain of atomicity is that of Kernel.tla.  *)
(***************************************************************************)
EXTENDS Kernel

CONSTANTS
  Msgq,      \* the MSGQCBs, one for each T_CMSGQ passed to tk_cre_msgq
  maxmsg,    \* maxmsg of each T_CMSGQ
  Msg,       \* the messages
  NOMSG,     \* the contents of a buffer nothing was stored in
  MsgWaits   \* bound: the TMOs passed to tk_snd_msgq and tk_rcv_msgq

ASSUME MessageQueueAssumption ==
  /\ maxmsg \in [Msgq -> Nat \ {0}]
  /\ NONE \notin Msgq /\ NOMSG \notin Msg
  /\ MsgWaits \subseteq Nat \cup {TMO_FEVR}
  /\ {"SND_MSGQ", "RCV_MSGQ"} \subseteq WaitFactor

VARIABLES
  msgqst,             \* state of the MSGQCB: "NONEXIST" or "EXIST"
  buffer,             \* the cells of the message area
  count, head, tail,  \* messages stored, where to read and where to write
  waiobj,             \* TCB: the queue the task waits for; NONE if none
  sndmsg,             \* TCB: the message of a waiting sender
  rcvmsg              \* history: the message of each queue that the last step
                      \* wrote into each task's buffer, NOMSG for none

ringVars == <<buffer, count, head, tail>>
msgqVars == <<msgqst, ringVars, waiobj, sndmsg, rcvmsg>>
messageQueueVars == <<kernelVars, msgqVars>>

Unwritten == [q \in Msgq |-> [t \in Task |-> NOMSG]]

(* find_waiting_task: the tasks in the order in which it finds them. *)
MsgqWaiters(fct, q) == Entries(wait_queue, {t \in Task : waifct[t] = fct /\ waiobj[t] = q})

(* Mutant: the ring has a cell too many. *)
Successor_late(q, i) == IF i + 1 > maxmsg[q] THEN 0 ELSE i + 1

Successor(q, i) == IF i + 1 >= maxmsg[q] THEN 0 ELSE i + 1

(* enqueue_message and dequeue_message.  Their count++ and count-- are in   *)
(* the calls: tk_rcv_msgq makes both when a sender moves up.               *)

(* Mutant: the place to write advances before the message is written. *)
enqueue_message_ahead(q, m) ==
  /\ buffer' = [buffer EXCEPT ![q][Successor(q, tail[q])] = m]
  /\ tail'   = [tail EXCEPT ![q] = Successor(q, @)]

enqueue_message(q, m) ==
  /\ buffer' = [buffer EXCEPT ![q][tail[q]] = m]
  /\ tail'   = [tail EXCEPT ![q] = Successor(q, @)]

dequeue_message(q) ==
  /\ rcvmsg' = [Unwritten EXCEPT ![q][cur_task] = buffer[q][head[q]]]
  /\ head'   = [head EXCEPT ![q] = Successor(q, @)]

(* Mutant: the wait ends with the code of a time-out. *)
make_ready_late(t) ==
  /\ Release({t}, [u \in Task |-> "E_TMOUT"])
  /\ waitim' = [waitim EXCEPT ![t] = 0]
  /\ waiobj' = [waiobj EXCEPT ![t] = NONE]
  /\ sndmsg' = [sndmsg EXCEPT ![t] = NOMSG]
  /\ UNCHANGED <<itskpri, wupcnt, cpuVars>>

(* make_ready and the scheduler() that follows it. *)
make_ready(t) ==
  /\ Release({t}, [u \in Task |-> "E_OK"])
  /\ waitim' = [waitim EXCEPT ![t] = 0]
  /\ waiobj' = [waiobj EXCEPT ![t] = NONE]
  /\ sndmsg' = [sndmsg EXCEPT ![t] = NOMSG]
  /\ UNCHANGED <<itskpri, wupcnt, cpuVars>>

(* The caller waits; m is the message it wants to send, if any. *)
WaitFor(fct, q, tmout, m) ==
  /\ tmout # TMO_POL
  /\ Suspend(fct, WaitTime(tmout))
  /\ waiobj' = [waiobj EXCEPT ![cur_task] = q]
  /\ sndmsg' = [sndmsg EXCEPT ![cur_task] = m]
  /\ UNCHANGED <<itskpri, wupcnt, cpuVars>>

tk_cre_msgq(q) ==
  /\ InTask
  /\ msgqst[q] = "NONEXIST"
  /\ msgqst' = [msgqst EXCEPT ![q] = "EXIST"]
  /\ count' = [count EXCEPT ![q] = 0]
  /\ head'  = [head EXCEPT ![q] = 0]
  /\ tail'  = [tail EXCEPT ![q] = 0]
  /\ rcvmsg' = Unwritten
  /\ UNCHANGED <<kernelVars, buffer, waiobj, sndmsg>>

(* Mutant: a waiting receiver is not looked for. *)
tk_snd_msgq_buffers(q, m, tmout) ==
  /\ InTask
  /\ msgqst[q] = "EXIST"
  /\ \/ /\ count[q] < maxmsg[q]
        /\ enqueue_message(q, m)
        /\ count' = [count EXCEPT ![q] = @ + 1]
        /\ UNCHANGED <<kernelVars, head, waiobj, sndmsg>>
        /\ rcvmsg' = Unwritten
     \/ /\ count[q] >= maxmsg[q]
        /\ WaitFor("SND_MSGQ", q, tmout, m)
        /\ UNCHANGED ringVars
        /\ rcvmsg' = Unwritten
  /\ UNCHANGED msgqst

(* To a waiting receiver, into the buffer, or into the caller's wait;      *)
(* E_TMOUT, without effect, for a poll of a full queue.                    *)
tk_snd_msgq(q, m, tmout) ==
  LET receivers == MsgqWaiters("RCV_MSGQ", q)
  IN  /\ InTask
      /\ msgqst[q] = "EXIST"
      /\ \/ /\ receivers # <<>>
            /\ rcvmsg' = [Unwritten EXCEPT ![q][Head(receivers)] = m]
            /\ make_ready(Head(receivers))
            /\ UNCHANGED ringVars
         \/ /\ receivers = <<>> /\ count[q] < maxmsg[q]
            /\ enqueue_message(q, m)
            /\ count' = [count EXCEPT ![q] = @ + 1]
            /\ UNCHANGED <<kernelVars, head, waiobj, sndmsg>>
            /\ rcvmsg' = Unwritten
         \/ /\ receivers = <<>> /\ count[q] >= maxmsg[q]
            /\ WaitFor("SND_MSGQ", q, tmout, m)
            /\ UNCHANGED ringVars
            /\ rcvmsg' = Unwritten
      /\ UNCHANGED msgqst

(* From the buffer, whose free cell goes to the first waiting sender, or   *)
(* into the caller's wait; E_TMOUT, without effect, for a poll of an empty *)
(* queue.                                                                  *)
tk_rcv_msgq(q, tmout) ==
  LET senders == MsgqWaiters("SND_MSGQ", q)
  IN  /\ InTask
      /\ msgqst[q] = "EXIST"
      /\ \/ /\ count[q] > 0 /\ senders # <<>>
            /\ dequeue_message(q)
            /\ enqueue_message(q, sndmsg[Head(senders)])
            /\ make_ready(Head(senders))
            /\ UNCHANGED count
         \/ /\ count[q] > 0 /\ senders = <<>>
            /\ dequeue_message(q)
            /\ count' = [count EXCEPT ![q] = @ - 1]
            /\ UNCHANGED <<kernelVars, buffer, tail, waiobj, sndmsg>>
         \/ /\ count[q] = 0
            /\ WaitFor("RCV_MSGQ", q, tmout, NOMSG)
            /\ UNCHANGED ringVars
            /\ rcvmsg' = Unwritten
      /\ UNCHANGED msgqst

(***************************************************************************)
(* Specification.                                                          *)
(***************************************************************************)
MessageInit ==
  /\ KernelInit
  /\ msgqst = [q \in Msgq |-> "NONEXIST"]
  /\ buffer = [q \in Msgq |-> [i \in 0..(maxmsg[q] - 1) |-> NOMSG]]
  /\ count = [q \in Msgq |-> 0]
  /\ head  = [q \in Msgq |-> 0]
  /\ tail  = [q \in Msgq |-> 0]
  /\ waiobj = [t \in Task |-> NONE]
  /\ sndmsg = [t \in Task |-> NOMSG]
  /\ rcvmsg = Unwritten

MessageCall ==
  \E q \in Msgq : \/ tk_cre_msgq(q)
                  \/ \E tmout \in MsgWaits : \/ tk_rcv_msgq(q, tmout)
                                             \/ \E m \in Msg : tk_snd_msgq(q, m, tmout)

(* A time-out ends a wait for the queue. *)
MessageKernelStep ==
  /\ KernelNext
  /\ waiobj' = [t \in Task |-> IF waifct'[t] = waifct[t] THEN waiobj[t] ELSE NONE]
  /\ sndmsg' = [t \in Task |-> IF waifct'[t] = waifct[t] THEN sndmsg[t] ELSE NOMSG]
  /\ rcvmsg' = Unwritten
  /\ UNCHANGED <<msgqst, ringVars>>

MessageNext == MessageCall \/ MessageKernelStep

MessageSpec == MessageInit /\ [][MessageNext]_messageQueueVars

(***************************************************************************)
(* Properties.                                                             *)
(***************************************************************************)
MsgqTypeOK ==
  /\ msgqst \in [Msgq -> {"NONEXIST", "EXIST"}]
  /\ \A q \in Msgq : /\ buffer[q] \in [0..(maxmsg[q] - 1) -> Msg \cup {NOMSG}]
                     /\ count[q] \in 0..maxmsg[q]
                     /\ head[q] \in 0..(maxmsg[q] - 1) /\ tail[q] \in 0..(maxmsg[q] - 1)
  /\ waiobj \in [Task -> Msgq \cup {NONE}]
  /\ sndmsg \in [Task -> Msg \cup {NOMSG}]
  /\ rcvmsg \in [Msgq -> [Task -> Msg \cup {NOMSG}]]

(* The messages stored in queue q, oldest first. *)
Contents(q) == [k \in 1..count[q] |-> buffer[q][(head[q] + k - 1) % maxmsg[q]]]

(* Nobody waits without need: receivers wait only for an empty queue and   *)
(* senders only for a full one, so never both; a message sent, received or *)
(* given up between two context switches leaves no task behind.            *)
NoNeedlessWait ==
  \A q \in Msgq : /\ MsgqWaiters("RCV_MSGQ", q) # <<>> => count[q] = 0
                  /\ MsgqWaiters("SND_MSGQ", q) # <<>> => count[q] = maxmsg[q]

(* E_OK ends only the first wait, and means for a sender that its message  *)
(* is now the last one in the queue, for a receiver that it has a message. *)
(* A time-out leaves nothing of the message in the queue and takes none.   *)
WaitsEndInOrder ==
  [][\A q \in Msgq, fct \in {"SND_MSGQ", "RCV_MSGQ"} :
       LET W == MsgqWaiters(fct, q) IN
       \A k \in 1..Len(W) : state'[W[k]] = "READY" =>
         \/ /\ waierr'[W[k]] = "E_OK" /\ k = 1
            /\ IF fct = "SND_MSGQ" THEN Contents(q)'[maxmsg[q]] = sndmsg[W[k]]
                                   ELSE rcvmsg'[q][W[k]] # NOMSG
         \/ waierr'[W[k]] = "E_TMOUT" /\ UNCHANGED ringVars /\ rcvmsg' = Unwritten]_messageQueueVars

(* Each message queue is a FIFO channel: \A q : Channel(q)!Spec, in the     *)
(* form TLC can check.                                                     *)
Channel(q) == INSTANCE MessageChannel WITH
                chan <- Contents(q), size <- maxmsg[q], inbox <- rcvmsg[q]

ImplementsChannels ==
  /\ \A q \in Msgq : Channel(q)!Init
  /\ [][\A q \in Msgq : [Channel(q)!Next]_(Channel(q)!vars)]_messageQueueVars
=============================================================================
