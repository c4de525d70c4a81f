---------------------------- MODULE Uart_proofs ----------------------------
(***************************************************************************)
(* Proofs about Uart, for any senders and priorities, any sizes of the     *)
(* rings, and any input: the lock on the transmitter keeps the texts that  *)
(* the receiving and the transmitting task print apart, the transmit queue *)
(* implements OutputQueue, and the receive ring loses nothing uncounted.   *)
(***************************************************************************)
EXTENDS Uart, SequenceTheorems, WellFoundedInduction, TLAPS

Printing == {"puts", "release"}

(* The semaphore is free and nobody prints; or one of the two tasks prints *)
(* and the other one does something else or waits for it.                  *)
LockStates ==
  \/ /\ sem["sync"] = [cnt |-> 1, wai |-> <<>>]
     /\ pc["rx"] \notin Printing /\ pc["tx"] \notin Printing
  \/ /\ sem["sync"] = [cnt |-> 0, wai |-> <<>>]
     /\ pc["rx"] \in Printing <=> pc["tx"] \notin Printing
  \/ /\ sem["sync"] = [cnt |-> 0, wai |-> <<"rx">>]
     /\ pc["rx"] = "puts" /\ pc["tx"] \in Printing
  \/ /\ sem["sync"] = [cnt |-> 0, wai |-> <<"tx">>]
     /\ pc["tx"] = "puts" /\ pc["rx"] \in Printing

LockInv ==
  /\ pc = [t \in Task |-> pc[t]]
  /\ sem = [s \in {"queue", "sync"} |-> sem[s]]
  /\ ret \in [{"rx", "tx"} -> {"wait", "receive", "getc"}]
  /\ LockStates

LEMMA StepFacts ==
  ASSUME NEW t, NEW from, NEW to, Step(t, from, to)
  PROVE  t \in Task /\ t \notin ToSet(sem["sync"].wai) /\ pc[t] = from /\ pc' = [pc EXCEPT ![t] = to]
BY DEF Step, Runs, Ready

LEMMA SetsOfOne == ToSet(<<>>) = {} /\ \A x : ToSet(<<x>>) = {x}
BY DEF ToSet

(* A step that neither begins nor ends the printing of a text.             *)
LEMMA MovePreserves ==
  ASSUME LockInv, NEW t, NEW from, NEW to, Step(t, from, to),
         from \in Printing <=> to \in Printing,
         sem' = [s \in {"queue", "sync"} |-> sem'[s]], sem'["sync"] = sem["sync"],
         ret' \in [{"rx", "tx"} -> {"wait", "receive", "getc"}]
  PROVE  LockInv'
<1>1. t \in Task /\ t \notin ToSet(sem["sync"].wai) /\ pc[t] = from /\ pc' = [pc EXCEPT ![t] = to]
  BY StepFacts
<1>2. pc' = [u \in Task |-> pc'[u]] /\ \A u \in Task : pc'[u] = IF u = t THEN to ELSE pc[u]
  BY <1>1 DEF LockInv
<1>3. "rx" \in Task /\ "tx" \in Task
  BY DEF Task
<1>4. LockStates'
  BY <1>1, <1>2, <1>3, SetsOfOne DEF LockInv, LockStates, Printing
<1> QED BY <1>2, <1>4 DEF LockInv

LEMMA QueueCallPreserves ==
  ASSUME LockInv, NEW t, Wait("queue", t) \/ Signal("queue")
  PROVE  sem' = [s \in {"queue", "sync"} |-> sem'[s]] /\ sem'["sync"] = sem["sync"]
BY DEF LockInv, Wait, Signal

LEMMA PutTextPreserves ==
  ASSUME LockInv, NEW t \in {"rx", "tx"}, PutText(t)
  PROVE  LockInv'
<1>1. "rx" \in Task /\ "tx" \in Task
  BY DEF Task
<1>2. CASE Step(t, "lock", "puts") /\ Wait("sync", t) /\ UNCHANGED <<ret, todo, dataVars>>
  <2>1. /\ pc[t] = "lock" /\ pc' = [pc EXCEPT ![t] = "puts"] /\ ret' = ret
        /\ sem' = [sem EXCEPT !["sync"] = tk_wai_sem(@, t)]
    BY <1>2, StepFacts DEF Wait
  <2>2. /\ pc' = [u \in Task |-> pc'[u]]
        /\ \A u \in Task : pc'[u] = IF u = t THEN "puts" ELSE pc[u]
        /\ sem' = [s \in {"queue", "sync"} |-> sem'[s]]
        /\ sem'["sync"] = tk_wai_sem(sem["sync"], t)
    BY <2>1 DEF LockInv
  <2>3. pc["rx"] \notin Printing \/ pc["tx"] \notin Printing
    BY <2>1 DEF Printing
  <2>4. ASSUME sem["sync"] = [cnt |-> 1, wai |-> <<>>] PROVE LockStates'
    <3>1. sem'["sync"] = [cnt |-> 0, wai |-> <<>>]
      BY <2>2, <2>4 DEF tk_wai_sem
    <3>2. pc'["rx"] \in Printing <=> pc'["tx"] \notin Printing
      BY <1>1, <2>2, <2>4 DEF LockInv, LockStates, Printing
    <3> QED BY <3>1, <3>2 DEF LockStates
  <2>5. ASSUME sem["sync"] = [cnt |-> 0, wai |-> <<>>] PROVE LockStates'
    <3>1. Append(<<>>, t) = <<t>>
      OBVIOUS
    <3>2. sem'["sync"] = [cnt |-> 0, wai |-> <<t>>]
      BY <2>2, <2>5, <3>1 DEF tk_wai_sem
    <3>3. pc["rx"] \in Printing <=> pc["tx"] \notin Printing
      BY <2>5 DEF LockInv, LockStates
    <3>4. CASE t = "rx"
      BY <1>1, <2>1, <2>2, <3>2, <3>3, <3>4 DEF LockStates, Printing
    <3>5. CASE t = "tx"
      BY <1>1, <2>1, <2>2, <3>2, <3>3, <3>5 DEF LockStates, Printing
    <3> QED BY <3>4, <3>5
  <2>6. LockStates'
    BY <2>3, <2>4, <2>5 DEF LockInv, LockStates, Printing
  <2> QED BY <2>1, <2>2, <2>6 DEF LockInv
<1>3. CASE Step(t, "puts", "release") /\ UNCHANGED <<ret, todo, sem, flg, dataVars>>
  BY <1>3, MovePreserves DEF LockInv, Printing
<1>4. CASE Step(t, "release", ret[t]) /\ Signal("sync") /\ UNCHANGED <<ret, todo, dataVars>>
  <2>1. /\ pc[t] = "release" /\ pc' = [pc EXCEPT ![t] = ret[t]] /\ ret' = ret
        /\ sem' = [sem EXCEPT !["sync"] = tk_sig_sem(@)]
    BY <1>4, StepFacts DEF Signal
  <2>2. /\ pc' = [u \in Task |-> pc'[u]]
        /\ \A u \in Task : pc'[u] = IF u = t THEN ret[t] ELSE pc[u]
        /\ sem' = [s \in {"queue", "sync"} |-> sem'[s]]
        /\ sem'["sync"] = tk_sig_sem(sem["sync"])
    BY <2>1 DEF LockInv
  <2>3. ret[t] \notin Printing
    BY DEF LockInv, Printing
  <2>4. ASSUME sem["sync"] = [cnt |-> 0, wai |-> <<>>] PROVE LockStates'
    <3>1. sem'["sync"] = [cnt |-> 1, wai |-> <<>>]
      BY <2>2, <2>4 DEF tk_sig_sem
    <3>2. pc'["rx"] \notin Printing /\ pc'["tx"] \notin Printing
      BY <1>1, <2>1, <2>2, <2>3, <2>4 DEF LockInv, LockStates, Printing
    <3> QED BY <3>1, <3>2 DEF LockStates
  <2>5. ASSUME NEW u \in {"rx", "tx"}, u # t, sem["sync"] = [cnt |-> 0, wai |-> <<u>>],
               pc[u] = "puts"
        PROVE  LockStates'
    <3>1. Tail(<<u>>) = <<>> /\ <<u>> # <<>>
      OBVIOUS
    <3>2. sem'["sync"] = [cnt |-> 0, wai |-> <<>>]
      BY <2>2, <2>5, <3>1 DEF tk_sig_sem
    <3>3. pc'[u] \in Printing /\ pc'[t] \notin Printing
      BY <1>1, <2>2, <2>3, <2>5 DEF Printing
    <3>4. pc'["rx"] \in Printing <=> pc'["tx"] \notin Printing
      BY <2>5, <3>3
    <3> QED BY <3>2, <3>4 DEF LockStates
  <2>6. LockStates'
    BY <2>1, <2>4, <2>5 DEF LockInv, LockStates, Printing
  <2> QED BY <2>1, <2>2, <2>6 DEF LockInv
<1> QED BY <1>2, <1>3, <1>4 DEF PutText

LEMMA SendPreserves ==
  ASSUME LockInv, NEW t \in Task, uart_tx_send(t)
  PROVE  LockInv'
<1>1. \A s : s \in {"link", "refuse", "push", "unlock", "notify", "send", "idle", "wait", "receive", "getc"}
              => s \notin Printing
  BY DEF Printing
<1>2. CASE Step(t, "send", "push") /\ Wait("queue", t) /\ UNCHANGED <<ret, todo, dataVars>>
  BY <1>1, <1>2, MovePreserves, QueueCallPreserves DEF LockInv
<1>3. CASE uart_tx_queue_push(t)
  BY <1>1, <1>3, MovePreserves DEF LockInv, uart_tx_queue_push
<1>4. CASE uart_tx_count_up(t)
  BY <1>1, <1>4, MovePreserves DEF LockInv, uart_tx_count_up
<1>5. ASSUME NEW from, from \notin Printing, Sent(t, from), ret' = ret,
             sem' = [s \in {"queue", "sync"} |-> sem'[s]], sem'["sync"] = sem["sync"]
      PROVE  LockInv'
  <2> DEFINE to == IF todo[t] > 1 THEN "send" ELSE IF t = "rx" THEN ret["rx"] ELSE "idle"
  <2>1. to \notin Printing
    BY <1>1 DEF LockInv
  <2>2. Step(t, from, to)
    BY <1>5 DEF Sent
  <2> HIDE DEF to
  <2> QED BY <1>5, <2>1, <2>2, MovePreserves DEF LockInv
<1>6. CASE Sent(t, "refuse") /\ Signal("queue") /\ UNCHANGED <<ret, dataVars>>
  BY <1>1, <1>5, <1>6, QueueCallPreserves
<1>7. CASE Step(t, "unlock", "notify") /\ Signal("queue") /\ UNCHANGED <<ret, todo, dataVars>>
  BY <1>1, <1>7, MovePreserves, QueueCallPreserves DEF LockInv
<1>8. CASE /\ Sent(t, "notify") /\ flg' = [flg EXCEPT !["tx"] = tk_set_flg(@)]
           /\ UNCHANGED <<ret, sem, dataVars>>
  BY <1>1, <1>5, <1>8 DEF LockInv
<1> QED BY <1>2, <1>3, <1>4, <1>6, <1>7, <1>8 DEF uart_tx_send

LEMMA TransmitPreserves == LockInv /\ task_uarttx => LockInv'
<1> SUFFICES ASSUME LockInv, task_uarttx PROVE LockInv'
  OBVIOUS
<1>1. \A s : s \in {"start", "lock", "wait", "receive", "pop", "empty", "unlink", "received"}
              => s \notin Printing
  BY DEF Printing
<1>2. CASE Step("tx", "start", "lock") /\ UNCHANGED <<ret, todo, sem, flg, dataVars>>
  BY <1>1, <1>2, MovePreserves DEF LockInv
<1>3. CASE uart_tx_wait
  <2>1. ret' \in [{"rx", "tx"} -> {"wait", "receive", "getc"}]
    BY <1>3 DEF LockInv, uart_tx_wait
  <2> QED BY <1>1, <1>3, <2>1, MovePreserves DEF LockInv, uart_tx_wait
<1>4. CASE Step("tx", "receive", "pop") /\ Wait("queue", "tx") /\ UNCHANGED <<ret, todo, dataVars>>
  BY <1>1, <1>4, MovePreserves, QueueCallPreserves DEF LockInv
<1>5. CASE uart_tx_queue_pop
  BY <1>1, <1>5, MovePreserves DEF LockInv, uart_tx_queue_pop
<1>6. CASE uart_tx_count_down
  BY <1>1, <1>6, MovePreserves DEF LockInv, uart_tx_count_down
<1>7. CASE Step("tx", "empty", "wait") /\ Signal("queue") /\ UNCHANGED <<ret, todo, dataVars>>
  BY <1>1, <1>7, MovePreserves, QueueCallPreserves DEF LockInv
<1>8. CASE Step("tx", "received", "lock") /\ Signal("queue") /\ UNCHANGED <<ret, todo, dataVars>>
  BY <1>1, <1>8, MovePreserves, QueueCallPreserves DEF LockInv
<1>9. CASE PutText("tx")
  BY <1>9, PutTextPreserves
<1> QED BY <1>2, <1>3, <1>4, <1>5, <1>6, <1>7, <1>8, <1>9 DEF task_uarttx, uart_tx_receive

LEMMA ReceivePreserves == LockInv /\ task_uartrx => LockInv'
<1> SUFFICES ASSUME LockInv, task_uartrx PROVE LockInv'
  OBVIOUS
<1>1. \A s : s \in {"start", "send", "wait", "getc", "advance", "input", "lock"} => s \notin Printing
  BY DEF Printing
<1>2. CASE StartRx
  BY <1>1, <1>2, MovePreserves DEF LockInv, StartRx
<1>3. CASE WaitForInput
  <2>1. ret' \in [{"rx", "tx"} -> {"wait", "receive", "getc"}]
    BY <1>3 DEF LockInv, WaitForInput
  <2> QED BY <1>1, <1>3, <2>1, MovePreserves DEF LockInv, WaitForInput
<1>4. CASE uart_rx_getc
  BY <1>1, <1>4, MovePreserves DEF LockInv, uart_rx_getc
<1>5. CASE uart_rx_advance
  BY <1>1, <1>5, MovePreserves DEF LockInv, uart_rx_advance
<1>6. CASE console_input_char
  <2>1. ret' = ret /\ sem' = sem
    BY <1>6 DEF console_input_char
  <2>2. Step("rx", "input", "send") \/ Step("rx", "input", "getc") \/ Step("rx", "input", "lock")
    BY <1>6 DEF console_input_char, Execute, Edit
  <2> QED BY <1>1, <2>1, <2>2, MovePreserves DEF LockInv
<1>7. CASE PutText("rx")
  BY <1>7, PutTextPreserves
<1>8. CASE uart_tx_send("rx")
  BY <1>8, SendPreserves DEF Task
<1> QED BY <1>2, <1>3, <1>4, <1>5, <1>6, <1>7, <1>8 DEF task_uartrx

LEMMA UnchangedPreserves ==
  ASSUME LockInv, pc' = pc, sem' = sem, ret' = ret
  PROVE  LockInv'
BY DEF LockInv, LockStates

(* A report begins with the sender, which is neither rx nor tx, at "send". *)
LEMMA ReportPreserves ==
  ASSUME LockInv, NEW t \in Sender, Report(t)
  PROVE  LockInv'
<1>1. pc[t] = "idle" /\ pc' = [pc EXCEPT ![t] = "send"] /\ sem' = sem /\ ret' = ret
  BY DEF Report
<1>2. pc' = [u \in Task |-> pc'[u]] /\ \A u \in Task : pc'[u] = IF u = t THEN "send" ELSE pc[u]
  BY <1>1 DEF LockInv
<1>3. "rx" \in Task /\ "tx" \in Task
  BY DEF Task
<1>4. ASSUME NEW u \in {"rx", "tx"}
      PROVE  pc'[u] = pc[u] \/ (pc[u] \notin Printing /\ pc'[u] \notin Printing)
  BY <1>1, <1>2, <1>3 DEF Printing
<1>5. LockStates'
  <2>1. /\ pc'["rx"] = pc["rx"] \/ (pc["rx"] \notin Printing /\ pc'["rx"] \notin Printing)
        /\ pc'["tx"] = pc["tx"] \/ (pc["tx"] \notin Printing /\ pc'["tx"] \notin Printing)
    BY <1>4
  <2> QED BY <1>1, <2>1 DEF LockInv, LockStates, Printing
<1> QED BY <1>1, <1>2, <1>5 DEF LockInv

(* One of the two tasks prints at a time, whoever preempts whom.           *)
THEOREM PrinterLock == Spec => []LockInv
<1>1. Init => LockInv
  BY DEF Init, LockInv, LockStates, Printing, FreeSem, Task
<1>2. LockInv /\ [Next]_vars => LockInv'
  <2> SUFFICES ASSUME LockInv, [Next]_vars PROVE LockInv'
    OBVIOUS
  <2>1. CASE task_uartrx
    BY <2>1, ReceivePreserves
  <2>2. CASE task_uarttx
    BY <2>2, TransmitPreserves
  <2>3. ASSUME NEW t \in Sender, uart_tx_send(t) PROVE LockInv'
    BY <2>3, SendPreserves DEF Task
  <2>4. CASE Type
    <3>1. pc' = pc /\ sem' = sem /\ ret' = ret
      BY <2>4 DEF Type, uart0_irq_handler, taskVars
    <3> QED BY <3>1, UnchangedPreserves
  <2>5. ASSUME NEW t \in Sender, Report(t) PROVE LockInv'
    BY <2>5, ReportPreserves
  <2>6. CASE UNCHANGED vars
    BY <2>6, UnchangedPreserves DEF vars, taskVars
  <2> QED BY <2>1, <2>2, <2>3, <2>4, <2>5, <2>6 DEF Next, TaskStep
<1> QED BY <1>1, <1>2, PTL DEF Spec

(* No text is printed into the middle of another one: of the two tasks     *)
(* that use the transmitter at most one is at its characters without       *)
(* waiting for the lock (uart_sync_lock, uart_sync_unlock).                *)
THEOREM TextsStayWhole == Spec => []MessagesStayWhole
<1>1. LockInv => MessagesStayWhole
  BY SetsOfOne DEF LockInv, LockStates, MessagesStayWhole, Printing
<1> QED BY <1>1, PrinterLock, PTL

(***************************************************************************)
(* The transmit queue.  Its semaphore is free and nobody is between lock   *)
(* and unlock; or one task is, and the others there wait, each once, and   *)
(* have not begun.                                                         *)
(***************************************************************************)
Calling == {"push", "link", "refuse", "unlock", "pop", "unlink", "empty", "received"}

Waits(t) == \E i \in 1..Len(sem["queue"].wai) : sem["queue"].wai[i] = t

QueueTurn ==
  /\ sem["queue"] = [cnt |-> sem["queue"].cnt, wai |-> sem["queue"].wai]
  /\ sem["queue"].wai \in Seq(Task)
  /\ \A i, j \in 1..Len(sem["queue"].wai) :
       sem["queue"].wai[i] = sem["queue"].wai[j] => i = j
  /\ \A t \in Task : Waits(t) => pc[t] \in {"push", "pop"}
  /\ \/ /\ sem["queue"].cnt = 1 /\ sem["queue"].wai = <<>>
        /\ \A t \in Task : pc[t] \notin Calling
     \/ /\ sem["queue"].cnt = 0
        /\ \E o \in Task : /\ pc[o] \in Calling /\ ~Waits(o)
                           /\ \A t \in Task : pc[t] \in Calling => t = o \/ Waits(t)

Rings ==
  [queue : [0..QueueSize - 1 -> Task], text : Task, head : 0..QueueSize - 1,
   tail : 0..QueueSize - 1, count : 0..QueueSize, overflow : Nat]

(* The ring, and what the task whose turn it is has found there. *)
Ring ==
  /\ tx \in Rings
  /\ tx.head = (tx.tail + tx.count) % QueueSize
  /\ \A t \in Task : /\ pc[t] = "link" => tx.count < QueueSize
                     /\ pc[t] = "unlink" => tx.count > 0

QueueInv == LockInv /\ QueueTurn /\ Ring

(* Who executes does not wait; the others stay where they are. *)
LEMMA TurnFacts ==
  ASSUME QueueInv, NEW t, NEW from, NEW to, Step(t, from, to)
  PROVE  /\ t \in Task /\ ~Waits(t) /\ pc[t] = from /\ pc'[t] = to
         /\ \A u \in Task : u # t => pc'[u] = pc[u]
<1>1. t \in Task /\ t \notin ToSet(sem["queue"].wai)
  BY DEF Step, Runs, Ready
<1>2. pc[t] = from /\ pc' = [pc EXCEPT ![t] = to]
  BY StepFacts
<1>3. ~Waits(t)
  BY <1>1 DEF Waits, ToSet, QueueInv, QueueTurn
<1> QED BY <1>1, <1>2, <1>3 DEF QueueInv, LockInv

(* A step elsewhere, or one in a task's turn. *)
LEMMA MoveKeepsTurn ==
  ASSUME QueueInv, NEW t, NEW from, NEW to, Step(t, from, to),
         from \in Calling <=> to \in Calling, sem'["queue"] = sem["queue"]
  PROVE  QueueTurn'
<1>1. /\ t \in Task /\ ~Waits(t) /\ pc[t] = from /\ pc'[t] = to
      /\ \A u \in Task : u # t => pc'[u] = pc[u]
  BY TurnFacts
<1>2. \A u : Waits(u)' <=> Waits(u)
  BY DEF Waits
<1>3. \A u \in Task : pc'[u] \in Calling <=> pc[u] \in Calling
  BY <1>1
<1>4. \A u \in Task : Waits(u) => pc'[u] \in {"push", "pop"}
  BY <1>1 DEF QueueInv, QueueTurn
<1> QED BY <1>2, <1>3, <1>4 DEF QueueInv, QueueTurn

(* The turn is taken, or waited for; it is given back, or passed on. *)
LEMMA WaitKeepsTurn ==
  ASSUME QueueInv, NEW t, NEW from, NEW to, Step(t, from, to), Wait("queue", t),
         from \notin Calling, to \in {"push", "pop"}
  PROVE  QueueTurn'
<1> DEFINE q == sem["queue"]
<1>1. /\ t \in Task /\ ~Waits(t) /\ pc[t] = from /\ pc'[t] = to
      /\ \A u \in Task : u # t => pc'[u] = pc[u]
  BY TurnFacts
<1>2. sem'["queue"] = tk_wai_sem(q, t)
  BY DEF Wait, QueueInv, LockInv
<1>3. to \in Calling
  BY DEF Calling
<1>4. CASE q.cnt = 1
  <2>1. sem'["queue"] = [cnt |-> 0, wai |-> <<>>]
    BY <1>2, <1>4 DEF tk_wai_sem, QueueInv, QueueTurn
  <2>2. \A u : ~Waits(u)'
    BY <2>1 DEF Waits
  <2>3. \A u \in Task : pc'[u] \in Calling => u = t
    BY <1>1, <1>4 DEF QueueInv, QueueTurn
  <2> QED BY <1>1, <1>3, <2>1, <2>2, <2>3 DEF QueueTurn
<1>5. CASE q.cnt = 0
  <2>1. sem'["queue"] = [cnt |-> 0, wai |-> Append(q.wai, t)] /\ q.wai \in Seq(Task)
    <3>1. q = [cnt |-> q.cnt, wai |-> q.wai] /\ q.wai \in Seq(Task)
      BY DEF QueueInv, QueueTurn
    <3>2. sem'["queue"] = [q EXCEPT !.wai = Append(q.wai, t)]
      BY <1>2, <1>5 DEF tk_wai_sem
    <3>3. \A c, w, x : [[cnt |-> c, wai |-> w] EXCEPT !.wai = x] = [cnt |-> c, wai |-> x]
      OBVIOUS
    <3> QED BY <1>5, <3>1, <3>2, <3>3
  <2>2. /\ Append(q.wai, t) \in Seq(Task) /\ Len(Append(q.wai, t)) = Len(q.wai) + 1
        /\ \A i \in 1..Len(q.wai) : Append(q.wai, t)[i] = q.wai[i]
        /\ Append(q.wai, t)[Len(q.wai) + 1] = t
        /\ Len(q.wai) \in Nat
    BY <1>1, <2>1
  <2>3. \A u : Waits(u)' <=> Waits(u) \/ u = t
    BY <2>1, <2>2 DEF Waits
  <2>4. \A i, j \in 1..Len(Append(q.wai, t)) :
          Append(q.wai, t)[i] = Append(q.wai, t)[j] => i = j
    <3> DEFINE a == Append(q.wai, t)
    <3>1. \A i \in 1..Len(q.wai) : a[i] = q.wai[i] /\ q.wai[i] # t
      BY <1>1, <2>2 DEF Waits
    <3>2. \A i, j \in 1..Len(q.wai) : q.wai[i] = q.wai[j] => i = j
      BY DEF QueueInv, QueueTurn
    <3>3. Len(q.wai) \in Nat /\ Len(a) = Len(q.wai) + 1 /\ a[Len(q.wai) + 1] = t
      BY <2>2
    <3> HIDE DEF a, q
    <3>4. \A i, j \in 1..Len(a) : a[i] = a[j] => i = j
      BY <3>1, <3>2, <3>3
    <3> QED BY <3>4 DEF a
  <2>5. PICK o \in Task : /\ pc[o] \in Calling /\ ~Waits(o)
                          /\ \A u \in Task : pc[u] \in Calling => u = o \/ Waits(u)
    BY <1>5 DEF QueueInv, QueueTurn
  <2>6. o # t /\ pc'[o] \in Calling /\ ~Waits(o)'
    BY <1>1, <2>3, <2>5
  <2>7. \A u \in Task : pc'[u] \in Calling => u = o \/ Waits(u)'
    BY <1>1, <2>3, <2>5
  <2>8. \A u \in Task : Waits(u)' => pc'[u] \in {"push", "pop"}
    BY <1>1, <2>3 DEF QueueInv, QueueTurn
  <2>9. /\ sem'["queue"].cnt = 0 /\ sem'["queue"].wai = Append(q.wai, t)
        /\ sem'["queue"] = [cnt |-> sem'["queue"].cnt, wai |-> sem'["queue"].wai]
    BY <2>1
  <2>10. \E u \in Task : /\ pc'[u] \in Calling /\ ~Waits(u)'
                         /\ \A v \in Task : pc'[v] \in Calling => v = u \/ Waits(v)'
    BY <2>6, <2>7
  <2> HIDE DEF q
  <2> QED BY <2>2, <2>4, <2>8, <2>9, <2>10 DEF QueueTurn
<1> QED BY <1>4, <1>5 DEF QueueInv, QueueTurn

LEMMA SignalKeepsTurn ==
  ASSUME QueueInv, NEW t, NEW from, NEW to, Step(t, from, to), Signal("queue"),
         from \in Calling, to \notin Calling
  PROVE  QueueTurn'
<1> DEFINE q == sem["queue"]
<1>1. /\ t \in Task /\ ~Waits(t) /\ pc[t] = from /\ pc'[t] = to
      /\ \A u \in Task : u # t => pc'[u] = pc[u]
  BY TurnFacts
<1>2. sem'["queue"] = tk_sig_sem(q)
  BY DEF Signal, QueueInv, LockInv
<1>3. /\ q.cnt = 0 /\ q = [cnt |-> q.cnt, wai |-> q.wai] /\ q.wai \in Seq(Task)
      /\ \A u \in Task : pc[u] \in Calling => u = t \/ Waits(u)
  BY <1>1 DEF QueueInv, QueueTurn
<1>4. CASE q.wai = <<>>
  <2>1. sem'["queue"] = [cnt |-> 1, wai |-> <<>>]
    BY <1>2, <1>3, <1>4 DEF tk_sig_sem
  <2>2. \A u : ~Waits(u) /\ ~Waits(u)'
    BY <1>4, <2>1 DEF Waits
  <2> QED BY <1>1, <1>3, <2>1, <2>2 DEF QueueTurn
<1>5. CASE q.wai # <<>>
  <2>1. sem'["queue"] = [cnt |-> 0, wai |-> Tail(q.wai)]
    BY <1>2, <1>3, <1>5 DEF tk_sig_sem
  <2>2. /\ Tail(q.wai) \in Seq(Task) /\ Len(Tail(q.wai)) = Len(q.wai) - 1
        /\ \A i \in 1..Len(q.wai) - 1 : Tail(q.wai)[i] = q.wai[i + 1]
        /\ Len(q.wai) \in Nat \ {0} /\ q.wai[1] \in Task
    BY <1>3, <1>5
  <2>3. \A i, j \in 1..Len(q.wai) : q.wai[i] = q.wai[j] => i = j
    BY DEF QueueInv, QueueTurn
  <2>4. ASSUME NEW i \in 1..Len(Tail(q.wai)), NEW j \in 1..Len(Tail(q.wai)),
               Tail(q.wai)[i] = Tail(q.wai)[j]
        PROVE  i = j
    <3>1. i + 1 \in 1..Len(q.wai) /\ j + 1 \in 1..Len(q.wai)
      BY <2>2
    <3>2. q.wai[i + 1] = q.wai[j + 1]
      BY <2>2, <2>4
    <3>3. i + 1 = j + 1
      BY <2>3, <3>1, <3>2
    <3> QED BY <3>3
  <2>5. \A u : Waits(u)' <=> Waits(u) /\ u # q.wai[1]
    <3>1. ASSUME NEW u, Waits(u)' PROVE Waits(u) /\ u # q.wai[1]
      BY <2>1, <2>2, <2>3, <3>1 DEF Waits
    <3>2. ASSUME NEW u, Waits(u), u # q.wai[1] PROVE Waits(u)'
      <4>1. PICK i \in 1..Len(q.wai) : q.wai[i] = u
        BY <3>2 DEF Waits
      <4>2. i - 1 \in 1..Len(Tail(q.wai)) /\ Tail(q.wai)[i - 1] = u
        BY <2>2, <3>2, <4>1
      <4>3. \E j \in 1..Len(Tail(q.wai)) : Tail(q.wai)[j] = u
        BY <4>2
      <4>4. sem'["queue"].wai = Tail(q.wai)
        BY <2>1
      <4> HIDE DEF q
      <4> QED BY <4>3, <4>4 DEF Waits
    <3> QED BY <3>1, <3>2
  <2>6. Waits(q.wai[1]) /\ q.wai[1] # t /\ pc'[q.wai[1]] \in Calling
    BY <1>1, <2>2 DEF Waits, Calling, QueueInv, QueueTurn
  <2>7. \A u \in Task : pc'[u] \in Calling => u = q.wai[1] \/ Waits(u)'
    BY <1>1, <1>3, <2>5
  <2>8. \A u \in Task : Waits(u)' => pc'[u] \in {"push", "pop"}
    BY <1>1, <2>5 DEF QueueInv, QueueTurn
  <2>9. /\ sem'["queue"].cnt = 0 /\ sem'["queue"].wai = Tail(q.wai)
        /\ sem'["queue"] = [cnt |-> sem'["queue"].cnt, wai |-> sem'["queue"].wai]
    BY <2>1
  <2>10. \E u \in Task : /\ pc'[u] \in Calling /\ ~Waits(u)'
                         /\ \A v \in Task : pc'[v] \in Calling => v = u \/ Waits(v)'
    BY <2>2, <2>5, <2>6, <2>7
  <2> HIDE DEF q
  <2> QED BY <2>2, <2>4, <2>8, <2>9, <2>10 DEF QueueTurn
<1> QED BY <1>4, <1>5

(* Whose turn it is finds no other task there but those that wait.         *)
LEMMA Alone ==
  ASSUME QueueInv, NEW t \in Task, ~Waits(t), pc[t] \in Calling
  PROVE  \A u \in Task : u # t => pc[u] \notin {"link", "unlink"}
BY DEF QueueInv, QueueTurn, Calling

LEMMA IdleRing ==
  ASSUME QueueInv, tx' = tx, NEW t, NEW from, NEW to, Step(t, from, to),
         to \notin {"link", "unlink"}
  PROVE  Ring'
<1>1. \A u \in Task : pc'[u] \in {"link", "unlink"} => pc'[u] = pc[u]
  BY TurnFacts
<1> QED BY <1>1 DEF QueueInv, Ring

(* Indices modulo the size of the ring. *)
LEMMA Wraps ==
  ASSUME NEW n \in Nat \ {0}, NEW a \in Nat, a < n + n
  PROVE  a % n = IF a < n THEN a ELSE a - n
OBVIOUS

LEMMA WrapsSum ==
  ASSUME NEW n \in Nat \ {0}, NEW x \in 0..n - 1, NEW y \in 0..n
  PROVE  (x + y) % n = IF x + y < n THEN x + y ELSE x + y - n
<1> DEFINE a == x + y
<1>1. a \in Nat /\ a < n + n
  OBVIOUS
<1> HIDE DEF a
<1>2. a % n = IF a < n THEN a ELSE a - n
  BY <1>1
<1> QED BY <1>2 DEF a

(* The i-th cell after t of a ring of n, and the next one after the c-th.  *)
LEMMA RingCells ==
  ASSUME NEW n \in Nat \ {0}, NEW t \in 0..n - 1, NEW c \in 0..n, NEW i \in 1..c
  PROVE  /\ (t + i - 1) % n \in 0..n - 1
         /\ c < n => (t + i - 1) % n # (t + c) % n
<1> DEFINE j == i - 1
<1>1. j \in 0..n /\ j < c /\ t + i - 1 = t + j
  OBVIOUS
<1> HIDE DEF j
<1>2. (t + j) % n = IF t + j < n THEN t + j ELSE t + j - n
  BY <1>1, WrapsSum
<1>3. (t + c) % n = IF t + c < n THEN t + c ELSE t + c - n
  BY WrapsSum
<1> QED BY <1>1, <1>2, <1>3

LEMMA RingUp ==
  ASSUME NEW n \in Nat \ {0}, NEW t \in 0..n - 1, NEW c \in 0..n - 1
  PROVE  (((t + c) % n) + 1) % n = (t + (c + 1)) % n
<1> DEFINE h == (t + c) % n
           d == c + 1
<1>1. h = IF t + c < n THEN t + c ELSE t + c - n
  <2>1. c \in 0..n
    OBVIOUS
  <2> QED BY <2>1, WrapsSum
<1>2. h \in 0..n - 1 /\ d \in 0..n /\ 1 \in 0..n
  BY <1>1
<1> HIDE DEF h, d
<1>3. (h + 1) % n = IF h + 1 < n THEN h + 1 ELSE h + 1 - n
  BY <1>2, WrapsSum
<1>4. (t + d) % n = IF t + d < n THEN t + d ELSE t + d - n
  BY <1>2, WrapsSum
<1> QED BY <1>1, <1>2, <1>3, <1>4 DEF h, d

LEMMA RingDown ==
  ASSUME NEW n \in Nat \ {0}, NEW t \in 0..n - 1, NEW c \in 0..n - 1
  PROVE  (((t + 1) % n) + c) % n = (t + (c + 1)) % n
<1> DEFINE h == (t + 1) % n
           d == c + 1
<1>1. h = IF t + 1 < n THEN t + 1 ELSE t + 1 - n
  <2>1. 1 \in 0..n
    OBVIOUS
  <2> QED BY <2>1, WrapsSum
<1>2. h \in 0..n - 1 /\ d \in 0..n /\ c \in 0..n
  BY <1>1
<1> HIDE DEF h, d
<1>3. (h + c) % n = IF h + c < n THEN h + c ELSE h + c - n
  BY <1>2, WrapsSum
<1>4. (t + d) % n = IF t + d < n THEN t + d ELSE t + d - n
  BY <1>2, WrapsSum
<1> QED BY <1>1, <1>2, <1>3, <1>4 DEF h, d

(* The cells of the messages are in the ring, and the head is none of them *)
(* unless the ring is full.                                                *)
LEMMA Cells ==
  ASSUME Ring
  PROVE  \A i \in 1..tx.count :
           /\ (tx.tail + i - 1) % QueueSize \in 0..QueueSize - 1
           /\ tx.count < QueueSize => (tx.tail + i - 1) % QueueSize # tx.head
<1>1. /\ QueueSize \in Nat \ {0} /\ tx.tail \in 0..QueueSize - 1 /\ tx.count \in 0..QueueSize
      /\ tx.head = (tx.tail + tx.count) % QueueSize
  BY UartAssumption DEF Ring, Rings
<1> QED BY <1>1, RingCells

(* A step of the output queue, or one that leaves it as it is. *)
OutputStep == [Output!Next]_<<Pending, tx.overflow>>

LEMMA SameOutput ==
  ASSUME tx' = tx
  PROVE  OutputStep
BY DEF OutputStep, Pending

(* What the steps on the ring do to it. *)
LEMMA PushSteps ==
  ASSUME QueueInv, NEW t \in Task, uart_tx_queue_push(t)
  PROVE  Ring' /\ OutputStep
<1>1. /\ ~Waits(t) /\ pc[t] = "push" /\ pc[t] \in Calling
      /\ \A u \in Task : u # t => pc'[u] = pc[u]
  BY TurnFacts DEF uart_tx_queue_push, Calling
<1>2. \A u \in Task : u # t => pc'[u] \notin {"link", "unlink"}
  BY <1>1, Alone
<1>3. Ring /\ tx \in Rings
  BY DEF QueueInv, Ring
<1>4. CASE tx.count >= QueueSize
  <2>1. pc'[t] = "refuse" /\ tx' = [tx EXCEPT !.overflow = @ + 1]
    BY <1>4, TurnFacts DEF uart_tx_queue_push
  <2>2. /\ tx' \in Rings /\ tx'.overflow = tx.overflow + 1 /\ tx'.queue = tx.queue
        /\ tx'.head = tx.head /\ tx'.tail = tx.tail /\ tx'.count = tx.count
    BY <1>3, <2>1 DEF Rings
  <2>3. Ring'
    BY <1>2, <1>3, <2>1, <2>2 DEF Ring
  <2>4. Pending' = Pending /\ Len(Pending) = QueueSize
    BY <1>3, <1>4, <2>2, UartAssumption DEF Pending, Rings
  <2>5. Output!Lose
    BY <2>2, <2>4 DEF Output!Lose
  <2> QED BY <2>3, <2>5 DEF OutputStep, Output!Next
<1>5. CASE tx.count < QueueSize
  <2>1. pc'[t] = "link" /\ tx' = [tx EXCEPT !.queue[tx.head] = t]
    BY <1>3, <1>5, TurnFacts, UartAssumption DEF uart_tx_queue_push, Rings
  <2>2. /\ tx' \in Rings /\ tx'.queue = [tx.queue EXCEPT ![tx.head] = t]
        /\ tx'.head = tx.head /\ tx'.tail = tx.tail /\ tx'.count = tx.count
        /\ tx'.overflow = tx.overflow
    BY <1>3, <2>1 DEF Rings
  <2>3. Ring'
    BY <1>2, <1>3, <1>5, <2>1, <2>2 DEF Ring
  <2>4. \A i \in 1..tx.count : tx'.queue[(tx.tail + i - 1) % QueueSize]
                               = tx.queue[(tx.tail + i - 1) % QueueSize]
    BY <1>3, <1>5, <2>2, Cells DEF Rings
  <2>5. Pending' = Pending
    BY <2>2, <2>4 DEF Pending
  <2> QED BY <2>2, <2>3, <2>5 DEF OutputStep
<1> QED BY <1>3, <1>4, <1>5, UartAssumption DEF Rings

LEMMA CountUpSteps ==
  ASSUME QueueInv, NEW t \in Task, uart_tx_count_up(t)
  PROVE  Ring' /\ OutputStep
<1>1. /\ ~Waits(t) /\ pc[t] = "link" /\ pc[t] \in Calling /\ pc'[t] = "unlock"
      /\ \A u \in Task : u # t => pc'[u] = pc[u]
      /\ tx' = [tx EXCEPT !.head = (@ + 1) % QueueSize, !.count = @ + 1]
  BY TurnFacts DEF uart_tx_count_up, Calling
<1>2. \A u \in Task : pc'[u] \notin {"link", "unlink"}
  BY <1>1, Alone
<1>3. Ring /\ tx \in Rings /\ tx.count < QueueSize /\ QueueSize \in Nat \ {0}
  BY <1>1, UartAssumption DEF QueueInv, Ring
<1>4. /\ tx' \in Rings /\ tx'.queue = tx.queue /\ tx'.tail = tx.tail
      /\ tx'.count = tx.count + 1 /\ tx'.overflow = tx.overflow
      /\ tx'.head = (tx.head + 1) % QueueSize
  <2> DEFINE i == (tx.head + 1) % QueueSize
             c == tx.count + 1
  <2>1. i \in 0..QueueSize - 1 /\ c \in 0..QueueSize
    BY <1>3 DEF Rings
  <2>2. tx' = [tx EXCEPT !.head = i, !.count = c]
    BY <1>1
  <2> DEFINE r == [tx EXCEPT !.head = i]
  <2> HIDE DEF i, c
  <2>3. /\ r \in Rings /\ r.head = i
        /\ r.queue = tx.queue /\ r.tail = tx.tail /\ r.overflow = tx.overflow
    BY <1>3, <2>1 DEF Rings
  <2>4. tx' = [r EXCEPT !.count = c]
    BY <1>3, <2>2 DEF Rings
  <2> HIDE DEF r
  <2>5. /\ tx' \in Rings /\ tx'.count = c /\ tx'.head = r.head
        /\ tx'.queue = r.queue /\ tx'.tail = r.tail /\ tx'.overflow = r.overflow
    BY <2>1, <2>3, <2>4 DEF Rings
  <2> QED BY <2>3, <2>5 DEF i, c
<1>5. (tx.head + 1) % QueueSize = (tx.tail + (tx.count + 1)) % QueueSize
  <2>1. /\ tx.tail \in 0..QueueSize - 1 /\ tx.count \in 0..QueueSize - 1
        /\ tx.head = (tx.tail + tx.count) % QueueSize
    BY <1>3 DEF Ring, Rings
  <2> QED BY <1>3, <2>1, RingUp
<1>6. Ring'
  BY <1>2, <1>4, <1>5 DEF Ring
<1>7. tx.queue[tx.head] \in Task /\ Len(Pending) = tx.count
  BY <1>3 DEF Pending, Rings
<1>8. Pending' = Append(Pending, tx.queue[tx.head])
  <2>1. tx.count \in Nat
    BY <1>3 DEF Rings
  <2>2. \A i \in 1..tx.count : tx.queue[(tx.tail + i - 1) % QueueSize] \in Task
    BY <1>3, Cells DEF Rings
  <2>3. Pending \in Seq(Task)
    BY <2>1, <2>2 DEF Pending
  <2>4. tx.queue[(tx.tail + (tx.count + 1) - 1) % QueueSize] = tx.queue[tx.head]
    BY <1>3 DEF Ring, Rings
  <2>5. Pending' = [i \in 1..tx.count + 1 |-> tx.queue[(tx.tail + i - 1) % QueueSize]]
    BY <1>4 DEF Pending
  <2>6. /\ Append(Pending, tx.queue[tx.head]) \in Seq(Task)
        /\ Len(Append(Pending, tx.queue[tx.head])) = tx.count + 1
        /\ \A i \in 1..tx.count : Append(Pending, tx.queue[tx.head])[i] = Pending[i]
        /\ Append(Pending, tx.queue[tx.head])[tx.count + 1] = tx.queue[tx.head]
    BY <1>7, <2>1, <2>3
  <2>7. \A i \in 1..tx.count : Pending[i] = tx.queue[(tx.tail + i - 1) % QueueSize]
    BY DEF Pending
  <2>8. \A i \in 1..tx.count + 1 : Append(Pending, tx.queue[tx.head])[i]
                                   = tx.queue[(tx.tail + i - 1) % QueueSize]
    BY <2>1, <2>4, <2>6, <2>7
  <2>9. Append(Pending, tx.queue[tx.head])
        = [i \in 1..tx.count + 1 |-> Append(Pending, tx.queue[tx.head])[i]]
    BY <2>6
  <2> QED BY <2>5, <2>8, <2>9
<1>9. Output!Send(tx.queue[tx.head])
  BY <1>3, <1>4, <1>7, <1>8 DEF Output!Send
<1> QED BY <1>6, <1>7, <1>9 DEF OutputStep, Output!Next

LEMMA CountDownSteps ==
  ASSUME QueueInv, uart_tx_count_down
  PROVE  Ring' /\ OutputStep
<1>1. /\ "tx" \in Task /\ ~Waits("tx") /\ pc["tx"] = "unlink" /\ pc["tx"] \in Calling
      /\ pc'["tx"] = "received" /\ \A u \in Task : u # "tx" => pc'[u] = pc[u]
      /\ tx' = [tx EXCEPT !.tail = (@ + 1) % QueueSize, !.count = @ - 1]
  BY TurnFacts DEF uart_tx_count_down, Calling
<1>2. \A u \in Task : pc'[u] \notin {"link", "unlink"}
  BY <1>1, Alone
<1>3. Ring /\ tx \in Rings /\ tx.count > 0 /\ QueueSize \in Nat \ {0}
  BY <1>1, UartAssumption DEF QueueInv, Ring
<1>4. /\ tx' \in Rings /\ tx'.queue = tx.queue /\ tx'.head = tx.head
      /\ tx'.count = tx.count - 1 /\ tx'.overflow = tx.overflow
      /\ tx'.tail = (tx.tail + 1) % QueueSize
  <2> DEFINE i == (tx.tail + 1) % QueueSize
             c == tx.count - 1
  <2>1. i \in 0..QueueSize - 1 /\ c \in 0..QueueSize
    BY <1>3 DEF Rings
  <2>2. tx' = [tx EXCEPT !.tail = i, !.count = c]
    BY <1>1
  <2> DEFINE r == [tx EXCEPT !.tail = i]
  <2> HIDE DEF i, c
  <2>3. /\ r \in Rings /\ r.tail = i
        /\ r.queue = tx.queue /\ r.head = tx.head /\ r.overflow = tx.overflow
    BY <1>3, <2>1 DEF Rings
  <2>4. tx' = [r EXCEPT !.count = c]
    BY <1>3, <2>2 DEF Rings
  <2> HIDE DEF r
  <2>5. /\ tx' \in Rings /\ tx'.count = c /\ tx'.tail = r.tail
        /\ tx'.queue = r.queue /\ tx'.head = r.head /\ tx'.overflow = r.overflow
    BY <2>1, <2>3, <2>4 DEF Rings
  <2> QED BY <2>3, <2>5 DEF i, c
<1>5. /\ tx.tail \in 0..QueueSize - 1 /\ tx.count \in 1..QueueSize
      /\ tx.head = (tx.tail + tx.count) % QueueSize
  BY <1>3 DEF Ring, Rings
<1>6. \A c \in 0..QueueSize - 1 :
        (((tx.tail + 1) % QueueSize) + c) % QueueSize = (tx.tail + (c + 1)) % QueueSize
  BY <1>3, <1>5, RingDown
<1>7. Ring'
  <2>1. tx.count - 1 \in 0..QueueSize - 1 /\ (tx.count - 1) + 1 = tx.count
    BY <1>3, <1>5
  <2>2. (((tx.tail + 1) % QueueSize) + (tx.count - 1)) % QueueSize
        = (tx.tail + ((tx.count - 1) + 1)) % QueueSize
    BY <1>6, <2>1
  <2>3. tx'.head = (tx'.tail + tx'.count) % QueueSize
    BY <1>4, <1>5, <2>1, <2>2
  <2> QED BY <1>2, <1>4, <2>3 DEF Ring
<1>8. Pending # <<>> /\ Pending' = Tail(Pending)
  <2>1. \A i \in 1..tx.count : tx.queue[(tx.tail + i - 1) % QueueSize] \in Task
    BY <1>3, Cells DEF Rings
  <2>2. Pending \in Seq(Task) /\ Len(Pending) = tx.count
    BY <1>5, <2>1 DEF Pending
  <2>3. /\ Tail(Pending) \in Seq(Task) /\ Len(Tail(Pending)) = tx.count - 1
        /\ \A i \in 1..tx.count - 1 : Tail(Pending)[i] = Pending[i + 1]
    BY <1>5, <2>2
  <2>4. ASSUME NEW i \in 1..tx.count - 1
        PROVE  tx.queue[(((tx.tail + 1) % QueueSize) + i - 1) % QueueSize] = Pending[i + 1]
    <3>1. /\ i - 1 \in 0..QueueSize - 1 /\ i + 1 \in 1..tx.count
          /\ (i - 1) + 1 = (i + 1) - 1
      BY <1>3, <1>5
    <3>2. (((tx.tail + 1) % QueueSize) + (i - 1)) % QueueSize
          = (tx.tail + ((i - 1) + 1)) % QueueSize
      BY <1>6, <3>1
    <3>3. /\ ((tx.tail + 1) % QueueSize) + (i - 1) = ((tx.tail + 1) % QueueSize) + i - 1
          /\ tx.tail + ((i - 1) + 1) = tx.tail + (i + 1) - 1
      BY <1>3, <1>5
    <3>4. Pending[i + 1] = tx.queue[(tx.tail + (i + 1) - 1) % QueueSize]
      BY <3>1 DEF Pending
    <3> QED BY <3>2, <3>3, <3>4
  <2>5. Pending' = [i \in 1..tx.count - 1 |->
                      tx.queue[(((tx.tail + 1) % QueueSize) + i - 1) % QueueSize]]
    BY <1>4 DEF Pending
  <2>6. Tail(Pending) = [i \in 1..tx.count - 1 |-> Tail(Pending)[i]]
    <3>1. \A q \in Seq(Task) : q = [i \in 1..Len(q) |-> q[i]]
      OBVIOUS
    <3> QED BY <2>3, <3>1
  <2>7. Pending' = Tail(Pending)
    BY <2>3, <2>4, <2>5, <2>6
  <2> QED BY <1>5, <2>2, <2>7
<1>9. Output!Receive
  BY <1>4, <1>8 DEF Output!Receive
<1> QED BY <1>7, <1>9 DEF OutputStep, Output!Next

LEMMA PopSteps ==
  ASSUME QueueInv, uart_tx_queue_pop
  PROVE  Ring' /\ OutputStep
<1>1. /\ "tx" \in Task /\ ~Waits("tx") /\ pc["tx"] = "pop" /\ pc["tx"] \in Calling
      /\ \A u \in Task : u # "tx" => pc'[u] = pc[u]
  BY TurnFacts DEF uart_tx_queue_pop, Calling
<1>2. \A u \in Task : u # "tx" => pc'[u] \notin {"link", "unlink"}
  BY <1>1, Alone
<1>3. Ring /\ tx \in Rings
  BY DEF QueueInv, Ring
<1>4. CASE tx.count = 0
  <2>1. Step("tx", "pop", "empty") /\ tx' = tx
    BY <1>4 DEF uart_tx_queue_pop
  <2> QED BY <2>1, IdleRing, SameOutput
<1>5. CASE tx.count # 0
  <2>1. pc'["tx"] = "unlink" /\ tx' = [tx EXCEPT !.text = tx.queue[tx.tail]]
    BY <1>5, TurnFacts DEF uart_tx_queue_pop
  <2>2. /\ tx' \in Rings /\ tx'.queue = tx.queue /\ tx'.head = tx.head
        /\ tx'.tail = tx.tail /\ tx'.count = tx.count /\ tx'.overflow = tx.overflow
    BY <1>3, <2>1 DEF Rings
  <2>3. Ring'
    BY <1>2, <1>3, <1>5, <2>1, <2>2 DEF Ring, Rings
  <2> QED BY <2>2, <2>3 DEF OutputStep, Pending
<1> QED BY <1>4, <1>5

(* What every step does to the queue, beside LockInv'. *)
QueueStep == QueueTurn' /\ Ring' /\ OutputStep

(* A step that has nothing to do with the queue. *)
LEMMA StepElsewhere ==
  ASSUME QueueInv, NEW t, NEW from, NEW to, Step(t, from, to),
         from \notin Calling, to \notin Calling, sem'["queue"] = sem["queue"], tx' = tx
  PROVE  QueueStep
<1>1. to \notin {"link", "unlink"}
  BY DEF Calling
<1> QED BY <1>1, MoveKeepsTurn, IdleRing, SameOutput DEF QueueStep

LEMMA SentSteps ==
  ASSUME QueueInv, NEW t \in Task, NEW from, Sent(t, from), tx' = tx,
         \/ from \in Calling /\ Signal("queue")
         \/ from \notin Calling /\ sem' = sem
  PROVE  QueueStep
<1> DEFINE to == IF todo[t] > 1 THEN "send" ELSE IF t = "rx" THEN ret["rx"] ELSE "idle"
<1>1. Step(t, from, to)
  BY DEF Sent
<1>2. to \in {"send", "idle", "wait", "receive", "getc"}
  BY DEF QueueInv, LockInv
<1> HIDE DEF to
<1>3. to \notin Calling /\ to \notin {"link", "unlink"}
  BY <1>2 DEF Calling
<1>4. CASE from \in Calling /\ Signal("queue")
  BY <1>1, <1>3, <1>4, SignalKeepsTurn, IdleRing, SameOutput DEF QueueStep
<1>5. CASE from \notin Calling /\ sem' = sem
  BY <1>1, <1>3, <1>5, StepElsewhere
<1> QED BY <1>4, <1>5

LEMMA SendSteps ==
  ASSUME QueueInv, NEW t \in Task, uart_tx_send(t)
  PROVE  QueueStep
<1>1. CASE Step(t, "send", "push") /\ Wait("queue", t) /\ UNCHANGED <<ret, todo, dataVars>>
  <2>1. tx' = tx
    BY <1>1 DEF dataVars
  <2> QED BY <1>1, <2>1, WaitKeepsTurn, IdleRing, SameOutput DEF QueueStep, Calling
<1>2. CASE uart_tx_queue_push(t)
  <2>1. sem' = sem
    BY <1>2 DEF uart_tx_queue_push
  <2>2. Step(t, "push", "refuse") \/ Step(t, "push", "link")
    BY <1>2 DEF uart_tx_queue_push
  <2>3. QueueTurn'
    BY <2>1, <2>2, MoveKeepsTurn DEF Calling
  <2> QED BY <1>2, <2>3, PushSteps DEF QueueStep
<1>3. CASE uart_tx_count_up(t)
  <2>1. sem' = sem /\ Step(t, "link", "unlock")
    BY <1>3 DEF uart_tx_count_up
  <2>2. QueueTurn'
    BY <2>1, MoveKeepsTurn DEF Calling
  <2> QED BY <1>3, <2>2, CountUpSteps DEF QueueStep
<1>4. CASE Sent(t, "refuse") /\ Signal("queue") /\ UNCHANGED <<ret, dataVars>>
  <2>1. tx' = tx /\ "refuse" \in Calling
    BY <1>4 DEF dataVars, Calling
  <2> QED BY <1>4, <2>1, SentSteps
<1>5. CASE Step(t, "unlock", "notify") /\ Signal("queue") /\ UNCHANGED <<ret, todo, dataVars>>
  <2>1. tx' = tx
    BY <1>5 DEF dataVars
  <2> QED BY <1>5, <2>1, SignalKeepsTurn, IdleRing, SameOutput DEF QueueStep, Calling
<1>6. CASE /\ Sent(t, "notify") /\ flg' = [flg EXCEPT !["tx"] = tk_set_flg(@)]
           /\ UNCHANGED <<ret, sem, dataVars>>
  <2>1. tx' = tx /\ "notify" \notin Calling
    BY <1>6 DEF dataVars, Calling
  <2> QED BY <1>6, <2>1, SentSteps
<1> QED BY <1>1, <1>2, <1>3, <1>4, <1>5, <1>6 DEF uart_tx_send

LEMMA PutTextSteps ==
  ASSUME QueueInv, NEW t \in {"rx", "tx"}, PutText(t)
  PROVE  QueueStep
<1>1. ret[t] \notin Calling
  BY DEF QueueInv, LockInv, Calling
<1>2. tx' = tx
  BY DEF PutText, dataVars
<1>3. sem'["queue"] = sem["queue"]
  BY DEF PutText, Wait, Signal, QueueInv, LockInv
<1>4. \/ Step(t, "lock", "puts") \/ Step(t, "puts", "release")
      \/ Step(t, "release", ret[t])
  BY DEF PutText
<1>5. \A s \in {"lock", "puts", "release"} : s \notin Calling
  BY DEF Calling
<1> QED BY <1>1, <1>2, <1>3, <1>4, <1>5, StepElsewhere

LEMMA TransmitSteps ==
  ASSUME QueueInv, task_uarttx
  PROVE  QueueStep
<1>1. CASE Step("tx", "start", "lock") /\ UNCHANGED <<ret, todo, sem, flg, dataVars>>
  BY <1>1, StepElsewhere DEF dataVars, Calling
<1>2. CASE uart_tx_wait
  BY <1>2, StepElsewhere DEF uart_tx_wait, dataVars, Calling
<1>3. CASE Step("tx", "receive", "pop") /\ Wait("queue", "tx") /\ UNCHANGED <<ret, todo, dataVars>>
  <2>1. tx' = tx
    BY <1>3 DEF dataVars
  <2> QED BY <1>3, <2>1, WaitKeepsTurn, IdleRing, SameOutput DEF QueueStep, Calling
<1>4. CASE uart_tx_queue_pop
  <2>1. sem' = sem /\ (Step("tx", "pop", "empty") \/ Step("tx", "pop", "unlink"))
    BY <1>4 DEF uart_tx_queue_pop
  <2>2. QueueTurn'
    BY <2>1, MoveKeepsTurn DEF Calling
  <2> QED BY <1>4, <2>2, PopSteps DEF QueueStep
<1>5. CASE uart_tx_count_down
  <2>1. sem' = sem /\ Step("tx", "unlink", "received")
    BY <1>5 DEF uart_tx_count_down
  <2>2. QueueTurn'
    BY <2>1, MoveKeepsTurn DEF Calling
  <2> QED BY <1>5, <2>2, CountDownSteps DEF QueueStep
<1>6. ASSUME NEW from, NEW to, from \in Calling, to \notin Calling,
             Step("tx", from, to), Signal("queue"), UNCHANGED <<ret, todo, dataVars>>
      PROVE  QueueStep
  <2>1. tx' = tx /\ to \notin {"link", "unlink"}
    BY <1>6 DEF dataVars, Calling
  <2> QED BY <1>6, <2>1, SignalKeepsTurn, IdleRing, SameOutput DEF QueueStep
<1>7. CASE Step("tx", "empty", "wait") /\ Signal("queue") /\ UNCHANGED <<ret, todo, dataVars>>
  BY <1>6, <1>7 DEF Calling
<1>8. CASE Step("tx", "received", "lock") /\ Signal("queue") /\ UNCHANGED <<ret, todo, dataVars>>
  BY <1>6, <1>8 DEF Calling
<1>9. CASE PutText("tx")
  BY <1>9, PutTextSteps
<1> QED BY <1>1, <1>2, <1>3, <1>4, <1>5, <1>7, <1>8, <1>9 DEF task_uarttx, uart_tx_receive

LEMMA ReceiveSteps ==
  ASSUME QueueInv, task_uartrx
  PROVE  QueueStep
<1>1. \A s \in {"start", "send", "wait", "getc", "advance", "input", "lock"} : s \notin Calling
  BY DEF Calling
<1>2. CASE StartRx
  BY <1>1, <1>2, StepElsewhere DEF StartRx
<1>3. CASE WaitForInput
  BY <1>1, <1>3, StepElsewhere DEF WaitForInput, dataVars
<1>4. CASE uart_rx_getc
  BY <1>1, <1>4, StepElsewhere DEF uart_rx_getc
<1>5. CASE uart_rx_advance
  BY <1>1, <1>5, StepElsewhere DEF uart_rx_advance
<1>6. CASE console_input_char
  <2>1. sem' = sem /\ tx' = tx
    BY <1>6 DEF console_input_char
  <2>2. Step("rx", "input", "send") \/ Step("rx", "input", "getc") \/ Step("rx", "input", "lock")
    BY <1>6 DEF console_input_char, Execute, Edit
  <2> QED BY <1>1, <2>1, <2>2, StepElsewhere
<1>7. CASE PutText("rx")
  BY <1>7, PutTextSteps
<1>8. CASE uart_tx_send("rx")
  BY <1>8, SendSteps DEF Task
<1> QED BY <1>2, <1>3, <1>4, <1>5, <1>6, <1>7, <1>8 DEF task_uartrx

(* Steps without a move of a task, and the beginning of a report. *)
LEMMA NoSteps ==
  ASSUME QueueInv, pc' = pc, sem' = sem, tx' = tx
  PROVE  QueueStep
<1>1. QueueTurn' /\ Ring'
  BY DEF QueueInv, QueueTurn, Ring, Waits
<1> QED BY <1>1, SameOutput DEF QueueStep

LEMMA ReportSteps ==
  ASSUME QueueInv, NEW t \in Sender, Report(t)
  PROVE  QueueStep
<1>1. t \in Task /\ pc[t] = "idle" /\ pc' = [pc EXCEPT ![t] = "send"] /\ sem' = sem /\ tx' = tx
  BY DEF Report, Task, dataVars
<1>2. \A u \in Task : pc'[u] = IF u = t THEN "send" ELSE pc[u]
  BY <1>1 DEF QueueInv, LockInv
<1>3. "send" \notin Calling /\ "idle" \notin Calling /\ {"link", "unlink", "push", "pop"} \subseteq Calling
  BY DEF Calling
<1>4. \A u \in Task : pc'[u] \in Calling \/ pc[u] \in Calling => pc'[u] = pc[u]
  BY <1>1, <1>2, <1>3
<1>5. \A u : Waits(u)' <=> Waits(u)
  BY <1>1 DEF Waits
<1>6. QueueTurn'
  BY <1>1, <1>3, <1>4, <1>5 DEF QueueInv, QueueTurn
<1>7. Ring'
  BY <1>1, <1>3, <1>4 DEF QueueInv, Ring
<1> QED BY <1>1, <1>6, <1>7, SameOutput DEF QueueStep

(* The semaphore of the queue leaves its ring to one task at a time, and   *)
(* the ring holds count messages from tail to head.                        *)
LEMMA QueueInductive ==
  /\ Init => QueueInv /\ Output!Init
  /\ QueueInv /\ [Next]_vars => QueueInv' /\ OutputStep
<1>1. Init => QueueInv /\ Output!Init
  <2> SUFFICES ASSUME Init PROVE QueueInv /\ Output!Init
    OBVIOUS
  <2>1. LockInv
    BY DEF Init, LockInv, LockStates, Printing, FreeSem, Task
  <2>2. sem["queue"] = [cnt |-> 1, wai |-> <<>>] /\ \A t \in Task : pc[t] \in {"idle", "start"}
    BY DEF Init, FreeSem
  <2>3. QueueTurn
    BY <2>2 DEF QueueTurn, Waits, Calling
  <2>4. Ring
    <3>1. tx.head = 0 /\ tx.tail = 0 /\ tx.count = 0
      BY DEF Init
    <3>2. (0 + 0) % QueueSize = 0
      <4>1. 0 \in 0..QueueSize - 1 /\ 0 \in 0..QueueSize /\ QueueSize \in Nat \ {0}
        BY UartAssumption
      <4> QED BY <4>1, WrapsSum
    <3>3. tx \in Rings
      BY UartAssumption DEF Init, Rings, Task
    <3> QED BY <2>2, <3>1, <3>2, <3>3 DEF Ring
  <2>5. Output!Init
    BY DEF Init, Output!Init, Pending
  <2> QED BY <2>1, <2>3, <2>4, <2>5 DEF QueueInv
<1>2. QueueInv /\ [Next]_vars => QueueInv' /\ OutputStep
  <2> SUFFICES ASSUME QueueInv, [Next]_vars PROVE QueueInv' /\ OutputStep
    OBVIOUS
  <2>1. LockInv' /\ QueueStep
    <3>1. CASE task_uartrx
      BY <3>1, ReceivePreserves, ReceiveSteps DEF QueueInv
    <3>2. CASE task_uarttx
      BY <3>2, TransmitPreserves, TransmitSteps DEF QueueInv
    <3>3. ASSUME NEW t \in Sender, uart_tx_send(t) PROVE LockInv' /\ QueueStep
      BY <3>3, SendPreserves, SendSteps DEF Task, QueueInv
    <3>4. CASE Type
      <4>1. pc' = pc /\ sem' = sem /\ ret' = ret /\ tx' = tx
        BY <3>4 DEF Type, uart0_irq_handler, taskVars
      <4> QED BY <4>1, UnchangedPreserves, NoSteps DEF QueueInv
    <3>5. ASSUME NEW t \in Sender, Report(t) PROVE LockInv' /\ QueueStep
      BY <3>5, ReportPreserves, ReportSteps DEF QueueInv
    <3>6. CASE UNCHANGED vars
      BY <3>6, UnchangedPreserves, NoSteps DEF vars, taskVars, dataVars, QueueInv
    <3> QED BY <3>1, <3>2, <3>3, <3>4, <3>5, <3>6 DEF Next, TaskStep
  <2> QED BY <2>1 DEF QueueInv, QueueStep
<1> QED BY <1>1, <1>2

(* Who is between lock and unlock of the transmit queue is alone there,    *)
(* and finds a ring whose indices and counter agree (uart_tx_send,         *)
(* uart_tx_receive).                                                       *)
THEOREM QueueInvariant == Spec => []QueueInv
BY QueueInductive, PTL DEF Spec

(* The ring and its counter are a queue: messages leave in the order in    *)
(* which they entered, each once, and one that meets a full ring is        *)
(* counted (uart_tx_queue_push, uart_tx_queue_pop), whoever preempts whom. *)
THEOREM OutputIsKept == Spec => ImplementsOutput
<1>1. QueueInv /\ [Next]_vars => QueueInv' /\ [Output!Next]_<<Pending, tx.overflow>>
  BY QueueInductive DEF OutputStep
<1> QED BY <1>1, QueueInductive, PTL DEF Spec, ImplementsOutput, Output!Spec

(***************************************************************************)
(* The receive ring.  First, what the interrupt handler makes of it, by    *)
(* induction on the number of characters that arrived.                     *)
(***************************************************************************)
Heard == Char \cup {"CR", "x"}

RxRings ==
  [buf : [0..BufSize - 1 -> Heard], head : 0..BufSize - 1, tail : 0..BufSize - 1,
   overflow : Nat, hw_overrun : Nat]

(* How many characters a ring holds, and which. *)
Held(r) == (r.head - r.tail) % BufSize
Chars(r) == [i \in 1..Held(r) |-> r.buf[(r.tail + i - 1) % BufSize]]

LEMMA DifferenceWraps ==
  ASSUME NEW n \in Nat \ {0}, NEW h \in 0..n - 1, NEW t \in 0..n - 1
  PROVE  (h - t) % n = IF t <= h THEN h - t ELSE h - t + n
<1>1. CASE t <= h
  <2> DEFINE a == h - t
  <2>1. a \in Nat /\ a < n
    BY <1>1
  <2> HIDE DEF a
  <2>2. a % n = a
    BY <2>1
  <2> QED BY <1>1, <2>2 DEF a
<1>2. CASE h < t
  <2> DEFINE a == h - t
  <2>1. a \in Int /\ -n < a /\ a < 0
    BY <1>2
  <2> HIDE DEF a
  <2>2. a % n = a + n
    BY <2>1
  <2> QED BY <1>2, <2>2 DEF a
<1> QED BY <1>1, <1>2

(* The head is Held(r) cells after the tail, and nothing else is. *)
LEMMA HeldFacts ==
  ASSUME NEW r \in RxRings
  PROVE  /\ BufSize \in Nat \ {0, 1} /\ r.head \in 0..BufSize - 1 /\ r.tail \in 0..BufSize - 1
         /\ Held(r) \in 0..BufSize - 1
         /\ r.head = (r.tail + Held(r)) % BufSize
         /\ Held(r) = 0 <=> r.head = r.tail
<1> DEFINE n == BufSize  h == r.head  t == r.tail  c == Held(r)
<1>1. n \in Nat \ {0, 1} /\ h \in 0..n - 1 /\ t \in 0..n - 1
  BY UartAssumption DEF RxRings
<1>2. c = IF t <= h THEN h - t ELSE h - t + n
  BY <1>1, DifferenceWraps DEF Held
<1> HIDE DEF n, h, t, c
<1>3. c \in 0..n - 1 /\ c \in 0..n
  BY <1>1, <1>2
<1>4. (t + c) % n = IF t + c < n THEN t + c ELSE t + c - n
  BY <1>1, <1>3, WrapsSum
<1>5. h = (t + c) % n /\ (c = 0 <=> h = t)
  BY <1>1, <1>2, <1>3, <1>4
<1> QED BY <1>1, <1>3, <1>5 DEF n, h, t, c

LEMMA Distance ==
  ASSUME NEW n \in Nat \ {0}, NEW t \in 0..n - 1, NEW c \in 0..n - 1
  PROVE  (((t + c) % n) - t) % n = c
<1> DEFINE h == (t + c) % n
<1>1. h = IF t + c < n THEN t + c ELSE t + c - n
  <2>1. c \in 0..n
    OBVIOUS
  <2> QED BY <2>1, WrapsSum
<1>2. h \in 0..n - 1
  BY <1>1
<1> HIDE DEF h
<1>3. (h - t) % n = IF t <= h THEN h - t ELSE h - t + n
  BY <1>2, DifferenceWraps
<1>4. (h - t) % n = c
  BY <1>1, <1>2, <1>3
<1> QED BY <1>4 DEF h

LEMMA CharsType ==
  ASSUME NEW r \in RxRings
  PROVE  /\ Chars(r) \in Seq(Heard) /\ Len(Chars(r)) = Held(r)
         /\ \A i \in 1..Held(r) : /\ (r.tail + i - 1) % BufSize \in 0..BufSize - 1
                                  /\ Chars(r)[i] = r.buf[(r.tail + i - 1) % BufSize]
                                  /\ (r.tail + i - 1) % BufSize # r.head
<1>1. /\ BufSize \in Nat \ {0} /\ r.tail \in 0..BufSize - 1
      /\ Held(r) \in 0..BufSize - 1 /\ r.head = (r.tail + Held(r)) % BufSize
  BY HeldFacts
<1>2. Held(r) \in 0..BufSize /\ Held(r) < BufSize /\ Held(r) \in Nat
  BY <1>1
<1>3. \A i \in 1..Held(r) : /\ (r.tail + i - 1) % BufSize \in 0..BufSize - 1
                            /\ (r.tail + i - 1) % BufSize # r.head
  BY <1>1, <1>2, RingCells
<1>4. r.buf \in [0..BufSize - 1 -> Heard]
  BY DEF RxRings
<1>5. \A i \in 1..Held(r) : r.buf[(r.tail + i - 1) % BufSize] \in Heard
  BY <1>3, <1>4
<1>6. Chars(r) \in Seq(Heard) /\ Len(Chars(r)) = Held(r)
  BY <1>2, <1>5 DEF Chars
<1> QED BY <1>3, <1>6 DEF Chars

(* A character is stored behind the others, or counted as lost. *)
PutEffect(p, r, d) ==
  /\ p \in RxRings /\ p.tail = r.tail /\ p.hw_overrun = r.hw_overrun
  /\ p.overflow >= r.overflow
  /\ p.overflow = r.overflow => Chars(p) = Append(Chars(r), d)
  /\ r.head # r.tail => p.head # p.tail /\ p.buf[p.tail] = r.buf[r.tail]

LEMMA Associate ==
  \A a, b, c \in Seq(Heard) : (a \o b) \o c = a \o (b \o c)
<1> SUFFICES ASSUME NEW a \in Seq(Heard), NEW b \in Seq(Heard), NEW c \in Seq(Heard)
             PROVE  (a \o b) \o c = a \o (b \o c)
  OBVIOUS
<1> QED BY ConcatAssociative

LEMMA PutStores ==
  ASSUME NEW r \in RxRings, NEW d \in Heard
  PROVE  PutEffect(uart_rxbuf_put(r, d), r, d)
<1> DEFINE n == BufSize  t == r.tail  c == Held(r)
           next == (r.head + 1) % n
           p == uart_rxbuf_put(r, d)
<1>1. /\ n \in Nat \ {0} /\ t \in 0..n - 1 /\ c \in 0..n - 1 /\ r.head \in 0..n - 1
      /\ r.head = (t + c) % n
  BY HeldFacts
<1>2. next = (t + (c + 1)) % n
  BY <1>1, RingUp
<1>3. next \in 0..n - 1
  BY <1>1
<1>4. CASE next = t
  <2>1. p = [r EXCEPT !.overflow = r.overflow + 1]
    BY <1>4 DEF uart_rxbuf_put
  <2>2. /\ p \in RxRings /\ p.tail = r.tail /\ p.hw_overrun = r.hw_overrun
        /\ p.head = r.head /\ p.buf = r.buf /\ p.overflow = r.overflow + 1 /\ r.overflow \in Nat
    BY <2>1 DEF RxRings
  <2> QED BY <2>2 DEF PutEffect
<1>5. CASE next # t
  <2>1. c + 1 \in 0..n - 1
    <3>1. c + 1 # n
      <4>1. SUFFICES ASSUME c + 1 = n PROVE FALSE
        OBVIOUS
      <4>2. n \in 0..n /\ (t + n) % n = IF t + n < n THEN t + n ELSE t + n - n
        BY <1>1, WrapsSum
      <4>3. (t + n) % n = t
        BY <1>1, <4>2
      <4> QED BY <1>2, <1>5, <4>1, <4>3
    <3> QED BY <1>1, <3>1
  <2>2. p = [r EXCEPT !.buf[r.head] = d, !.head = next]
    BY <1>5 DEF uart_rxbuf_put
  <2> HIDE DEF next
  <2>3. /\ p \in RxRings /\ p.tail = r.tail /\ p.hw_overrun = r.hw_overrun
        /\ p.overflow = r.overflow /\ r.overflow \in Nat
        /\ p.head = next /\ p.buf = [r.buf EXCEPT ![r.head] = d]
    <3> DEFINE q == [r EXCEPT !.buf[r.head] = d]
    <3>1. /\ q \in RxRings /\ q.buf = [r.buf EXCEPT ![r.head] = d] /\ q.tail = r.tail
          /\ q.overflow = r.overflow /\ q.hw_overrun = r.hw_overrun
      BY <1>1 DEF RxRings
    <3>2. p = [q EXCEPT !.head = next]
      BY <2>2 DEF RxRings
    <3> HIDE DEF q, p
    <3>3. /\ p \in RxRings /\ p.tail = q.tail /\ p.hw_overrun = q.hw_overrun
          /\ p.overflow = q.overflow /\ p.head = next /\ p.buf = q.buf
      BY <1>3, <3>1, <3>2 DEF RxRings
    <3>4. r.overflow \in Nat
      BY DEF RxRings
    <3> QED BY <3>1, <3>3, <3>4
  <2> HIDE DEF p
  <2>4. Held(p) = c + 1
    <3> DEFINE e == c + 1
    <3>1. p.head = (t + e) % n /\ p.tail = t /\ e \in 0..n - 1
      BY <1>2, <2>1, <2>3 DEF next
    <3> HIDE DEF e, t
    <3>2. (((t + e) % n) - t) % n = e
      BY <1>1, <3>1, Distance
    <3>3. Held(p) = e
      BY <3>1, <3>2 DEF Held
    <3> QED BY <3>3 DEF e
  <2>5. Chars(p) = Append(Chars(r), d)
    <3>1. Chars(r) \in Seq(Heard) /\ Len(Chars(r)) = c
      BY CharsType
    <3>2. /\ Append(Chars(r), d) \in Seq(Heard) /\ Len(Append(Chars(r), d)) = c + 1
          /\ \A i \in 1..c : Append(Chars(r), d)[i] = Chars(r)[i]
          /\ Append(Chars(r), d)[c + 1] = d
      BY <3>1
    <3>3. /\ Chars(p) \in Seq(Heard) /\ Len(Chars(p)) = c + 1
          /\ \A i \in 1..c + 1 : Chars(p)[i] = p.buf[(t + i - 1) % n]
      <4>1. p \in RxRings
        BY <2>3
      <4>2. /\ Chars(p) \in Seq(Heard) /\ Len(Chars(p)) = Held(p)
            /\ \A i \in 1..Held(p) : Chars(p)[i] = p.buf[(p.tail + i - 1) % BufSize]
        BY <4>1, CharsType
      <4>3. p.tail = t
        BY <2>3
      <4> QED BY <2>4, <4>2, <4>3
    <3>4. \A i \in 1..c : Chars(p)[i] = Chars(r)[i]
      <4> SUFFICES ASSUME NEW i \in 1..c PROVE Chars(p)[i] = Chars(r)[i]
        OBVIOUS
      <4>1. /\ (t + i - 1) % n \in 0..n - 1 /\ (t + i - 1) % n # r.head
            /\ Chars(r)[i] = r.buf[(t + i - 1) % n]
        BY CharsType
      <4>2. i \in 1..c + 1
        BY <1>1
      <4>3. r.buf \in [0..n - 1 -> Heard]
        BY DEF RxRings
      <4> QED BY <2>3, <3>3, <4>1, <4>2, <4>3
    <3>5. Chars(p)[c + 1] = d
      <4>1. c + 1 \in 1..c + 1 /\ t + (c + 1) - 1 = t + c
        BY <1>1
      <4>2. Chars(p)[c + 1] = p.buf[r.head]
        BY <1>1, <3>3, <4>1
      <4>3. r.buf \in [0..n - 1 -> Heard]
        BY DEF RxRings
      <4> QED BY <1>1, <2>3, <4>2, <4>3
    <3> HIDE DEF c, n, t
    <3>6. \A i \in 1..c + 1 : Chars(p)[i] = Append(Chars(r), d)[i]
      <4>1. \A i \in 1..c + 1 : i \in 1..c \/ i = c + 1
        BY <3>1
      <4> QED BY <3>2, <3>4, <3>5, <4>1
    <3> QED BY <3>2, <3>3, <3>6, SeqEqual
  <2>6. r.head # r.tail => p.buf[p.tail] = r.buf[r.tail]
    BY <1>1, <2>3 DEF RxRings
  <2>7. PutEffect(p, r, d)
    BY <1>5, <2>3, <2>5, <2>6 DEF PutEffect
  <2> QED BY <2>7 DEF p
<1> QED BY <1>4, <1>5

(* What the handler makes of the ring r, character by character. *)
Drains(k, r, burst, m) ==
  k = [n \in 0..m |-> IF n = 0 THEN r ELSE uart_rxbuf_put(k[n - 1], burst[n])]

(* What holds of 0, and of n + 1 with n, holds of every number. *)
LEMMA SetInduction ==
  ASSUME NEW U \in SUBSET Nat, 0 \in U, \A n \in U : n + 1 \in U
  PROVE  U = Nat
<1> SUFFICES ASSUME Nat \ U # {} PROVE FALSE
  OBVIOUS
<1> DEFINE V == Nat \ U
<1>1. V \in SUBSET Nat /\ V # {}
  OBVIOUS
<1>2. PICK m \in V : \A o \in V : <<o, m>> \notin OpToRel(<, Nat)
  <2> HIDE DEF V
  <2> QED BY <1>1, NatLessThanWellFounded, WFMin
<1>3. m - 1 \in Nat /\ (m - 1) + 1 = m /\ m - 1 < m
  OBVIOUS
<1>4. m - 1 \notin V
  BY <1>2, <1>3 DEF OpToRel
<1> QED BY <1>3, <1>4

LEMMA DrainsExists ==
  ASSUME NEW r, NEW burst, NEW m \in Nat
  PROVE  \E k : Drains(k, r, burst, m)
<1> DEFINE U == {j \in Nat : \E k : Drains(k, r, burst, j)}
<1>1. 0 \in U
  <2> DEFINE k == [n \in 0..0 |-> r]
  <2>1. k = [n \in 0..0 |-> IF n = 0 THEN r ELSE uart_rxbuf_put(k[n - 1], burst[n])]
    OBVIOUS
  <2> QED BY <2>1 DEF Drains
<1>2. ASSUME NEW j \in U PROVE j + 1 \in U
  <2>1. PICK k : Drains(k, r, burst, j)
    OBVIOUS
  <2> DEFINE g == [n \in 0..j + 1 |-> IF n = j + 1 THEN uart_rxbuf_put(k[j], burst[n]) ELSE k[n]]
             h == [n \in 0..j + 1 |-> IF n = 0 THEN r ELSE uart_rxbuf_put(g[n - 1], burst[n])]
  <2>2. j \in Nat /\ \A n \in 0..j : k[n] = IF n = 0 THEN r ELSE uart_rxbuf_put(k[n - 1], burst[n])
    BY <2>1 DEF Drains
  <2>3. ASSUME NEW n \in 0..j + 1 PROVE g[n] = h[n]
    <3>1. CASE n = j + 1
      <4>1. n # 0 /\ n - 1 = j /\ j \in 0..j + 1 /\ j # j + 1
        BY <2>2, <3>1
      <4>2. g[n - 1] = k[j]
        BY <4>1
      <4> QED BY <3>1, <4>1, <4>2
    <3>2. CASE n # j + 1
      <4>1. n \in 0..j /\ g[n] = k[n]
        BY <2>2, <3>2
      <4>2. n # 0 => n - 1 \in 0..j + 1 /\ n - 1 # j + 1
        BY <2>2, <4>1
      <4>3. n # 0 => g[n - 1] = k[n - 1]
        BY <4>2
      <4> QED BY <2>2, <4>1, <4>3
    <3> QED BY <3>1, <3>2
  <2>4. Drains(g, r, burst, j + 1)
    BY <2>3 DEF Drains
  <2> HIDE DEF g, h
  <2> QED BY <2>2, <2>4
<1>3. U = Nat
  <2> HIDE DEF U
  <2>1. U \in SUBSET Nat
    BY DEF U
  <2> QED BY <1>1, <1>2, <2>1, SetInduction
<1> QED BY <1>3

(* The ring p after the first n characters of a burst: the tail and what   *)
(* it points to stay; unless characters are lost, they are all in the ring.*)
BurstEffect(p, r, burst, n) ==
  /\ p \in RxRings /\ p.tail = r.tail /\ p.hw_overrun = r.hw_overrun
  /\ p.overflow >= r.overflow
  /\ p.overflow = r.overflow => Chars(p) = Chars(r) \o SubSeq(burst, 1, n)
  /\ r.head # r.tail => p.head # p.tail /\ p.buf[p.tail] = r.buf[r.tail]

LEMMA BurstStores ==
  ASSUME NEW r \in RxRings, NEW burst \in Seq(Heard)
  PROVE  BurstEffect(Drained(r, burst)[Len(burst)], r, burst, Len(burst))
<1> DEFINE k == Drained(r, burst)
           L == Len(burst)
           U == {n \in Nat : n <= L => BurstEffect(k[n], r, burst, n)}
<1>1. L \in Nat
  OBVIOUS
<1>2. Drains(k, r, burst, L)
  <2>1. \E f : Drains(f, r, burst, L)
    BY <1>1, DrainsExists
  <2>2. k = CHOOSE f : Drains(f, r, burst, L)
    BY DEF Drained, Drains
  <2> HIDE DEF k, L
  <2> QED BY <2>1, <2>2
<1> HIDE DEF k, L
<1>3. \A n \in 0..L : k[n] = IF n = 0 THEN r ELSE uart_rxbuf_put(k[n - 1], burst[n])
  BY <1>2 DEF Drains
<1>4. 0 \in U
  <2>1. k[0] = r
    BY <1>1, <1>3
  <2>2. Chars(r) \in Seq(Heard) /\ SubSeq(burst, 1, 0) = <<>>
    BY CharsType, SubSeqEmpty
  <2>3. Chars(r) = Chars(r) \o SubSeq(burst, 1, 0)
    BY <2>2, ConcatEmptySeq
  <2>4. r.overflow \in Nat
    BY DEF RxRings
  <2> QED BY <2>1, <2>3, <2>4 DEF BurstEffect
<1>5. ASSUME NEW n \in U PROVE n + 1 \in U
  <2> SUFFICES ASSUME n + 1 <= L PROVE BurstEffect(k[n + 1], r, burst, n + 1)
    OBVIOUS
  <2> DEFINE p == k[n]  q == k[n + 1]  d == burst[n + 1]
  <2>1. n \in Nat /\ n <= L /\ n + 1 \in 1..L /\ n + 1 \in 0..L /\ (n + 1) - 1 = n /\ n + 1 # 0
    BY <1>1
  <2>2. BurstEffect(p, r, burst, n)
    BY <2>1
  <2>3. q = uart_rxbuf_put(p, d)
    BY <1>3, <2>1
  <2>4. d \in Heard
    BY <2>1, ElementOfSeq DEF L
  <2>5. PutEffect(q, p, d)
    BY <2>2, <2>3, <2>4, PutStores DEF BurstEffect
  <2> HIDE DEF p, q, d
  <2>6. r.overflow \in Nat /\ p.overflow \in Nat /\ q.overflow \in Nat
    BY <2>2, <2>5 DEF BurstEffect, PutEffect, RxRings
  <2>7. ASSUME q.overflow = r.overflow
        PROVE  Chars(q) = Chars(r) \o SubSeq(burst, 1, n + 1)
    <3>1. p.overflow = r.overflow /\ q.overflow = p.overflow
      BY <2>2, <2>5, <2>6, <2>7 DEF BurstEffect, PutEffect
    <3>2. Chars(p) = Chars(r) \o SubSeq(burst, 1, n) /\ Chars(q) = Append(Chars(p), d)
      BY <2>2, <2>5, <3>1 DEF BurstEffect, PutEffect
    <3>3. Chars(r) \in Seq(Heard) /\ Chars(p) \in Seq(Heard)
      BY <2>2, CharsType DEF BurstEffect
    <3>4. SubSeq(burst, 1, n) \in Seq(Heard) /\ <<d>> \in Seq(Heard)
      <4>1. \A i \in 1..n : burst[i] \in Heard
        BY <1>1, <2>1, ElementOfSeq DEF L
      <4> QED BY <2>1, <2>4, <4>1, SubSeqProperties
    <3>5. SubSeq(burst, 1, n + 1) = SubSeq(burst, 1, n) \o <<d>>
      <4>1. 1 \in 1..Len(burst) /\ n + 1 \in 1..Len(burst)
        BY <1>1, <2>1 DEF L
      <4>2. SubSeq(burst, 1, n + 1) = SubSeq(burst, 1, (n + 1) - 1) \o <<burst[n + 1]>>
        BY <4>1, SubSeqRecursiveSecond
      <4> QED BY <2>1, <4>2 DEF d
    <3>6. Append(Chars(p), d) = Chars(p) \o <<d>>
      BY <2>4, <3>3, AppendIsConcat
    <3>7. (Chars(r) \o SubSeq(burst, 1, n)) \o <<d>> = Chars(r) \o (SubSeq(burst, 1, n) \o <<d>>)
      <4> DEFINE a == Chars(r)  b == SubSeq(burst, 1, n)  e == <<d>>
      <4>1. a \in Seq(Heard) /\ b \in Seq(Heard) /\ e \in Seq(Heard)
        BY <3>3, <3>4
      <4> HIDE DEF a, b, e
      <4>2. (a \o b) \o e = a \o (b \o e)
        BY <4>1, Associate
      <4> QED BY <4>2 DEF a, b, e
    <3> QED BY <3>2, <3>5, <3>6, <3>7
  <2>8. BurstEffect(q, r, burst, n + 1)
    BY <2>2, <2>5, <2>6, <2>7 DEF BurstEffect, PutEffect
  <2> QED BY <2>8 DEF q
<1>6. U = Nat
  <2> HIDE DEF U
  <2>1. U \in SUBSET Nat
    BY DEF U
  <2> QED BY <1>4, <1>5, <2>1, SetInduction
<1>7. BurstEffect(k[L], r, burst, L)
  BY <1>1, <1>6
<1> QED BY <1>7 DEF k, L

(***************************************************************************)
(* The receiving task and the history.  What the task has found in the     *)
(* ring is still there when it advances.                                   *)
(***************************************************************************)
Found ==
  /\ pc["rx"] = "start" => ~irq_enabled /\ typed = <<>> /\ taken = <<>>
  /\ pc["rx"] = "advance" => rx.head # rx.tail /\ console.c = rx.buf[rx.tail]

RxInv ==
  /\ rx \in RxRings /\ typed \in Seq(Heard) /\ taken \in Seq(Heard)
  /\ Found
  /\ NoSilentLoss

LEMMA BufferedIsChars == Buffered = Chars(rx) /\ Buffered' = Chars(rx')
BY DEF Buffered, Chars, Held

(* A step that leaves the ring and the history alone. *)
LEMMA RingRests ==
  ASSUME RxInv, UNCHANGED <<rx, typed, taken, irq_enabled>>,
         pc'["rx"] \in {"start", "advance"} => pc'["rx"] = pc["rx"] /\ console' = console
  PROVE  RxInv'
<1>1. Found'
  BY DEF RxInv, Found
<1>2. NoSilentLoss'
  BY BufferedIsChars DEF RxInv, NoSilentLoss
<1> QED BY <1>1, <1>2 DEF RxInv

LEMMA StepRests ==
  ASSUME LockInv, RxInv, NEW t, NEW from, NEW to, Step(t, from, to),
         to \notin {"start", "advance"}, UNCHANGED <<rx, typed, taken, irq_enabled>>,
         t = "rx" \/ console' = console
  PROVE  RxInv'
<1>1. "rx" \in Task /\ pc' = [pc EXCEPT ![t] = to] /\ t \in Task
  BY StepFacts DEF Task
<1>2. pc'["rx"] = IF t = "rx" THEN to ELSE pc["rx"]
  BY <1>1 DEF LockInv
<1> QED BY <1>2, RingRests

LEMMA PutTextRests ==
  ASSUME LockInv, RxInv, NEW t \in {"rx", "tx"}, PutText(t), UNCHANGED <<typed, irq_enabled>>
  PROVE  RxInv'
<1>1. UNCHANGED <<rx, typed, taken, irq_enabled, console>>
  BY DEF PutText, dataVars
<1>2. ret[t] \notin {"start", "advance"}
  BY DEF LockInv
<1>3. Step(t, "lock", "puts") \/ Step(t, "puts", "release") \/ Step(t, "release", ret[t])
  BY DEF PutText
<1> QED BY <1>1, <1>2, <1>3, StepRests

LEMMA SendRests ==
  ASSUME LockInv, RxInv, NEW t \in Task, uart_tx_send(t), UNCHANGED <<typed, irq_enabled>>
  PROVE  RxInv'
<1>1. UNCHANGED <<rx, typed, taken, irq_enabled, console>>
  BY DEF uart_tx_send, uart_tx_queue_push, uart_tx_count_up, dataVars
<1>2. ASSUME NEW from, Sent(t, from) PROVE RxInv'
  <2> DEFINE to == IF todo[t] > 1 THEN "send" ELSE IF t = "rx" THEN ret["rx"] ELSE "idle"
  <2>1. Step(t, from, to)
    BY <1>2 DEF Sent
  <2>2. to \notin {"start", "advance"}
    BY DEF LockInv
  <2> HIDE DEF to
  <2> QED BY <1>1, <2>1, <2>2, StepRests
<1>3. \/ \E from, to : Step(t, from, to) /\ to \in {"push", "refuse", "link", "unlock", "notify"}
      \/ \E from : Sent(t, from)
  BY DEF uart_tx_send, uart_tx_queue_push, uart_tx_count_up
<1> QED BY <1>1, <1>2, <1>3, StepRests

LEMMA TransmitRests ==
  ASSUME LockInv, RxInv, task_uarttx, UNCHANGED <<typed, irq_enabled>>
  PROVE  RxInv'
<1>1. CASE PutText("tx")
  BY <1>1, PutTextRests
<1>2. CASE ~PutText("tx")
  <2>1. UNCHANGED <<rx, typed, taken, irq_enabled, console>>
    BY <1>2 DEF task_uarttx, uart_tx_wait, uart_tx_receive, uart_tx_queue_pop, uart_tx_count_down,
                dataVars
  <2>2. \E from, to : /\ Step("tx", from, to)
                      /\ to \in {"lock", "receive", "pop", "empty", "unlink", "received", "wait"}
    BY <1>2 DEF task_uarttx, uart_tx_wait, uart_tx_receive, uart_tx_queue_pop, uart_tx_count_down
  <2> QED BY <2>1, <2>2, StepRests
<1> QED BY <1>1, <1>2

(* The task takes the character it has found. *)
LEMMA AdvanceTakes ==
  ASSUME LockInv, RxInv, uart_rx_advance, typed' = typed
  PROVE  RxInv'
<1> DEFINE n == BufSize  t == rx.tail  c == Held(rx)
<1>1. /\ "rx" \in Task /\ pc["rx"] = "advance" /\ pc' = [pc EXCEPT !["rx"] = "input"]
      /\ rx' = [rx EXCEPT !.tail = (rx.tail + 1) % BufSize]
      /\ taken' = Append(taken, console.c)
  BY StepFacts DEF uart_rx_advance, Task
<1>2. pc'["rx"] = "input"
  BY <1>1 DEF LockInv
<1>3. rx \in RxRings /\ taken \in Seq(Heard) /\ rx.head # rx.tail /\ console.c = rx.buf[rx.tail]
  BY <1>1 DEF RxInv, Found
<1>4. /\ n \in Nat \ {0} /\ t \in 0..n - 1 /\ c \in 1..n - 1 /\ rx.head = (t + c) % n
      /\ rx.head \in 0..n - 1
  BY <1>3, HeldFacts
<1>5. /\ rx' \in RxRings /\ rx'.tail = (t + 1) % n /\ rx'.head = rx.head /\ rx'.buf = rx.buf
      /\ rx'.overflow = rx.overflow /\ rx'.hw_overrun = rx.hw_overrun
  <2> DEFINE i == (t + 1) % n
  <2>1. i \in 0..n - 1
    BY <1>4
  <2>2. rx' = [rx EXCEPT !.tail = i]
    BY <1>1
  <2> HIDE DEF i
  <2>3. /\ rx' \in RxRings /\ rx'.tail = i /\ rx'.head = rx.head /\ rx'.buf = rx.buf
        /\ rx'.overflow = rx.overflow /\ rx'.hw_overrun = rx.hw_overrun
    BY <1>3, <2>1, <2>2 DEF RxRings
  <2> QED BY <2>3 DEF i
<1>6. \A d \in 0..n - 1 : (((t + 1) % n) + d) % n = (t + (d + 1)) % n
  BY <1>4, RingDown
<1>7. Held(rx') = c - 1
  <2> DEFINE s == (t + 1) % n  d == c - 1
  <2>1. d \in 0..n - 1 /\ d + 1 = c /\ s \in 0..n - 1
    BY <1>4
  <2>2. (s + d) % n = (t + (d + 1)) % n
    BY <1>6, <2>1
  <2>3. rx'.head = (s + d) % n /\ rx'.tail = s
    BY <1>4, <1>5, <2>1, <2>2
  <2> HIDE DEF s, d
  <2>4. (((s + d) % n) - s) % n = d
    BY <1>4, <2>1, Distance
  <2>5. Held(rx') = d
    BY <2>3, <2>4 DEF Held
  <2> QED BY <2>5 DEF d
<1>8. Chars(rx) = <<console.c>> \o Chars(rx')
  <2> DEFINE a == Chars(rx)  b == Chars(rx')
  <2>1. /\ a \in Seq(Heard) /\ Len(a) = c /\ b \in Seq(Heard) /\ Len(b) = c - 1
        /\ \A i \in 1..c : a[i] = rx.buf[(t + i - 1) % n]
    BY <1>3, <1>5, <1>7, CharsType
  <2>2. \A i \in 1..c - 1 : b[i] = rx.buf[(((t + 1) % n) + i - 1) % n]
    BY <1>5, <1>7 DEF Chars
  <2>3. a[1] = console.c /\ console.c \in Heard
    <3>1. 1 \in 1..c /\ t + 1 - 1 = t /\ t % n = t
      BY <1>4
    <3>2. a[1] = rx.buf[t]
      BY <2>1, <3>1
    <3> QED BY <1>3, <1>4, <3>2 DEF RxRings
  <2>4. ASSUME NEW i \in 1..c - 1 PROVE b[i] = a[i + 1]
    <3>1. i - 1 \in 0..n - 1 /\ i + 1 \in 1..c /\ (i - 1) + 1 = (i + 1) - 1
      BY <1>4
    <3>2. (((t + 1) % n) + (i - 1)) % n = (t + ((i - 1) + 1)) % n
      BY <1>6, <3>1
    <3>3. /\ ((t + 1) % n) + (i - 1) = ((t + 1) % n) + i - 1
          /\ t + ((i - 1) + 1) = t + (i + 1) - 1
      BY <1>4
    <3>4. a[i + 1] = rx.buf[(t + (i + 1) - 1) % n]
      BY <2>1, <3>1
    <3> QED BY <2>2, <3>2, <3>3, <3>4
  <2> DEFINE e == <<console.c>>
  <2>5. e \in Seq(Heard) /\ Len(e) = 1 /\ e[1] = console.c
    BY <2>3
  <2> HIDE DEF a, b, e, c, n, t
  <2>6. /\ e \o b \in Seq(Heard) /\ Len(e \o b) = 1 + (c - 1)
        /\ \A i \in 1..1 + (c - 1) : (e \o b)[i] = IF i <= 1 THEN e[i] ELSE b[i - 1]
    <3>1. /\ e \o b \in Seq(Heard) /\ Len(e \o b) = Len(e) + Len(b)
          /\ \A i \in 1..Len(e) + Len(b) :
               (e \o b)[i] = IF i <= Len(e) THEN e[i] ELSE b[i - Len(e)]
      BY <2>1, <2>5, ConcatProperties
    <3>2. Len(e) = 1 /\ Len(b) = c - 1
      BY <2>1, <2>5
    <3> QED BY <3>1, <3>2
  <2>7. c \in Nat /\ 1 + (c - 1) = c
    BY <2>1, <1>4
  <2>8. ASSUME NEW i \in 1..c PROVE a[i] = (e \o b)[i]
    <3>1. CASE i = 1
      BY <2>3, <2>5, <2>6, <2>7, <3>1
    <3>2. CASE i # 1
      <4>1. i - 1 \in 1..c - 1 /\ (i - 1) + 1 = i /\ ~(i <= 1) /\ i \in 1..1 + (c - 1)
        BY <2>7, <3>2
      <4> QED BY <2>4, <2>6, <4>1
    <3> QED BY <3>1, <3>2
  <2>9. a = e \o b
    BY <2>1, <2>6, <2>7, <2>8, SeqEqual
  <2> QED BY <2>9 DEF a, b, e
<1>9. taken' \in Seq(Heard) /\ taken' \o Chars(rx') = taken \o Chars(rx)
  <2> DEFINE b == Chars(rx')  e == <<console.c>>
  <2>1. console.c \in Heard
    BY <1>3, <1>4 DEF RxRings
  <2>2. b \in Seq(Heard) /\ e \in Seq(Heard) /\ taken' = taken \o e
    BY <1>1, <1>3, <1>5, <2>1, CharsType, AppendIsConcat
  <2>3. Chars(rx) = e \o b
    BY <1>8
  <2> HIDE DEF b, e
  <2>4. (taken \o e) \o b = taken \o (e \o b) /\ taken \o e \in Seq(Heard)
    BY <1>3, <2>2, ConcatAssociative
  <2> QED BY <2>2, <2>3, <2>4 DEF b
<1>10. NoSilentLoss'
  BY <1>5, <1>9, BufferedIsChars DEF RxInv, NoSilentLoss
<1> QED BY <1>2, <1>5, <1>9, <1>10 DEF RxInv, Found

LEMMA ReceiveKeepsRx ==
  ASSUME LockInv, RxInv, task_uartrx, typed' = typed
  PROVE  RxInv'
<1>1. CASE StartRx
  <2>1. /\ pc["rx"] = "start" /\ pc' = [pc EXCEPT !["rx"] = "send"] /\ taken' = taken
        /\ rx' = [rx EXCEPT !.head = 0, !.tail = 0, !.overflow = 0, !.hw_overrun = 0]
    BY <1>1, StepFacts DEF StartRx
  <2>2. pc'["rx"] = "send"
    BY <2>1 DEF LockInv, Task
  <2>3. rx \in RxRings /\ 0 \in 0..BufSize - 1
    BY UartAssumption DEF RxInv
  <2>4. rx' \in RxRings /\ rx'.head = rx'.tail
    BY <2>1, <2>3 DEF RxRings
  <2>5. Chars(rx') = <<>>
    <3>1. Held(rx') = 0
      BY <2>4, HeldFacts
    <3>2. Chars(rx') \in Seq(Heard) /\ Len(Chars(rx')) = 0
      BY <2>4, <3>1, CharsType
    <3> QED BY <3>2
  <2>6. typed = <<>> /\ taken = <<>>
    BY <2>1 DEF RxInv, Found
  <2>7. NoSilentLoss'
    BY <2>1, <2>5, <2>6, BufferedIsChars DEF NoSilentLoss
  <2> QED BY <2>1, <2>2, <2>4, <2>7 DEF RxInv, Found
<1>2. CASE WaitForInput
  BY <1>2, StepRests DEF WaitForInput, dataVars
<1>3. CASE uart_rx_getc
  <2>1. UNCHANGED <<rx, typed, taken, irq_enabled>>
    BY <1>3 DEF uart_rx_getc
  <2>2. CASE rx.head = rx.tail
    BY <1>3, <2>1, <2>2, StepRests DEF uart_rx_getc
  <2>3. CASE rx.head # rx.tail
    <3>1. /\ pc' = [pc EXCEPT !["rx"] = "advance"] /\ "rx" \in Task
          /\ console' = [console EXCEPT !.c = rx.buf[rx.tail]]
      BY <1>3, <2>3, StepFacts DEF uart_rx_getc
    <3>2. pc'["rx"] = "advance"
      BY <3>1 DEF LockInv
    <3>3. console'.c = rx.buf[rx.tail]
      BY <3>1
    <3>4. Found'
      BY <2>1, <2>3, <3>2, <3>3 DEF Found
    <3>5. NoSilentLoss'
      BY <2>1, BufferedIsChars DEF RxInv, NoSilentLoss
    <3> QED BY <2>1, <3>4, <3>5 DEF RxInv
  <2> QED BY <2>2, <2>3
<1>4. CASE uart_rx_advance
  BY <1>4, AdvanceTakes
<1>5. CASE console_input_char
  <2>1. UNCHANGED <<rx, typed, taken, irq_enabled>>
    BY <1>5 DEF console_input_char
  <2>2. Step("rx", "input", "send") \/ Step("rx", "input", "getc") \/ Step("rx", "input", "lock")
    BY <1>5 DEF console_input_char, Execute, Edit
  <2> QED BY <2>1, <2>2, StepRests
<1>6. CASE PutText("rx") /\ UNCHANGED irq_enabled
  BY <1>6, PutTextRests
<1>7. CASE uart_tx_send("rx") /\ UNCHANGED irq_enabled
  BY <1>7, SendRests DEF Task
<1> QED BY <1>1, <1>2, <1>3, <1>4, <1>5, <1>6, <1>7 DEF task_uartrx

(* The interrupt handler stores what was typed, or counts a loss. *)
LEMMA TypeKeepsRx ==
  ASSUME LockInv, RxInv, Type
  PROVE  RxInv'
<1>1. PICK burst \in UNION {[1..n -> Char] : n \in 1..FifoSize}, overrun \in BOOLEAN :
        /\ typed' = typed \o (IF overrun THEN Append(burst, "x") ELSE burst)
        /\ uart0_irq_handler(burst, overrun)
  BY DEF Type
<1>2. burst \in Seq(Heard)
  <2>1. PICK n \in 1..FifoSize : burst \in [1..n -> Char]
    OBVIOUS
  <2>2. n \in Nat
    BY UartAssumption
  <2>3. burst \in [1..n -> Heard]
    BY <2>1 DEF Heard
  <2> QED BY <2>2, <2>3
<1> DEFINE seen == IF overrun THEN [rx EXCEPT !.hw_overrun = @ + 1] ELSE rx
           p == Drained(seen, burst)[Len(burst)]
<1>3. rx' = p /\ irq_enabled /\ UNCHANGED <<pc, console, taken, irq_enabled>>
  BY <1>1 DEF uart0_irq_handler, taskVars
<1>4. rx \in RxRings
  BY DEF RxInv
<1>5. /\ seen \in RxRings /\ seen.head = rx.head /\ seen.tail = rx.tail /\ seen.buf = rx.buf
      /\ seen.overflow = rx.overflow
      /\ overrun => seen.hw_overrun > 0
      /\ ~overrun => seen = rx
      /\ seen.hw_overrun >= rx.hw_overrun
  BY <1>4 DEF RxRings
<1> HIDE DEF seen
<1>6. BurstEffect(p, seen, burst, Len(burst))
  BY <1>2, <1>5, BurstStores
<1> HIDE DEF p
<1>7. typed' \in Seq(Heard)
  <2>1. "x" \in Heard /\ typed \in Seq(Heard)
    BY DEF Heard, RxInv
  <2> QED BY <1>1, <1>2, <2>1
<1>8. Found'
  <2>1. pc["rx"] # "start"
    BY <1>3 DEF RxInv, Found
  <2>2. pc["rx"] = "advance" => p.head # p.tail /\ console.c = p.buf[p.tail]
    BY <1>5, <1>6 DEF RxInv, Found, BurstEffect
  <2> QED BY <1>3, <2>1, <2>2 DEF Found
<1>9. NoSilentLoss'
  <2> SUFFICES ASSUME p.overflow = 0, p.hw_overrun = 0 PROVE typed' = taken \o Chars(p)
    BY <1>3, BufferedIsChars DEF NoSilentLoss
  <2>1. ~overrun /\ seen = rx
    BY <1>5, <1>6 DEF BurstEffect, RxRings
  <2>2. rx.overflow = 0 /\ rx.hw_overrun = 0 /\ p.overflow = rx.overflow
    BY <1>4, <1>6, <2>1 DEF BurstEffect, RxRings
  <2>3. typed = taken \o Chars(rx)
    BY <2>2, BufferedIsChars DEF RxInv, NoSilentLoss
  <2>4. SubSeq(burst, 1, Len(burst)) = burst
    BY <1>2, SubSeqFull
  <2>5. Chars(p) = Chars(rx) \o burst
    BY <1>6, <2>1, <2>2, <2>4 DEF BurstEffect
  <2>6. typed' = typed \o burst
    BY <1>1, <2>1
  <2>7. (taken \o Chars(rx)) \o burst = taken \o (Chars(rx) \o burst)
    <3> DEFINE a == Chars(rx)
    <3>1. a \in Seq(Heard) /\ taken \in Seq(Heard)
      BY <1>4, CharsType DEF RxInv
    <3> HIDE DEF a
    <3>2. (taken \o a) \o burst = taken \o (a \o burst)
      BY <1>2, <3>1, Associate
    <3> QED BY <3>2 DEF a
  <2> QED BY <2>3, <2>5, <2>6, <2>7
<1>10. rx' \in RxRings /\ taken' \in Seq(Heard)
  BY <1>3, <1>6 DEF BurstEffect, RxInv
<1> QED BY <1>7, <1>8, <1>9, <1>10 DEF RxInv

LEMMA ReportRests ==
  ASSUME LockInv, RxInv, NEW t \in Sender, Report(t)
  PROVE  RxInv'
<1>1. /\ t \in Task /\ pc' = [pc EXCEPT ![t] = "send"]
      /\ UNCHANGED <<rx, typed, taken, irq_enabled, console>>
  BY DEF Report, dataVars, Task
<1>2. pc'["rx"] \in {"start", "advance"} => pc'["rx"] = pc["rx"]
  BY <1>1 DEF LockInv, Task
<1> QED BY <1>1, <1>2, RingRests

LEMMA RxInductive ==
  /\ Init => RxInv
  /\ LockInv /\ RxInv /\ [Next]_vars => RxInv'
<1>1. ASSUME Init PROVE RxInv
  <2>1. rx \in RxRings /\ rx.head = rx.tail
    BY <1>1, UartAssumption DEF Init, RxRings, Heard
  <2>2. Chars(rx) = <<>>
    <3>1. Held(rx) = 0
      BY <2>1, HeldFacts
    <3>2. Chars(rx) \in Seq(Heard) /\ Len(Chars(rx)) = 0
      BY <2>1, <3>1, CharsType
    <3> QED BY <3>2
  <2>3. typed = <<>> /\ taken = <<>> /\ ~irq_enabled /\ pc["rx"] # "advance"
    BY <1>1 DEF Init, Task
  <2>4. NoSilentLoss
    BY <2>2, <2>3, BufferedIsChars DEF NoSilentLoss
  <2> QED BY <2>1, <2>3, <2>4 DEF RxInv, Found
<1>2. ASSUME LockInv, RxInv, [Next]_vars PROVE RxInv'
  <2>1. CASE task_uartrx /\ UNCHANGED <<typed, sent>>
    BY <1>2, <2>1, ReceiveKeepsRx
  <2>2. CASE task_uarttx /\ UNCHANGED irq_enabled /\ UNCHANGED <<typed, sent>>
    BY <1>2, <2>2, TransmitRests
  <2>3. ASSUME NEW t \in Sender, uart_tx_send(t), UNCHANGED irq_enabled, UNCHANGED <<typed, sent>>
        PROVE  RxInv'
    BY <1>2, <2>3, SendRests DEF Task
  <2>4. CASE Type
    BY <1>2, <2>4, TypeKeepsRx
  <2>5. ASSUME NEW t \in Sender, Report(t) PROVE RxInv'
    BY <1>2, <2>5, ReportRests
  <2>6. CASE UNCHANGED vars
    BY <1>2, <2>6, RingRests DEF vars, dataVars, taskVars
  <2> QED BY <1>2, <2>1, <2>2, <2>3, <2>4, <2>5, <2>6 DEF Next, TaskStep
<1> QED BY <1>1, <1>2

(* What was typed has been taken or is in the ring, in order, unless a     *)
(* loss was counted: the interrupt handler and the task share the ring     *)
(* without a lock (uart_rxbuf_put, uart_rx_getc).                          *)
THEOREM LossesAreCounted == Spec => []NoSilentLoss
<1>1. RxInv => NoSilentLoss
  BY DEF RxInv
<1> QED BY <1>1, RxInductive, PrinterLock, PTL DEF Spec
=============================================================================
