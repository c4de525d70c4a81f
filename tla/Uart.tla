-------------------------------- MODULE Uart --------------------------------
(***************************************************************************)
(* The serial console: the interrupt-driven receive ring of uart.c, the    *)
(* receiving task with its line editor (task_uartrx.c, console.c), the     *)
(* transmit queue that any task sends to (uart_tx.c), the transmitting     *)
(* task (task_uarttx.c) and the lock on the transmitter (uart_sync.c).     *)
(*                                                                         *)
(* Between kernel calls the steps are those a preemption can separate: the *)
(* cell of a ring and the index that publishes it, taking a lock and using *)
(* what it guards.  An interrupt handler is one step.  A message (its      *)
(* first 127 bytes) is known by its sender; a character is "x", any        *)
(* regular one, "BS" (also DEL), or "CR".                                  *)
(***************************************************************************)
EXTENDS TaskCalls

CONSTANTS
  Sender,       \* the tasks that report with uart_tx_send or _printf
  Priority,     \* of all tasks; "rx" is above "tx" (usermain.c)
  QueueSize,    \* UART_TX_QUEUE_SIZE, 32
  BufSize,      \* UART_RX_BUF_SIZE, 128
  LineSize,     \* CONSOLE_LINE_BUF_SIZE, 128
  FifoSize,     \* the hardware FIFO
  OutputLines,  \* the numbers of messages a command sends
  Char, MaxTyped, MaxSent  \* bounds on the input

Task == Sender \cup {"rx", "tx"}

ASSUME UartAssumption ==
  /\ {QueueSize, LineSize, FifoSize} \subseteq Nat \ {0}
  /\ BufSize \in Nat /\ BufSize > 1
  /\ Priority \in [Task -> Nat]

VARIABLES
  pc,      \* of each task
  ret,     \* where rx and tx go on after a message is sent, a text printed
  todo,    \* the number of messages that a task has to send
  sem,     \* uart_tx_semid ("queue") and uart_sync_semid ("sync")
  flg,     \* uart_tx_flgid ("tx") and uart_rx_flgid ("rx")
  tx,      \* the statics of uart_tx.c, and the text tx has received
  rx,      \* the statics of uart.c
  console, \* the character rx works on, and console_line_buf in use
  irq_enabled,
  typed, taken,  \* history: characters sent to, and taken by, the console
  sent           \* history: the number of reports begun

taskVars == <<pc, ret, todo>>
dataVars == <<tx, rx, console, taken>>
vars == <<taskVars, sem, flg, dataVars, irq_enabled, typed, sent>>

Ready == Task \ (UNION {ToSet(sem[s].wai) : s \in {"queue", "sync"}}
                 \cup {t \in {"rx", "tx"} : flg[t].wai}
                 \cup {t \in Sender : pc[t] = "idle"})

(* t executes at from, and goes on at to. *)
Step(t, from, to) ==
  pc[t] = from /\ Runs(t, Ready, Priority) /\ pc' = [pc EXCEPT ![t] = to]

Wait(s, t) == sem' = [sem EXCEPT ![s] = tk_wai_sem(@, t)] /\ UNCHANGED flg
Signal(s)  == sem' = [sem EXCEPT ![s] = tk_sig_sem(@)] /\ UNCHANGED flg

Init ==
  /\ pc = [t \in Task |-> IF t \in Sender THEN "idle" ELSE "start"]
  /\ ret = [t \in {"rx", "tx"} |-> "wait"]
  /\ todo = [t \in Task |-> 0]
  /\ sem = [s \in {"queue", "sync"} |-> FreeSem]
  /\ flg = [t \in {"rx", "tx"} |-> ClearFlg]
  /\ tx = [queue |-> [i \in 0..QueueSize - 1 |-> "tx"], text |-> "tx",
           head |-> 0, tail |-> 0, count |-> 0, overflow |-> 0]
  /\ rx = [buf |-> [i \in 0..BufSize - 1 |-> "CR"], head |-> 0, tail |-> 0,
           overflow |-> 0, hw_overrun |-> 0]
  /\ console = [c |-> "CR", line |-> <<>>]
  /\ irq_enabled = FALSE
  /\ typed = <<>> /\ taken = <<>> /\ sent = 0

(***************************************************************************)
(* uart_tx_send.  Whatever the push returned, the semaphore is given back; *)
(* the transmitting task is notified after that, of a stored message only. *)
(* Callers ignore the result.                                              *)
(***************************************************************************)

(* Mutant: a full queue takes one more. *)
uart_tx_queue_push_over(t) ==
  /\ IF tx.count > QueueSize
     THEN Step(t, "push", "refuse") /\ tx' = [tx EXCEPT !.overflow = @ + 1]
     ELSE Step(t, "push", "link") /\ tx' = [tx EXCEPT !.queue[tx.head] = t]
  /\ UNCHANGED <<ret, todo, sem, flg, rx, console, taken>>

uart_tx_queue_push(t) ==
  /\ IF tx.count >= QueueSize
     THEN Step(t, "push", "refuse") /\ tx' = [tx EXCEPT !.overflow = @ + 1]
     ELSE Step(t, "push", "link") /\ tx' = [tx EXCEPT !.queue[tx.head] = t]
  /\ UNCHANGED <<ret, todo, sem, flg, rx, console, taken>>

uart_tx_count_up(t) ==
  /\ Step(t, "link", "unlock")
  /\ tx' = [tx EXCEPT !.head = (@ + 1) % QueueSize, !.count = @ + 1]
  /\ UNCHANGED <<ret, todo, sem, flg, rx, console, taken>>

(* The call returns, to send the next message or to what follows. *)
Sent(t, from) ==
  /\ Step(t, from, IF todo[t] > 1 THEN "send"
                   ELSE IF t = "rx" THEN ret["rx"] ELSE "idle")
  /\ todo' = [todo EXCEPT ![t] = @ - 1]

uart_tx_send(t) ==
  \/ Step(t, "send", "push") /\ Wait("queue", t) /\ UNCHANGED <<ret, todo, dataVars>>
  \/ uart_tx_queue_push(t)
  \/ uart_tx_count_up(t)
  \/ Sent(t, "refuse") /\ Signal("queue") /\ UNCHANGED <<ret, dataVars>>
  \/ Step(t, "unlock", "notify") /\ Signal("queue") /\ UNCHANGED <<ret, todo, dataVars>>
  \/ /\ Sent(t, "notify") /\ flg' = [flg EXCEPT !["tx"] = tk_set_flg(@)]
     /\ UNCHANGED <<ret, sem, dataVars>>

(***************************************************************************)
(* The transmitter is used between uart_sync_lock and uart_sync_unlock, by *)
(* the transmitting task and for the echo.  The characters go out one by   *)
(* one, waiting for room in the hardware: until the last is written the    *)
(* task is at "puts".                                                      *)
(***************************************************************************)

(* Mutant: no lock. *)
PutText_unlocked(t) ==
  /\ Step(t, "lock", "puts") \/ Step(t, "puts", "release") \/ Step(t, "release", ret[t])
  /\ UNCHANGED <<ret, todo, sem, flg, dataVars>>

PutText(t) ==
  \/ Step(t, "lock", "puts") /\ Wait("sync", t) /\ UNCHANGED <<ret, todo, dataVars>>
  \/ Step(t, "puts", "release") /\ UNCHANGED <<ret, todo, sem, flg, dataVars>>
  \/ Step(t, "release", ret[t]) /\ Signal("sync") /\ UNCHANGED <<ret, todo, dataVars>>

(***************************************************************************)
(* The transmitting task: a banner, then all that is queued each time it   *)
(* is notified.                                                            *)
(***************************************************************************)
(* Mutant: one message for each notification. *)
uart_tx_wait_once ==
  /\ Step("tx", "wait", "receive")
  /\ flg' = [flg EXCEPT !["tx"] = tk_wai_flg(@)]
  /\ UNCHANGED <<ret, todo, sem, dataVars>>

uart_tx_wait ==
  /\ Step("tx", "wait", "receive")
  /\ flg' = [flg EXCEPT !["tx"] = tk_wai_flg(@)]
  /\ ret' = [ret EXCEPT !["tx"] = "receive"]
  /\ UNCHANGED <<todo, sem, dataVars>>

uart_tx_queue_pop ==
  /\ IF tx.count = 0
     THEN Step("tx", "pop", "empty") /\ UNCHANGED tx
     ELSE Step("tx", "pop", "unlink") /\ tx' = [tx EXCEPT !.text = tx.queue[tx.tail]]
  /\ UNCHANGED <<ret, todo, sem, flg, rx, console, taken>>

uart_tx_count_down ==
  /\ Step("tx", "unlink", "received")
  /\ tx' = [tx EXCEPT !.tail = (@ + 1) % QueueSize, !.count = @ - 1]
  /\ UNCHANGED <<ret, todo, sem, flg, rx, console, taken>>

uart_tx_receive ==
  \/ Step("tx", "receive", "pop") /\ Wait("queue", "tx") /\ UNCHANGED <<ret, todo, dataVars>>
  \/ uart_tx_queue_pop
  \/ uart_tx_count_down
  \/ Step("tx", "empty", "wait") /\ Signal("queue") /\ UNCHANGED <<ret, todo, dataVars>>
  \/ Step("tx", "received", "lock") /\ Signal("queue") /\ UNCHANGED <<ret, todo, dataVars>>

task_uarttx ==
  \/ Step("tx", "start", "lock") /\ UNCHANGED <<ret, todo, sem, flg, dataVars>>
  \/ uart_tx_wait
  \/ uart_tx_receive
  \/ PutText("tx")

(***************************************************************************)
(* Receiving.  The ring keeps one cell free; the handler drains the FIFO   *)
(* and notifies if it could store anything.                                *)
(***************************************************************************)

(* Mutant: a full ring is not noticed. *)
uart_rxbuf_put_over(r, data) ==
  [r EXCEPT !.buf[r.head] = data, !.head = (r.head + 1) % BufSize]

uart_rxbuf_put(r, data) ==
  LET next == (r.head + 1) % BufSize
  IN  IF next = r.tail THEN [r EXCEPT !.overflow = @ + 1]
      ELSE [r EXCEPT !.buf[r.head] = data, !.head = next]

(* What the ring r is after each of the characters of burst. *)
Drained(r, burst) ==
  LET ring[n \in 0..Len(burst)] ==
        IF n = 0 THEN r ELSE uart_rxbuf_put(ring[n - 1], burst[n])
  IN  ring

(* burst is what arrived since the last interrupt: as much as fits in the  *)
(* FIFO, and perhaps a character more, which overran it.                   *)
uart0_irq_handler(burst, overrun) ==
  LET seen   == IF overrun THEN [rx EXCEPT !.hw_overrun = @ + 1] ELSE rx
      stored == Drained(seen, burst)[Len(burst)]
  IN  /\ irq_enabled
      /\ rx' = stored
      /\ flg' = IF stored.head = rx.head THEN flg
                ELSE [flg EXCEPT !["rx"] = tk_set_flg(@)]
      /\ UNCHANGED <<taskVars, sem, tx, console, taken, irq_enabled, sent>>

Type ==
  \E burst \in UNION {[1..n -> Char] : n \in 1..FifoSize}, overrun \in BOOLEAN :
    LET arrived == IF overrun THEN Append(burst, "x") ELSE burst
    IN  /\ overrun => Len(burst) = FifoSize
        /\ Len(typed) + Len(arrived) <= MaxTyped
        /\ typed' = typed \o arrived
        /\ uart0_irq_handler(burst, overrun)

(* uart_rxbuf_init, console_init, uart_rx_irq_enable; then the banner and *)
(* the prompt are sent.                                                   *)
StartRx ==
  /\ Step("rx", "start", "send")
  /\ rx' = [rx EXCEPT !.head = 0, !.tail = 0, !.overflow = 0, !.hw_overrun = 0]
  /\ console' = [console EXCEPT !.line = <<>>]
  /\ irq_enabled' = TRUE
  /\ todo' = [todo EXCEPT !["rx"] = 2]
  /\ UNCHANGED <<ret, sem, flg, tx, taken>>

WaitForInput ==
  /\ Step("rx", "wait", "getc")
  /\ flg' = [flg EXCEPT !["rx"] = tk_wai_flg(@)]
  /\ ret' = [ret EXCEPT !["rx"] = "getc"]
  /\ UNCHANGED <<todo, sem, dataVars, irq_enabled>>

uart_rx_getc ==
  /\ IF rx.head = rx.tail
     THEN Step("rx", "getc", "wait") /\ UNCHANGED console
     ELSE Step("rx", "getc", "advance") /\ console' = [console EXCEPT !.c = rx.buf[rx.tail]]
  /\ UNCHANGED <<ret, todo, sem, flg, tx, rx, taken, irq_enabled>>

uart_rx_advance ==
  /\ Step("rx", "advance", "input")
  /\ rx' = [rx EXCEPT !.tail = (@ + 1) % BufSize]
  /\ taken' = Append(taken, console.c)
  /\ UNCHANGED <<ret, todo, sem, flg, tx, console, irq_enabled>>

(* CR sends a new line, the output of the command and the prompt; only a   *)
(* line with a word in it is a command.                                    *)
Execute ==
  /\ console.c = "CR" /\ Step("rx", "input", "send")
  /\ \E n \in IF console.line = <<>> THEN {0} ELSE OutputLines :
       todo' = [todo EXCEPT !["rx"] = 1 + n + 1]
  /\ console' = [console EXCEPT !.line = <<>>]

Edit ==
  /\ \/ console.c = "BS" /\ console.line = <<>> /\ Step("rx", "input", "getc") /\ UNCHANGED console
     \/ /\ console.c = "BS" /\ console.line # <<>> /\ Step("rx", "input", "lock")
        /\ console' = [console EXCEPT !.line = Front(@)]
     \/ /\ console.c = "x" /\ Step("rx", "input", "lock")
        /\ console' = IF Len(console.line) < LineSize - 1
                      THEN [console EXCEPT !.line = Append(@, "x")] ELSE console
  /\ UNCHANGED todo

console_input_char == (Execute \/ Edit) /\ UNCHANGED <<ret, sem, flg, tx, rx, taken, irq_enabled>>

task_uartrx ==
  \/ StartRx
  \/ WaitForInput
  \/ uart_rx_getc
  \/ uart_rx_advance
  \/ console_input_char
  \/ (PutText("rx") \/ uart_tx_send("rx")) /\ UNCHANGED irq_enabled

(* A task has something to report: its delay or its event is over. *)
Report(t) ==
  /\ pc[t] = "idle" /\ sent < MaxSent /\ sent' = sent + 1
  /\ pc' = [pc EXCEPT ![t] = "send"]
  /\ todo' = [todo EXCEPT ![t] = 1]
  /\ UNCHANGED <<ret, sem, flg, dataVars, irq_enabled, typed>>

TaskStep ==
  /\ \/ task_uartrx
     \/ (task_uarttx \/ \E t \in Sender : uart_tx_send(t)) /\ UNCHANGED irq_enabled
  /\ UNCHANGED <<typed, sent>>

Next ==
  \/ TaskStep
  \/ Type
  \/ \E t \in Sender : Report(t)

Spec == Init /\ [][Next]_vars

(* The processor executes the task that is to run. *)
FairSpec == Spec /\ WF_vars(TaskStep)

(***************************************************************************)
(* Properties.                                                             *)
(***************************************************************************)

(* Whoever preempts whom, the ring and its counter are a queue from which  *)
(* messages leave in order and once, and every message refused is counted  *)
(* (uart_tx_send, uart_tx_receive).                                        *)
Pending == [i \in 1..tx.count |-> tx.queue[(tx.tail + i - 1) % QueueSize]]
Output == INSTANCE OutputQueue WITH Msg <- Task, Size <- QueueSize, chan <- Pending, lost <- tx.overflow
ImplementsOutput == Output!Spec

(* No text is printed into the middle of another one: the echo waits for   *)
(* the end of a message, and the message for the end of the echo           *)
(* (uart_sync_lock in task_uarttx.c and console.c).                        *)
MessagesStayWhole ==
  ~\A t \in {"rx", "tx"} : pc[t] = "puts" /\ t \notin ToSet(sem["sync"].wai)

(* As long as neither counter of lost characters has moved, the console    *)
(* has taken exactly what was typed, in order; the rest is in the ring     *)
(* (uart_rxbuf_put beside uart_rx_getc without a lock).                    *)
Buffered == [i \in 1..(rx.head - rx.tail) % BufSize |-> rx.buf[(rx.tail + i - 1) % BufSize]]
NoSilentLoss ==
  rx.overflow = 0 /\ rx.hw_overrun = 0 => typed = taken \o Buffered

(* When input stops, all of it is taken and all output is printed, and     *)
(* both tasks wait: no notification is lost between a last look at a ring  *)
(* and the wait for the flag.                                              *)
Settles ==
  <>[](/\ rx.head = rx.tail /\ flg["rx"].wai
       /\ tx.count = 0 /\ flg["tx"].wai)
=============================================================================
