------------------------------ MODULE FlashLog ------------------------------
(***************************************************************************)
(* The log of motion events in the flash: the flash driver (w25qxx.c), the *)
(* log task with its queue (task_flashlog.c), the task that notifies it,   *)
(* and the commands on the flash (command.c).                              *)
(*                                                                         *)
(* As in I2cBus, the calls a function has yet to make are its script.  Of  *)
(* the sample count the records keep nothing but whether it is intact; the *)
(* counters of errors, only displayed, are left out.                       *)
(***************************************************************************)
EXTENDS TaskCalls

CONSTANTS
  Priority,    \* of the three tasks (usermain.c)
  Commands,    \* bound: what the console is asked to do
  QueueDepth,  \* FLASHLOG_QUEUE_DEPTH, 8
  MaxRecords,  \* FLASHLOG_MAX_RECORDS, 256
  MaxFaults, MaxResets  \* bounds

Task == {"flashlog", "rx", "mpuirq"}
User == {"flashlog", "rx"}
Slot == 1..MaxRecords

ASSUME FlashLogAssumption ==
  /\ Priority \in [Task -> Nat]
  /\ Priority["flashlog"] < Priority["rx"] /\ Priority["rx"] < Priority["mpuirq"]
  /\ {QueueDepth, MaxRecords} \subseteq Nat \ {0}
  /\ {MaxFaults, MaxResets} \subseteq Nat

(* What 16 bytes of the flash hold: a record, whole or with a wrong sample *)
(* count, ones only, or something else.                                    *)
Record(n, e) == [seq |-> n, event |-> e, whole |-> TRUE]
Erased  == Record(0, "erased")
Garbage == Record(0, "garbage")
Failed  == Record(0, "failed")  \* no data: the function returned FALSE

Part(r) == [r EXCEPT !.whole = FALSE]

record_is_valid(r) == r.event \in {"MOVING", "STOPPED"}

(* Programming can only clear bits: what it leaves in a cell.  A part of   *)
(* another record makes garbage of it (equal bytes might complete it: such *)
(* a cell is neither counted nor erased, and no property tells the two     *)
(* apart).                                                                 *)
Programmed(old, new) ==
  IF old = Erased THEN {new}
  ELSE IF old.seq = new.seq /\ old.event = new.event
       THEN {[new EXCEPT !.whole = w] : w \in BOOLEAN}
       ELSE {Garbage}

Do(op, arg) == <<[op |-> op, arg |-> arg]>>
Write(op, slot, rec) == Do(op, [slot |-> slot, rec |-> rec])
Idle == [cmd |-> "none", slot |-> 0, rec |-> Erased]

AtStart == [t \in Task |-> IF t = "flashlog" THEN Do("query", 0) ELSE <<>>]
NotReady == [ready |-> FALSE, count |-> 0, at |-> 0, retry |-> FALSE, rec |-> Erased]
Empty == [msg |-> <<>>, wai |-> FALSE]

VARIABLES
  pc, script,  \* of each task
  got,         \* what the last call of the flash driver brought
  sem,         \* w25qxx_semid
  queue,       \* flashlog_queue_id
  log,         \* flashlog_ready, flashlog_record_count, and the locals of the
               \* log task: the slot it scans (0: the ID; above all: serving),
               \* whether it scans again, and the record it writes
  chip,        \* the flash: its cells, and what it is busy with
  kept,        \* history: slots counted as written, since a clear began
  overtaken,   \* history: a scan was done while the log was to be erased
  faults, resets

flashVars == <<got, sem, chip, faults>>
logVars   == <<queue, log, kept, overtaken>>
vars == <<pc, script, flashVars, logVars, resets>>

Init ==
  /\ pc = [t \in Task |-> "call"]
  /\ script = AtStart /\ got = [t \in User |-> Erased]
  /\ sem = FreeSem /\ queue = Empty /\ log = NotReady
  /\ chip = [cell |-> [i \in Slot |-> Erased], busy |-> Idle]
  /\ kept = {} /\ overtaken = FALSE /\ faults = 0 /\ resets = 0

Boot ==
  /\ pc' = [t \in Task |-> "call"]
  /\ script' = AtStart /\ got' = [t \in User |-> Erased]
  /\ sem' = FreeSem /\ queue' = Empty /\ log' = NotReady

Delayed == {"dly", "exec_dly", "poll_dly"}

Ready == {t \in Task \ ToSet(sem.wai) :
            /\ pc[t] \notin Delayed
            /\ t \in {"rx", "mpuirq"} => script[t] # <<>>
            /\ t = "flashlog" => ~queue.wai}

Step(t, from, to) ==
  /\ pc[t] = from /\ Runs(t, Ready, Priority)
  /\ pc' = [pc EXCEPT ![t] = to]

Doing(t, ops) == script[t] # <<>> /\ Head(script[t]).op \in ops
Arg(t) == Head(script[t]).arg

(* t does what its script says next, which is one step. *)
Does(t, op) ==
  /\ Doing(t, {op}) /\ Step(t, "call", "call")
  /\ script' = [script EXCEPT ![t] = Tail(@)]

Fault == faults < MaxFaults /\ faults' = faults + 1
NoFault == UNCHANGED faults

(***************************************************************************)
(* w25qxx.c.  A call takes the semaphore and keeps it over all delays.  An *)
(* erase or a program waits until the chip is ready, sends its command,    *)
(* and waits for the end; any status read may fail, or the waiting end     *)
(* after W25QXX_BUSY_TIMEOUT_COUNT polls, and the chip may still be busy   *)
(* when the call returns FALSE.  (Reads do not wait: the semaphore alone   *)
(* keeps them off.)                                                        *)
(***************************************************************************)
reads  == {"query", "read", "verify"}
writes == {"program", "erase"}

w25qxx_lock(t) ==
  /\ Doing(t, reads \cup writes \cup {"wait_ready"}) /\ Step(t, "call", "exec")
  /\ sem' = tk_wai_sem(sem, t) /\ NoFault
  /\ UNCHANGED <<script, got, chip>>

(* Of the ID, the status and the test sector the data do not matter. *)
w25qxx_read(t) ==
  /\ Doing(t, reads) /\ Step(t, "exec", "unlock")
  /\ \/ NoFault /\ got' = [got EXCEPT ![t] =
           IF Doing(t, {"query"}) THEN Erased
           ELSE IF chip.busy = Idle THEN chip.cell[Arg(t)] ELSE Garbage]
     \/ Fault /\ got' = [got EXCEPT ![t] = Failed]
  /\ UNCHANGED <<script, sem, chip>>

(* If the transfer fails, the chip may yet do what it has received.        *)
Send(t) ==
  /\ Doing(t, writes) /\ chip.busy = Idle
  /\ \E rec \in {Arg(t).rec, Part(Arg(t).rec), Garbage} :
       /\ \/ NoFault /\ rec = Arg(t).rec /\ Step(t, "exec", "poll") /\ UNCHANGED got
          \/ Fault /\ Step(t, "exec", "unlock") /\ got' = [got EXCEPT ![t] = Failed]
       /\ chip' = [chip EXCEPT !.busy =
            [cmd |-> Head(script[t]).op, slot |-> Arg(t).slot, rec |-> rec]]
  /\ UNCHANGED <<script, sem>>

w25qxx_wait_ready(t) ==
  /\ \/ Doing(t, {"wait_ready"}) /\ Step(t, "exec", "poll") /\ NoFault /\ UNCHANGED got
     \/ /\ chip.busy # Idle /\ NoFault /\ UNCHANGED got
        /\ ((Doing(t, writes) /\ Step(t, "exec", "exec_dly")) \/ Step(t, "poll", "poll_dly"))
     \/ /\ chip.busy = Idle /\ NoFault /\ Step(t, "poll", "unlock")
        /\ got' = [got EXCEPT ![t] = Erased]
     \/ /\ Fault /\ ((Doing(t, writes) /\ Step(t, "exec", "unlock")) \/ Step(t, "poll", "unlock"))
        /\ got' = [got EXCEPT ![t] = Failed]
  /\ UNCHANGED <<script, sem, chip>>

(* The call returns.  A failure ends the function; so does a cell that is  *)
(* not erased, when the clearing verifies, or no record, when it is shown. *)
Stops(t) ==
  \/ got[t] = Failed
  \/ Doing(t, {"verify"}) /\ got[t] # Erased
  \/ t = "rx" /\ Doing(t, {"read"}) /\ ~record_is_valid(got[t])

w25qxx_unlock(t) ==
  /\ Step(t, "unlock", "call") /\ sem' = tk_sig_sem(sem) /\ NoFault
  /\ script' = [script EXCEPT ![t] = IF Stops(t) THEN <<>> ELSE Tail(@)]
  /\ got' = [got EXCEPT !["rx"] = Erased]
  /\ UNCHANGED chip

FlashCall(t) ==
  /\ \/ w25qxx_lock(t) \/ w25qxx_read(t) \/ Send(t) \/ w25qxx_wait_ready(t)
     \/ w25qxx_unlock(t)
  /\ UNCHANGED <<logVars, resets>>

(* What an operation makes of the cells when it is complete. *)
Effects(busy) ==
  CASE busy.cmd = "program" /\ busy.slot \in Slot ->
         {[chip.cell EXCEPT ![busy.slot] = r] : r \in Programmed(chip.cell[busy.slot], busy.rec)}
    [] busy.cmd = "erase" /\ busy.slot \in Slot -> {[i \in Slot |-> Erased]}
    [] OTHER -> {chip.cell}

Complete ==
  /\ chip.busy # Idle
  /\ \E cell \in Effects(chip.busy) : chip' = [cell |-> cell, busy |-> Idle]
  /\ UNCHANGED <<pc, script, got, sem, faults, logVars, resets>>

(***************************************************************************)
(* task_flashlog.  It scans the log until it makes sense, again at once    *)
(* and then each second, and serves its queue.                             *)
(***************************************************************************)
Called(t) == script[t] = <<>> /\ Step(t, "call", "call")

flashlog_scan ==
  LET i == log.at
      clearing == script["rx"] # <<>> /\ Last(script["rx"]).op = "ready"
      erased   == \A k \in DOMAIN script["rx"] : script["rx"][k].op # "erase"
      accepts == record_is_valid(got["flashlog"]) /\ got["flashlog"].seq = i
      Serve(n) == /\ log' = [log EXCEPT !.ready = TRUE, !.count = n, !.at = MaxRecords + 1,
                                                !.retry = FALSE]
                  /\ overtaken' = (overtaken \/ (clearing /\ ~(erased /\ queue.msg = <<>>)))
                  /\ UNCHANGED script
      Read(n)  == /\ log' = [log EXCEPT !.at = n, !.count = 0]
                  /\ script' = [script EXCEPT !["flashlog"] = Do("read", n)]
                  /\ UNCHANGED overtaken
  IN  /\ i <= MaxRecords /\ Called("flashlog")
      /\ \/ i = 0 /\ got["flashlog"] # Failed /\ Read(1)
         \/ i > 0 /\ got["flashlog"] = Erased /\ Serve(i - 1)
         \/ i > 0 /\ accepts /\ IF i = MaxRecords THEN Serve(i) ELSE Read(i + 1)
         \/ /\ IF i = 0 THEN got["flashlog"] = Failed ELSE got["flashlog"] # Erased /\ ~accepts
            /\ log' = [log EXCEPT !.at = 0, !.retry = TRUE]
            /\ script' = [script EXCEPT !["flashlog"] =
                 (IF log.retry THEN Do("dly", 0) ELSE <<>>) \o Do("query", 0)]
            /\ UNCHANGED overtaken
      /\ UNCHANGED <<queue, kept, got>>

Receive ==
  /\ log.at > MaxRecords /\ log.rec = Erased /\ Called("flashlog")
  /\ UNCHANGED <<kept, overtaken, got>>
  /\ IF queue.msg = <<>>
     THEN queue' = [queue EXCEPT !.wai = TRUE] /\ UNCHANGED <<script, log>>
     ELSE LET n == log.count + 1
              record == Record(n, Head(queue.msg))
          IN  /\ queue' = [queue EXCEPT !.msg = Tail(@)]
              /\ IF log.count >= MaxRecords THEN UNCHANGED <<script, log>>
                 ELSE /\ log' = [log EXCEPT !.rec = record]
                      /\ script' = [script EXCEPT !["flashlog"] =
                                      Write("program", n, record) \o Do("read", n)]

(* The record is counted when it reads back as it was written.  Mutant:    *)
(* a failure of the flash is not looked at.                                *)
Verify_blind ==
  /\ log.at > MaxRecords /\ log.rec # Erased /\ Called("flashlog")
  /\ log' = [log EXCEPT !.rec = Erased, !.count = @ + 1]
  /\ kept' = IF log.ready THEN kept \cup {log.count + 1} ELSE kept
  /\ got' = [got EXCEPT !["flashlog"] = Erased]
  /\ UNCHANGED <<script, queue, overtaken>>

Verify ==
  /\ log.at > MaxRecords /\ log.rec # Erased /\ Called("flashlog")
  /\ IF got["flashlog"] = log.rec
     THEN /\ log' = [log EXCEPT !.rec = Erased, !.count = @ + 1]
          /\ kept' = IF log.ready THEN kept \cup {log.count + 1} ELSE kept
     ELSE log' = [log EXCEPT !.rec = Erased] /\ UNCHANGED kept
  /\ got' = [got EXCEPT !["flashlog"] = Erased]
  /\ UNCHANGED <<script, queue, overtaken>>

task_flashlog ==
  /\ flashlog_scan \/ Receive \/ Verify
  /\ UNCHANGED <<sem, chip, faults, resets>>

(***************************************************************************)
(* task_flashlog_notify, which polls: it never waits for room.             *)
(***************************************************************************)
task_flashlog_notify(e) == Do("ask", e) \o Do("send", e)

Notify(t) ==
  /\ \/ /\ Doing(t, {"ask"}) /\ Step(t, "call", "call") /\ UNCHANGED queue
        /\ script' = [script EXCEPT ![t] = IF log.ready THEN Tail(@) ELSE Tail(Tail(@))]
     \/ /\ Does(t, "send")
        /\ queue' = IF Len(queue.msg) < QueueDepth
                    THEN [msg |-> Append(queue.msg, Arg(t)), wai |-> FALSE] ELSE queue
  /\ UNCHANGED <<flashVars, log, kept, overtaken, resets>>

(* Motion detection has something to log (Motion). *)
Report(e) ==
  /\ script["mpuirq"] = <<>> /\ script' = [script EXCEPT !["mpuirq"] = task_flashlog_notify(e)]
  /\ UNCHANGED <<pc, flashVars, logVars, resets>>

(***************************************************************************)
(* The commands.                                                           *)
(***************************************************************************)
Queries(n) == [i \in 1..n |-> [op |-> "query", arg |-> 0]]

(* The cells of the sector, one after another. *)
VerifyErased == [i \in Slot |-> [op |-> "verify", arg |-> i]]

(* Each record is read, and then the output gets time. *)
ReadRecords(n) ==
  [k \in 1..2 * n |-> [op  |-> IF k % 2 = 1 THEN "read" ELSE "dly",
                       arg |-> IF k % 2 = 1 THEN (k + 1) \div 2 ELSE 0]]

(* Mutant: the sector is not read after the erase. *)
task_flashlog_clear_blind ==
  Do("unready", 0) \o Do("query", 0) \o Write("erase", 1, Erased)
    \o Do("zero", 0) \o Do("ready", 0)

task_flashlog_clear ==
  Do("unready", 0) \o Do("query", 0) \o Write("erase", 1, Erased)
    \o VerifyErased \o Do("zero", 0) \o Do("ready", 0)

task_flashlog_dump == Do("dump", 0)

cmd_flashid     == Do("query", 0)
cmd_flashstatus == Do("query", 0)
cmd_flashread   == Queries(2)
cmd_flashwen    == Do("wait_ready", 0) \o Queries(3)
cmd_flasherase  == Do("query", 0) \o Write("erase", 0, Erased) \o Do("query", 0)
cmd_flashwrite  ==
  Queries(2) \o Write("program", 0, Garbage) \o Do("query", 0)
cmd_flashlog      == task_flashlog_dump
cmd_flashlogclear == task_flashlog_clear

command_table ==
  [flashid    |-> cmd_flashid,    flashstatus |-> cmd_flashstatus,
   flashwen   |-> cmd_flashwen,   flasherase  |-> cmd_flasherase,
   flashwrite |-> cmd_flashwrite, flashread   |-> cmd_flashread,
   flashlog   |-> cmd_flashlog,   flashlogclear |-> cmd_flashlogclear,
   motion     |-> task_flashlog_notify("STOPPED")]

ASSUME CommandsAssumption == Commands \subseteq DOMAIN command_table

Command(c) ==
  /\ script["rx"] = <<>> /\ script' = [script EXCEPT !["rx"] = command_table[c]]
  /\ UNCHANGED <<pc, flashVars, logVars, resets>>

LogCommand ==
  /\ \/ Does("rx", "unready") /\ log' = [log EXCEPT !.ready = FALSE] /\ kept' = {}
     \/ Does("rx", "zero") /\ log' = [log EXCEPT !.count = 0] /\ UNCHANGED kept
     \/ Does("rx", "ready") /\ log' = [log EXCEPT !.ready = TRUE] /\ UNCHANGED kept
     \/ /\ Doing("rx", {"dump"}) /\ Step("rx", "call", "call")
        /\ script' = [script EXCEPT !["rx"] =
             IF log.ready THEN Do("wait_ready", 0) \o ReadRecords(log.count) ELSE <<>>]
        /\ UNCHANGED <<log, kept>>
  /\ UNCHANGED <<flashVars, queue, overtaken, resets>>

(***************************************************************************)
(* Delays, and a reset, which may interrupt the chip at its work: a cell   *)
(* it programs may hold all, nothing, a part that looks like the record,   *)
(* or a part that does not; of a sector it erases any cells may be done.   *)
(***************************************************************************)
StartDelay(t) ==
  /\ Doing(t, {"dly"}) /\ Step(t, "call", "dly")
  /\ UNCHANGED <<script, flashVars, logVars, resets>>

TimeUp(t) ==
  /\ \/ pc[t] = "dly" /\ pc' = [pc EXCEPT ![t] = "call"]
        /\ script' = [script EXCEPT ![t] = Tail(@)]
     \/ pc[t] = "exec_dly" /\ pc' = [pc EXCEPT ![t] = "exec"] /\ UNCHANGED script
     \/ pc[t] = "poll_dly" /\ pc' = [pc EXCEPT ![t] = "poll"] /\ UNCHANGED script
  /\ UNCHANGED <<flashVars, logVars, resets>>

Torn(busy) ==
  {chip.cell} \cup Effects(busy) \cup
  IF busy.slot \notin Slot THEN {}
  ELSE IF busy.cmd = "program"
       THEN {[chip.cell EXCEPT ![busy.slot] = r] : r \in {Garbage, Part(busy.rec)}}
       ELSE {[i \in Slot |-> IF i \in done THEN Erased ELSE IF i \in half THEN Garbage ELSE chip.cell[i]] :
               done \in SUBSET Slot, half \in SUBSET Slot}

Reset ==
  /\ resets < MaxResets /\ resets' = resets + 1
  /\ Boot
  /\ \E cell \in Torn(chip.busy) : chip' = [cell |-> cell, busy |-> Idle]
  /\ UNCHANGED <<kept, overtaken, faults>>

TaskStep(t) ==
  \/ FlashCall(t) \/ StartDelay(t) \/ Notify(t)
  \/ t = "flashlog" /\ task_flashlog
  \/ t = "rx" /\ LogCommand

Next ==
  \/ \E t \in Task : TaskStep(t) \/ TimeUp(t)
  \/ \E c \in Commands : Command(c)
  \/ \E e \in {"MOVING", "STOPPED"} : Report(e)
  \/ Complete
  \/ Reset

Spec == Init /\ [][Next]_vars

(***************************************************************************)
(* Properties.                                                             *)
(***************************************************************************)

(* When the log says that it is ready, all the records it counts are       *)
(* there, and among them, intact, each one that was counted since the last *)
(* clearing began: through clearings that overlap with a write, failures   *)
(* of the flash, and resets (task_flashlog.c).  The exception: a scan that *)
(* failed at first may succeed, and declare the log ready, while it is     *)
(* being cleared.                                                          *)
LogHoldsRecords ==
  log.ready /\ ~overtaken =>
    /\ \A i \in 1..log.count : record_is_valid(chip.cell[i]) /\ chip.cell[i].seq = i
    /\ \A i \in kept : i <= log.count /\ chip.cell[i].whole

(* When the clearing reports success, the sector is erased and counted as  *)
(* empty: a record that the log task was about to write when the clearing  *)
(* began is gone, or has made the clearing fail.                           *)
ClearedLogIsEmpty ==
  Doing("rx", {"ready"}) /\ ~overtaken =>
    log.count = 0 /\ \A i \in Slot : chip.cell[i] = Erased
=============================================================================
