------------------------------- MODULE I2cBus -------------------------------
(***************************************************************************)
(* The I2C bus with all that use it: the transfers of i2c.c with their     *)
(* lock, recovery and retry; the drivers of the sensors and of the LCD     *)
(* with its semaphore; the power and display tasks; and the commands.      *)
(*                                                                         *)
(* A driver function is the sequence of its kernel calls and transfers.    *)
(* All are written the same way: the first failure ends the function,      *)
(* which gives back the semaphore of the LCD if it has it.                 *)
(***************************************************************************)
EXTENDS TaskCalls

CONSTANTS
  Priority,  \* of the tasks "rx", "inapower" and "lcdtemp" (usermain.c)
  Commands,  \* bound: what the console is asked to do
  Columns,   \* GROVE_LCD_COLUMNS, 16
  Samples,   \* the number of readings of a calibration
  Failures,  \* bound: how attempts fail
  MaxFaults  \* bound on what goes wrong on the bus

Task == {"rx", "inapower", "lcdtemp"}

ASSUME I2cAssumption ==
  /\ Priority \in [Task -> Nat]
  /\ {Columns, Samples} \subseteq Nat \ {0}
  /\ MaxFaults \in Nat

(* The stage at which an attempt fails: the controller does not start      *)
(* ("enable", also its stopping), sending ("tx", also the STOP) or         *)
(* receiving; and whether the controller has given up, and not the polling.*)
ASSUME FailuresAssumption ==
  \A f \in Failures : /\ f \in [stage : {"enable", "tx", "rx"}, aborted : BOOLEAN]
                      /\ f.aborted => f.stage # "enable"

(***************************************************************************)
(* What the functions do.                                                  *)
(***************************************************************************)
i2c0_write(dev)      == <<[op |-> "write", dev |-> dev]>>
i2c0_write_read(dev) == <<[op |-> "write_read", dev |-> dev]>>
i2c0_probe(dev)      == <<[op |-> "probe", dev |-> dev]>>
Delay  == <<[op |-> "dly", dev |-> "none"]>>
Call(op) == <<[op |-> op, dev |-> "lcd"]>>

Times(n, s) == [i \in 1..n * Len(s) |-> s[((i - 1) % Len(s)) + 1]]

adt7410_read_register  == i2c0_write_read("adt")
adt7410_write_register == i2c0_write("adt")
adt7410_set_resolution ==
  adt7410_read_register \o adt7410_write_register \o adt7410_read_register
adt7410_read_device_info     == Times(2, adt7410_read_register)
adt7410_read_raw_temperature == adt7410_read_register \o i2c0_write_read("adt")
adt7410_read_temperature     == adt7410_read_raw_temperature

ina226_read_register    == i2c0_write_read("ina")
ina226_read_ids         == Times(2, ina226_read_register)
ina226_read_bus_voltage == ina226_read_register
ina226_read_shunt       == ina226_read_register

mpu6050_init          == i2c0_write("mpu")
mpu6050_read_who_am_i == i2c0_write_read("mpu")
mpu6050_read_raw      == i2c0_write_read("mpu")
mpu6050_calibrate_gyro ==
  mpu6050_init \o Times(Samples - 1, mpu6050_read_raw \o Delay) \o mpu6050_read_raw
read_mpu_values       == mpu6050_init \o mpu6050_read_raw

grove_lcd_command   == i2c0_write("lcd")
grove_rgb_write     == i2c0_write("rgb")
grove_lcd_clear     == grove_lcd_command \o Delay
grove_lcd_write_text(n) == Times(n, i2c0_write("lcd"))
grove_lcd_set_rgb_unlocked == grove_rgb_write \o Delay \o Times(4, grove_rgb_write)
grove_lcd_init_unlocked ==
  Delay \o Times(2, grove_lcd_command \o Delay) \o Times(3, grove_lcd_command)
    \o grove_lcd_clear \o grove_lcd_command \o grove_lcd_set_rgb_unlocked
Locked(s) == Call("lock") \o s \o Call("unlock")
grove_lcd_init    == Locked(grove_lcd_init_unlocked)
grove_lcd_set_rgb == Locked(grove_lcd_set_rgb_unlocked)
grove_lcd_update_lines ==
  Locked(Times(2, grove_lcd_command \o grove_lcd_write_text(Columns)))

(* The commands, as far as they use the bus; a scan here probes two of the *)
(* 112 addresses.                                                          *)
cmd_i2cscan     == i2c0_probe("adt") \o i2c0_probe("lcd")
cmd_temperature == adt7410_read_temperature
cmd_adtinfo     == adt7410_read_device_info
cmd_adtconfig   == adt7410_set_resolution
cmd_adtraw      == adt7410_read_raw_temperature
cmd_inaid       == ina226_read_ids
cmd_inabus      == ina226_read_bus_voltage
cmd_inashunt    == ina226_read_shunt
cmd_mpuid       == mpu6050_read_who_am_i
cmd_mpuraw      == mpu6050_init \o mpu6050_read_raw
cmd_mpu         == mpu6050_read_who_am_i \o mpu6050_init \o mpu6050_read_raw
cmd_mpucal      == Delay \o mpu6050_calibrate_gyro
cmd_lcdtest     == grove_lcd_init \o grove_lcd_update_lines
cmd_lcdtemp     == adt7410_read_temperature \o grove_lcd_init \o grove_lcd_update_lines
cmd_lcdcolor    == grove_lcd_set_rgb

command_table ==
  [i2cscan  |-> cmd_i2cscan,  temperature |-> cmd_temperature, adtinfo  |-> cmd_adtinfo,
   adtconfig |-> cmd_adtconfig, adtraw |-> cmd_adtraw, inaid |-> cmd_inaid,
   inabus   |-> cmd_inabus,   inashunt |-> cmd_inashunt, mpuid |-> cmd_mpuid,
   mpuraw   |-> cmd_mpuraw,   mpu |-> cmd_mpu, mpucal |-> cmd_mpucal,
   lcdtest  |-> cmd_lcdtest,  lcdtemp |-> cmd_lcdtemp, lcdcolor |-> cmd_lcdcolor]

ASSUME CommandsAssumption == Commands \subseteq DOMAIN command_table

VARIABLES
  pc,       \* of each task, in its current call
  script,   \* what is left of its functions
  ok,       \* whether they have succeeded so far
  mtx,      \* i2c0_sync_mtxid
  lcd_sem,  \* grove_lcd_semid
  stuck,    \* a device holds SDA low
  faults,   \* history: the number of faults on the bus
  failed,   \* history: the number of writes and reads that returned FALSE (a
            \* scan's probe of an absent device is no failure: README.md:386)
  i2c,      \* the error counters and diagnostics of i2c.c
  display,  \* the locals of task_lcdtemp
  power     \* the statics of task_inapower.c

busVars == <<mtx, stuck, faults, failed, i2c>>
ownVars == <<display, power>>
vars == <<pc, script, ok, lcd_sem, busVars, ownVars>>

Init ==
  /\ pc = [t \in Task |-> "call"]
  /\ script = [rx |-> <<>>, inapower |-> ina226_read_bus_voltage \o ina226_read_shunt,
               lcdtemp |-> grove_lcd_init]
  /\ ok = [t \in Task |-> TRUE]
  /\ mtx = FreeMtx /\ lcd_sem = FreeSem
  /\ stuck = FALSE /\ faults = 0 /\ failed = 0
  /\ i2c = [errors |-> 0, recoveries |-> 0, dev |-> "none", op |-> "none",
            stage |-> "none", abort |-> FALSE, current |-> FALSE]
  /\ display = [next |-> "init", reported |-> FALSE]
  /\ power = [ready |-> FALSE, errors |-> 0]

Ready == {t \in Task \ (mtx.wai \cup ToSet(lcd_sem.wai)) : pc[t] # "dly"}
                \ (IF script["rx"] = <<>> THEN {"rx"} ELSE {})

Step(t, from, to) ==
  /\ pc[t] = from /\ Runs(t, Ready, Inherited(mtx, Priority))
  /\ pc' = [pc EXCEPT ![t] = to]

Op(t)  == script[t] # <<>> /\ Head(script[t]).op \in {"write", "write_read", "probe"}
Doing(t, op) == script[t] # <<>> /\ Head(script[t]).op = op

(***************************************************************************)
(* i2c0_write, i2c0_write_read, i2c0_probe: every attempt polls a bounded  *)
(* number of times.  One fails on a stuck bus, and by a fault of its own.  *)
(***************************************************************************)
(* A failure stores its stage and, of an abort, TX_ABRT_SOURCE.  Only a    *)
(* write_read receives.                                                    *)
FailsAt(t) ==
  \E f \in Failures :
    /\ f.stage = "rx" => Doing(t, "write_read")
    /\ i2c' = [i2c EXCEPT !.stage = f.stage, !.current = @ \/ f.aborted]

(* Mutant: the mutex is not taken. *)
Lock_none(t) ==
  /\ Op(t) /\ Step(t, "call", "attempt")
  /\ UNCHANGED <<script, ok, lcd_sem, busVars, ownVars>>

Lock(t) ==
  /\ Op(t) /\ Step(t, "call", "attempt")
  /\ mtx' = tk_loc_mtx(mtx, t)
  /\ UNCHANGED <<script, ok, lcd_sem, stuck, faults, failed, i2c, ownVars>>

Succeeds(t, from) ==
  /\ ~stuck /\ Step(t, from, "unlock")
  /\ UNCHANGED <<script, ok, lcd_sem, busVars, ownVars>>

Fails == \/ stuck /\ UNCHANGED faults
         \/ faults < MaxFaults /\ faults' = faults + 1

(* i2c0_write_unlocked, i2c0_write_read_unlocked. *)
Attempt(t) ==
  /\ Step(t, "attempt", "record") /\ ~Doing(t, "probe") /\ Fails /\ FailsAt(t)
  /\ UNCHANGED <<script, ok, lcd_sem, mtx, stuck, failed, ownVars>>

(* The first failure is recorded and calls for the recovery. *)
Record(t) ==
  /\ Step(t, "record", "recover")
  /\ i2c' = [i2c EXCEPT !.dev = Head(script[t]).dev, !.op = Head(script[t]).op,
                        !.abort = i2c.current, !.errors = @ + 1]
  /\ UNCHANGED <<script, ok, lcd_sem, mtx, stuck, faults, failed, ownVars>>

(* Nine clocks and a STOP free the bus; the controller starts anew.        *)
(* Mutant: only the controller does.                                       *)
i2c0_bus_recover_restart(t) ==
  /\ Step(t, "recover", "retry")
  /\ i2c' = [i2c EXCEPT !.recoveries = @ + 1]
  /\ UNCHANGED <<script, ok, lcd_sem, mtx, stuck, faults, failed, ownVars>>

i2c0_bus_recover(t) ==
  /\ Step(t, "recover", "retry") /\ stuck' = FALSE
  /\ i2c' = [i2c EXCEPT !.recoveries = @ + 1]
  /\ UNCHANGED <<script, ok, lcd_sem, mtx, faults, failed, ownVars>>

Retry(t) ==
  /\ Step(t, "retry", "count") /\ Fails /\ FailsAt(t)
  /\ UNCHANGED <<script, ok, lcd_sem, mtx, stuck, failed, ownVars>>

(* The failure of the retry is counted.  Mutant: it is not. *)
RetryFailed_uncounted(t) ==
  /\ Step(t, "count", "unlock")
  /\ ok' = [ok EXCEPT ![t] = FALSE] /\ failed' = failed + 1
  /\ UNCHANGED <<script, lcd_sem, mtx, stuck, faults, i2c, ownVars>>

RetryFailed(t) ==
  /\ Step(t, "count", "unlock")
  /\ i2c' = [i2c EXCEPT !.errors = @ + 1]
  /\ ok' = [ok EXCEPT ![t] = FALSE] /\ failed' = failed + 1
  /\ UNCHANGED <<script, lcd_sem, mtx, stuck, faults, ownVars>>

(* A probe is not repeated, and a scan goes on whatever it finds. *)
Probe(t) ==
  /\ Step(t, "attempt", "unlock") /\ Doing(t, "probe") /\ Fails
  /\ UNCHANGED <<script, ok, lcd_sem, mtx, stuck, failed, i2c, ownVars>>

(* After a failure, only the unlocking of the LCD is left of a function.   *)
(* Mutant: not even that.                                                  *)
Holds(s) ==
  \E i \in 1..Len(s) : s[i].op = "unlock" /\ \A j \in 1..i - 1 : s[j].op # "lock"
AfterFailure_return(s) == <<>>
AfterFailure(s) == IF Holds(s) THEN Call("unlock") ELSE <<>>

(* The latch (i2c0_current_abort_source) is dead from here on: each write  *)
(* or read begins by clearing it, which stands here, at the end.           *)
Unlock(t) ==
  /\ Step(t, "unlock", "call")
  /\ i2c' = [i2c EXCEPT !.current = FALSE]
  /\ mtx' = tk_unl_mtx(mtx, Priority)
  /\ script' = [script EXCEPT ![t] = IF ok[t] THEN Tail(@) ELSE AfterFailure(@)]
  /\ UNCHANGED <<ok, lcd_sem, stuck, faults, failed, ownVars>>

Transfer(t) ==
  \/ Lock(t)
  \/ Succeeds(t, "attempt") \/ Attempt(t) \/ Probe(t)
  \/ Record(t) \/ i2c0_bus_recover(t)
  \/ Succeeds(t, "retry") \/ Retry(t) \/ RetryFailed(t)
  \/ Unlock(t)

(* A device stops in the middle of a byte. *)
HoldSda ==
  /\ ~stuck /\ faults < MaxFaults /\ stuck' = TRUE /\ faults' = faults + 1
  /\ UNCHANGED <<pc, script, ok, lcd_sem, mtx, failed, i2c, ownVars>>

(***************************************************************************)
(* The semaphore of the LCD, and delays.                                   *)
(***************************************************************************)
SemaphoreCall(t) ==
  /\ \/ Doing(t, "lock") /\ lcd_sem' = tk_wai_sem(lcd_sem, t)
     \/ Doing(t, "unlock") /\ lcd_sem' = tk_sig_sem(lcd_sem)
  /\ Step(t, "call", "call") /\ script' = [script EXCEPT ![t] = Tail(@)]
  /\ UNCHANGED <<ok, busVars, ownVars>>

StartDelay(t) ==
  /\ Doing(t, "dly") /\ Step(t, "call", "dly")
  /\ UNCHANGED <<script, ok, lcd_sem, busVars, ownVars>>

TimeUp(t) ==
  /\ pc[t] = "dly" /\ pc' = [pc EXCEPT ![t] = "call"]
  /\ script' = [script EXCEPT ![t] = Tail(@)]
  /\ UNCHANGED <<ok, lcd_sem, busVars, ownVars>>

(***************************************************************************)
(* The tasks: what they do when a function has returned.                   *)
(***************************************************************************)
Begin(t, s) ==
  /\ script[t] = <<>> /\ script' = [script EXCEPT ![t] = s]
  /\ ok' = [ok EXCEPT ![t] = TRUE]
  /\ UNCHANGED <<lcd_sem, busVars>>

Command(c) == Begin("rx", command_table[c]) /\ UNCHANGED <<pc, ownVars>>

task_inapower ==
  /\ Begin("inapower", Delay \o ina226_read_bus_voltage \o ina226_read_shunt)
  /\ Step("inapower", "call", "call")
  /\ power' = IF ok["inapower"] THEN [power EXCEPT !.ready = TRUE]
              ELSE [power EXCEPT !.errors = @ + 1]
  /\ UNCHANGED display

(* Initialises the LCD until it works; then, each second, reads the sensor *)
(* of lcd_display_mode and shows the values, or that there is an error.    *)
task_lcdtemp ==
  /\ Step("lcdtemp", "call", "call") /\ UNCHANGED power
  /\ \/ /\ display.next = "init" /\ ~ok["lcdtemp"]
        /\ Begin("lcdtemp", Delay \o grove_lcd_init) /\ UNCHANGED display
     \/ /\ (display.next = "init" /\ ok["lcdtemp"]) \/ display.next = "sense"
        /\ \E s \in {adt7410_read_temperature, read_mpu_values} : Begin("lcdtemp", s)
        /\ display' = [display EXCEPT !.next = "show"]
     \/ /\ display.next = "show"
        /\ Begin("lcdtemp", grove_lcd_update_lines)
        /\ display' = [display EXCEPT !.next = "shown"]
     \/ /\ display.next = "shown"
        /\ Begin("lcdtemp", Delay)
        /\ display' = [next |-> "sense", reported |-> ~ok["lcdtemp"]]

TaskStep(t) ==
  \/ Transfer(t) \/ SemaphoreCall(t) \/ StartDelay(t)
  \/ t = "inapower" /\ task_inapower
  \/ t = "lcdtemp" /\ task_lcdtemp

Next ==
  \/ \E t \in Task : TaskStep(t) \/ TimeUp(t)
  \/ \E c \in Commands : Command(c)
  \/ HoldSda

Spec == Init /\ [][Next]_vars

(* The processor executes, and delays end.  The power task is busy for a   *)
(* fraction of its period, so the display task is not kept off for ever.   *)
FairSpec ==
  /\ Spec
  /\ WF_vars(\E t \in Task : TaskStep(t)) /\ SF_vars(TaskStep("lcdtemp"))
  /\ \A t \in {"rx", "lcdtemp"} : WF_vars(TimeUp(t))

(***************************************************************************)
(* Properties.                                                             *)
(***************************************************************************)
InTransfer(t) ==
  /\ pc[t] \in {"attempt", "record", "recover", "retry", "count", "unlock"}
  /\ t \notin mtx.wai
InLcd(t) == Holds(script[t]) /\ t \notin ToSet(lcd_sem.wai)

(* One transfer at a time with its recovery and retry, and one function on *)
(* the LCD at a time with all its delays: nobody writes into the page that *)
(* another task writes, nor initialises the LCD meanwhile.                 *)
Exclusive ==
  \A t, u \in Task : t # u => ~(InTransfer(t) /\ InTransfer(u)) /\ ~(InLcd(t) /\ InLcd(u))

(* No call fails for one fault: whatever holds the bus is freed by the     *)
(* recovery before the retry.  (A bus that gets stuck after the recovery   *)
(* fails the retry, and costs the next call its first attempt.)            *)
OneFaultFailsNoCall == failed > 0 => faults > failed

(* What the mpuirq command, which takes no lock, may find at any moment:   *)
(* the errors are those with a recovery, the one that awaits it, and the   *)
(* failed calls; between a recorded failure and the end of the recovery's  *)
(* retry address and operation are those of the call under way, and before *)
(* the retry has failed abort source and stage are those of one attempt.   *)
(* Unless a failed attempt has yet to be recorded, the stage is one of the *)
(* operation.                                                              *)
Diagnostics ==
  /\ i2c.errors = i2c.recoveries + failed
                     + IF \E t \in Task : pc[t] = "recover" THEN 1 ELSE 0
  /\ \A t \in Task : pc[t] \in {"recover", "retry", "count"} =>
       /\ i2c.op = Head(script[t]).op /\ i2c.dev = Head(script[t]).dev
       /\ pc[t] # "count" /\ i2c.abort => i2c.stage # "enable"
  /\ i2c.stage = "rx" => i2c.op = "write_read" \/ \E t \in Task : pc[t] = "record"

(* Every command returns: on all paths the mutex and the semaphore are     *)
(* given back, and they are always taken in the same order.                *)
ConsoleAnswers == script["rx"] # <<>> ~> script["rx"] = <<>>
=============================================================================
