# Verification of the Try Kernel console firmware

This directory holds TLA+ models of the firmware in `src/` (a small real-time
kernel for the RP2040 in the manner of μT-Kernel, its drivers, and the tasks of a
console application), the TLC configurations that check them on small instances,
and proofs of their main invariants that TLAPS checks for every instance. In the
comments of the modules, `file.c:N` is a line of the repository, and
`README.md:N` is a line of the repository's own README.

    tlasany M.tla                        parse a module
    tlc -workers 2 -config M.cfg M       check an instance (M = MCKernel, ...)
    tlapm M_proofs.tla                   check the proofs (M = Kernel, ...)

Contents: [the system](#the-system), [the modules](#the-modules),
[what is checked](#what-is-checked), [what is proved](#what-is-proved),
[findings](#findings), [what is not modelled](#what-is-not-modelled),
[plan](#plan).

## The system

One core, no cache, no memory protection. Tasks run in thread mode. SysTick (10 ms)
and the device interrupts share priority 0 and so do not preempt one another;
PendSV, the dispatcher, has the lowest priority. Every API function does its work
between `DI` and `EI`, so it is atomic against everything else; what remains
concurrent is the *order* of API calls of different tasks, interrupt handlers at
any point between them, and the dispatcher, whose beginning and idle loop can be
interrupted.

### Kernel

| component | state | operations | hard behaviour | what makes it correct |
|---|---|---|---|---|
| task queues, `task_queue.c` | `pre`/`next` in each TCB, a top pointer per queue | add at the end, remove the top, remove an entry | pointers of unlinked TCBs stay stale; the first cell's `pre` stands for the end | the cells always are the sequence that the calls describe |
| scheduler and dispatcher, `scheduler.c`, `dispatch.S`, `context.c`, `inittsk.c` | `ready_queue[]`, `cur_task`, `sche_task`, `disp_running`, the PendSV bit, the saved stack pointers | `scheduler()`, PendSV, idle loop, start of the initial task | interrupts change `sche_task` under the dispatcher; contexts are saved over exited tasks | the first task of the highest queue runs; no dispatch is lost; a task that has ended does not go on |
| tasks, `task_mange.c` | `state`, `itskpri`, `wupcnt` of the TCB | create, start, exit | restart of a task, also by a handler before the dispatcher has left it | each TCB is linked exactly where its state says |
| delay, sleep, wakeup, `task_sync.c` | `wait_queue`, `waifct`, `waitim`, `waierr`, `wupcnt` | `tk_dly_tsk`, `tk_slp_tsk`, `tk_wup_tsk` | a wakeup races the sleep; rounding of the time | no wakeup is lost; no wait is shorter than asked |
| system timer, `systimer.c` | — | the tick: shorten, end waits, cyclic handlers | it unlinks what it walks over | every finite wait ends, on time |
| semaphores, `semaphore.c` | `semcnt` | create, wait, signal | one signal ends several waits; time-outs; newcomers | units stay within bounds; nobody waits without need; order |
| mutexes, `mutex.c` | `owner`, `attr`; `itskpri` of every TCB | create, lock, unlock; hooks in exit and tick | chains of owners, boosts while queued, exit with locks held, time-outs | exact inheritance, bounded inversion, hand-over |
| message queues, `message_queue.c` | ring buffer, `count`, `head`, `tail` | create, send, receive | direct hand-over; waiting senders move up | FIFO: nothing lost, doubled or reordered |
| event flags, `eventflag.c` | `flgptn` | create, set, clear, wait | one pass over waiters that consume bits | no missed event, nothing consumed twice |
| cyclic handlers, `cyclic.c` | active, remaining time, config | create, delete, start, stop, refer, tick | periods that are no multiple of the tick | the phase does not drift |
| boot, `boot/` | hardware registers, vector table | reset | — | — |

The kernel components share the TCBs and call one another inside one `DI`/`EI`
section: every waiting call unlinks the caller (the *head* of its ready queue),
appends it to `wait_queue` and calls `scheduler()`; every release unlinks it from
`wait_queue`, appends it to the ready queue of its current priority and calls
`scheduler()`; `tk_ext_tsk` calls `mutex_release_all`; the tick calls
`mutex_wait_timeout` and `cyclic_tick`. Interrupt and cyclic handlers use the
calls that do not wait.

### Drivers and application

| component | state | operations and interactions | hard behaviour | what makes it correct |
|---|---|---|---|---|
| UART transmission, `uart_tx.c`, `task_uarttx.c`, `uart_sync.c` | message ring, overflow counter, the lock on the transmitter | any task sends under a semaphore, then sets a flag; one task waits for the flag, drains, and prints under the lock | the flag is set after the ring is unlocked; a full ring; the console echoes on the same line | a FIFO of the messages accepted, losses counted, texts whole, everything stored is printed |
| UART reception and console, `uart.c`, `task_uartrx.c`, `console.c` | receive ring, line buffer | the interrupt stores and sets a flag; a task drains, edits, executes commands | a ring between interrupt and task without a lock; full ring; overrun | no character is lost without being counted; input is never left in the ring |
| I2C, `i2c.c`, with the drivers and tasks of its devices | mutex, diagnostics; the semaphore of the LCD | transfer = lock, attempt, recovery, retry, unlock; functions of up to some forty transfers and delays, the LCD's under a semaphore | a failure at any transfer; a device that holds the bus; tasks of several priorities | exclusion of transfers and of functions on the LCD; one fault fails no call; everything is released on every path |
| flash and motion log, `w25qxx.c`, `task_flashlog.c` | contents of the sector, `flashlog_ready`, number of records, message queue | the log task appends; the command task shows and clears; a scan after each reset | clearing during a write; failures and resets in the middle of a program or an erase | what the log counts is there; a cleared log is empty |
| motion, `task_mpuirq.c`, `task_motionled.c`, `gpio.c`, `mpu6050.c` | counters of the detection, LED mode | interrupt → flag → detection → LED mode and log; the motion command stops, calibrates, starts | the command preempts the detection anywhere; a mode is set while the LED task blinks | beginnings and ends alternate in the log; the LED shows what was detected |
| demonstrations, `task_led.c`, `task_msgtest.c`, `task_mutexpi.c`, `task_uartlog.c` | their kernel objects | cyclic handler and semaphore; message round trip; inheritance test | order of the steps of three tasks | the recorded result of the test |
| command interpreter, `command.c`, `mini_printf.c`, `usermain.c` | — | parse a line, call the above, format | `help` sends more messages than the queue holds | text |

## The modules

| module | models | remarks |
|---|---|---|
| `TaskQueue` | the queue operations as operators on sequences | used by everything else; `Entries` selects from a queue by ranks, not recursively, so that proofs can use it |
| `TaskQueueList`, `QueueSpec` | the pointer updates of `task_queue.c`, and queues as sequences | the first implements the second, `QueueSpec`'s steps being `TaskQueue`'s operators |
| `Kernel` | `scheduler.c`, `dispatch.S`, `context.c`, `inittsk.c`, `task_mange.c`, `task_sync.c`, `systimer.c` | the core; the others extend it |
| `KernelTime` | — | history of how long each wait has lasted |
| `PreemptiveScheduler` | — | what the kernel promises about the processor |
| `Semaphore`, `EventFlag` | `semaphore.c`, `eventflag.c` | with the whole of `Kernel` underneath |
| `MessageQueue`, `MessageChannel` | `message_queue.c`; a bounded FIFO channel | the first implements the second |
| `Mutex` | `mutex.c` and the hooks in `tk_ext_tsk` and the tick | replaces those two operations of `Kernel` by their forms with the hooks |
| `SysTick` | the length of a tick | shared by `Kernel` and `Cyclic` |
| `Cyclic` | `cyclic.c` | stands alone: it shares nothing with the TCBs |
| `TaskCalls` | the calls of the kernel that drivers and application make | each in the restricted form they use (binary semaphores, flags of one bit, one inheriting mutex), as a step of its own; the four below stand on it |
| `Uart`, `OutputQueue` | `uart.c`, `uart_tx.c`, `uart_sync.c`, `console.c`, `task_uartrx.c`, `task_uarttx.c`; a bounded FIFO that counts losses | the transmit queue of the first implements the second |
| `I2cBus` | `i2c.c`, the drivers of its devices, `task_inapower.c`, `task_lcdtemp.c`, and the commands on them | a driver function is the sequence of its transfers, delays and semaphore calls |
| `FlashLog` | `w25qxx.c`, `task_flashlog.c`, the commands on the flash and the log | with failures and resets |
| `Motion` | `task_mpuirq.c`, `task_motionled.c`, the motion command | its transfers are single steps; those of the commands are in `I2cBus` |
| `*_proofs` | — | theorems and proofs: `Kernel_proofs` about `TaskQueue`, `Kernel` and `PreemptiveScheduler`, `KernelObjects_proofs` about `Semaphore`, `EventFlag`, `MessageQueue`, `KernelTime` and `Cyclic`, the others about the module they are named after |
| `MC*` | — | instances for TLC |

**Grain.** An API call, an interrupt handler and each stretch of the dispatcher with
PRIMASK set is one action. The dispatcher is three: `pendsv_entry` (the processor
has taken the exception, PRIMASK is not set yet), `dispatch_entry` (save, choose,
switch or go idle) and `idle_exit`. Handlers may run between any two actions, tasks
only when no exception is active or pending (`InTask`). `disp_running`, which the
code sets to 1 over the whole dispatcher, is seen by handlers only in the idle loop.

**Who calls.** The calls that wait, `tk_ext_tsk`, and the locking and unlocking of mutexes act on
`cur_task` and are made by tasks. `tk_cre_tsk`, `tk_sta_tsk` and `tk_wup_tsk`, which look at no
context, may be made by anybody at any time: by a task, by `main`, or by an interrupt
handler between any two steps (`AnyContextCall`); so may the calls of the objects that
do not wait.

**Contexts.** Of a saved stack frame the model keeps where it resumes the task:
`entry` (the frame built by `make_context`), `body`, or `exited` (behind its `tk_ext_tsk`).
What a thread does that is resumed there is not defined by the source (the task
function returns to whatever its frame holds as return address); the model lets it
execute and make no more calls. `pc` is the same for the thread that is on the processor,
beneath any handler.

**Fields nobody reads.** `waitim` and `waifct` of a task that does not wait have a
fixed value in the models, where the code leaves an old one: no code reads them.
`waierr` is a pointer to a local variable in the code; here it is that variable.

**Calls without effect.** Error returns (`E_ID`, `E_PAR`, `E_OBJ`, `E_ILUSE`, `E_QOVR`,
`E_TMOUT` of a poll) change nothing and are stuttering steps; the guards say when
they are taken. The tables of control blocks (`CNF_MAX_*`) are as large as the sets
of tasks and objects: each object of a model is a block that is created at most
once. `Mutex` keeps the *order* of the TCB table, on which the order of requeueing
depends.

**Mutexes.** The code scans the wait queue again and again, in place, until no
priority changes; `Calculated` scans as often as there are tasks, which reaches the
same least fixed point (`CalculatedIsStrict` in `Mutex_proofs` proves that it does).
All mutexes of an exiting task are released in a row before the priorities are
computed, as in `mutex_release_all`.

**Cyclic handlers.** In the code they run inside the tick, before its last call of
`scheduler()`. In the models of the objects they notify, such a call is an action of
its own, at any time: a call that makes a task ready ends with `scheduler()` itself,
so the order of the two within the tick cannot be told from outside.

**The application on the kernel.** The modules of the drivers do not carry the kernel
model with them: a task runs when no task of higher priority is ready (`Runs` in
`TaskCalls`; that the kernel selects tasks so is `RunsTopTask` and
`ImplementsScheduler`), and a call is one step (as it is in the modules of the
kernel). The priorities of the instances are those of `usermain.c` (log 3, command
4, transmitter 6, detection 9, power 10, display 11, LED 13), so that a step of a
task is possible only where no higher one is ready; the theorems hold for any
priorities, except where a module assumes the order of two or three tasks
(`MotionAssumption`, `FlashLogAssumption`). The mutex of the bus lends its owner the priority of its waiters.

**Steps and scripts.** Where two tasks share memory without a lock (the rings and
their counters, the states of the log, of the detection and of the LED), each access
that a preemption can separate from the next is a step. In `I2cBus`, `FlashLog` and
`Motion` the calls a function has yet to make are its *script*, a sequence: the
functions are defined by their calls, one by one as in the C code, and one set of
actions executes them. The functions of the drivers all have the same shape (the
first failure returns `FALSE`, and unlocks first if the function locked), which the
actions have once.

**What is abstracted.** A message is known by its sender, a sample is active or not, a
record keeps its number, its event, and whether its sample count is whole. `i2cscan`
probes two addresses, of 112. The sensor of a refresh of the display is chosen
freely, as `lcdmode` can do. `flashwen` and `flashwrite` end early in some cases where
the model goes on to read: reading changes nothing. The transfers of the detection
task on the bus are one step in `Motion` and absent from `I2cBus`, where a third
periodic task would add nothing but states.

**Faults.** In `I2cBus` an attempt may fail by itself, and a device may hold SDA until
the nine clocks of the recovery; together at most `MaxFaults` times. In `FlashLog` any
transfer to the chip may fail, with the chip having received all, a part, or a wrong
part of it; a wait for the chip may give up; and a reset may come anywhere, also
while the chip programs (the cell holds the old, the new, a part that looks like
the record, or garbage) or erases (any cells may be done, others damaged).

**Histories.** `Uart` (`typed`, `taken`, `sent`), `I2cBus` (`faults`, `failed`),
`FlashLog` (`kept`, `overtaken`) and `Motion` (`events`) have variables of the past, too.
`KernelTime` (`asked`, `ticks`), `MessageQueue` (`rcvmsg`), `EventFlag`
(`p_flgptn`) and `Cyclic` (`since`, `called`) have variables that record what the last
steps did: the words a call writes through its caller's pointers, the time passed.
No guard depends on them except the bounds (`Cyclic`'s
time, the characters typed, messages reported, faults and resets).

**Mutants.** Definitions whose comments say *Mutant* are the operator they stand
before with a plausible mistake. No specification uses them; each one, put in the
place of the original, makes TLC find a property violated, which shows that the
property can see the mistake.

## What is checked

The instances of the kernel have three tasks, `t1` above two of equal priority (for
mutexes three different priorities): enough for a running task, one that waits and
one that comes in between, for preemption and for first come, first served within a
queue. `MaxWup = 1` allows a wakeup to be counted, and refused. There is no other bound
on the length of behaviours, except `MaxTime` in `Cyclic`.

| configuration | shows | bounds |
|---|---|---|
| `MCTaskQueueList` | `ImplementsQueues`: the linked cells implement the sequences | two queues, four TCBs, any history |
| `MCKernel` | `TypeOK`, `QueueIntegrity`, `RunsTopTask`, `NoLostDispatch`, `NoSleepOnCountedWakeup`; `NoResurrection`: a task that has ended does not go on behind its `tk_ext_tsk`, unless it is started during its exit; `EndsOnTime`: a timed wait ends with the first tick by which the time must have passed; `FiniteWaitEnds`; `ImplementsScheduler`: the kernel refines `PreemptiveScheduler` with its liveness | a tick of 2 units; delays of 2, sleeps of 1 and forever, so a tick, less, and none |
| `MCSemaphore` | `SemaphoreInv`; `OnlyTimeoutStrandsUnits`: only the tick can leave units beside a waiter they suffice for; `GrantsInOrder` | two semaphores of at most 2 and 1 units, requests of 1 and 2, waits of one tick and forever |
| `MCMutex` | `StrictInheritance`, `OwnersAlive`, `BoundedInversion`, `HandsOver`, `TimeOutGivesNothing` | two mutexes of either attribute, nested locks, waits of one tick and forever, delays, exits, restarts, also deadlocked tasks |
| `MCMessageQueue` | `MsgqTypeOK`; `NoNeedlessWait`; `WaitsEndInOrder`; `ImplementsChannels`: the queue refines `MessageChannel` | one queue of two messages (empty, between and full are different, and the ring wraps), two messages, waits of one tick and forever |
| `MCEventFlag` | `NoMissedEvent`; `FirstComeFirstServed`; `ConsumedOnce` | one flag of two bits, OR with `TWF_BITCLR` and AND with `TWF_CLR`, waits of one tick and forever |
| `MCCyclic` | `NominalPhase`: the remaining time always leads to the next multiple of the period; `CalledWhenDue` | two handlers; a tick of 4 units, periods 1, 3, 4 and 10, phases 0, 2, 5 and 8; 12 ticks from a start |
| `MCUart` | `ImplementsOutput`: the ring and its counter refine `OutputQueue`; `MessagesStayWhole`; `NoSilentLoss`: typed = taken and buffered, unless a counter of losses moved; `Settles`: when input stops, everything is taken, everything is printed, and both tasks wait | a reporter above and one below the console; rings of two cells (of the receive ring, one is kept free, so the second character meets a full ring); a FIFO of one; lines of one character, so that the bell is reached; 2 characters, 2 reports, and 3 messages of a command: the queue overflows |
| `MCI2cBus` | `Exclusive`: one transfer at a time, one function on the LCD at a time; `OneFaultFailsNoCall`; `Diagnostics`: what `mpuirq` may find, in a transfer and between; `ConsoleAnswers`: each command returns | the command task with a scan and a function on the LCD, the power and the display task; two faults (one fails no call, two are the least that fail one), which end an attempt by a time-out at its start or by an abort while it reads (the proofs are for any sets of commands and of failures) |
| `MCFlashLog` | `LogHoldsRecords`; `ClearedLogIsEmpty` | a sector of two records, a queue of one message, one fault and one reset, any number of events, and of the commands that touch the log (those on the test sector make the same calls of the driver) |
| `MCMotion` | `MovesAndStopsAlternate`; `LedShowsMode`; `LedShowsMotion` | the real thresholds (2 active, 10 still samples); a calibration of two readings; no bound on behaviours |
| `MCMotionDark` | a **violation** of `DarkWhenOff`, see findings | 3 still samples |

Each property has a mutant that TLC refutes under the same configuration; `MCKernel`
is the run whose properties look into the mechanics of the kernel, the others take
the kernel as the common ground of their module.

Symmetry is used in `MCEventFlag` only (the two tasks of equal priority; the bits), where
neither liveness nor an ordering of the permuted values is checked. Deadlock is
checked everywhere but in `MCUart`, which stops when the bounds on the input are
reached and all is printed: `Settles` says in which state.

**Fairness of the kernel** (`MCKernel`), of four actions. The processor takes a pending
PendSV as soon as the handlers before it return, and the dispatcher between
`pendsv_entry` and its end is straight-line code: weak fairness of `pendsv_entry` and
`dispatch_entry`. The idle loop of `dispatch.S` polls `sche_task`: weak fairness of
`idle_exit`. The SysTick counter is never stopped: weak fairness of
`systimer_handler`. Nothing is assumed of tasks: they may compute for ever, so no
property says that a task of lower priority ever runs.

**Fairness of the application.** In `Uart` and `I2cBus` the bodies of the tasks are known,
and the processor executes the task that is to run: weak fairness of "some task makes
its step". In `I2cBus` delays end (the tick), and one assumption is about load: the
power task is busy for milliseconds of each second, so the display task, below it,
gets on: strong fairness of its steps. Without it the model would let a delay of a
second end before a transfer of the display task does, over and over, and a command
that waits for the semaphore of the LCD would wait for ever.

**Timing in `Motion`.** A delay ends there only when no task is ready: the delays of the
calibration are 300 times 10 ms in which the other tasks need a fraction of the
processor, and what the calibration must not overtake is a detection task that was
preempted before it began. `LedShowsMotion` depends on it; a system so overloaded that
the detection does not run for three seconds could show a wrong LED.
`BlinkTime` and all other delays may end at any moment.

## What is proved

`Kernel_proofs` proves, for every set of tasks, every number and assignment of
priorities, every length of the tick, every set of times and of wait factors and every
bound on `wupcnt` (assumption `KernelAssumption`, which TLC evaluates for the
instances):

| theorem | statement |
|---|---|
| `KernelInvariant` | `KernelSpec => []KernelInv`, the inductive invariant |
| `TypeCorrect`, `QueuesAreIntact`, `TopTaskRuns`, `DispatchIsNeverLost`, `WakeupsAreKept` | `TypeOK`, `QueueIntegrity`, `RunsTopTask`, `NoLostDispatch`, `NoSleepOnCountedWakeup` are invariants |
| `ExitIsFinal` | `KernelSpec => NoResurrection`: only a start during its exit makes an alive task go on behind its `tk_ext_tsk` |

The argument. `KernelInv` is the conjunction of four of the checked invariants and
`ProcessorInv`; the fifth, `RunsTopTask`, follows from it. None of them is inductive alone: that a waiting call unlinks its caller
(`QueueIntegrity`) needs that the running task is the head of its ready queue
(`RunsTopTask`), which follows from `NoLostDispatch` once nothing is pending; that
needs `scheduler()` to compare with the right `cur_task`, so that the dispatcher's
states must be tied to `cur_task` and `pc` (`ProcessorInv`), where a task that is
switched to has a context to go on from. `NoResurrection` is about steps: calls leave
the contexts alone but for a fresh one (`NoneLostByCall`), and a switch saves that of
the current task, which is behind its `tk_ext_tsk` only if it has ended or was lost
before (`NoneLostBySwitch`). The steps of the proof follow the
structure of the code: `SuspendPreserves` (every waiting call), `AwakenPreserves` and
`ReleasePreserves` (every end of waits, for any set of tasks), then one lemma for each
action, then the theorem by the usual rule for invariants.

The two moves are stated for *any* wait factor, queue order and error code: they are
what the models of the kernel objects use too, whose proofs cite them.

On these stand, with the same generality, the proofs about the abstract scheduler (in
the same module) and about the kernel's objects:

| module | theorem | statement |
|---|---|---|
| `Kernel_proofs` | `SchedulesPreemptively` | the first state and every step of `Kernel` are those of `PreemptiveScheduler`, or stutter: the safety part of `ImplementsScheduler` |
| `TaskQueueList_proofs` | `QueuesAreLinked` | `Spec => ImplementsQueues`: the linked TCBs are the sequences that everything else is about |
| `KernelObjects_proofs` | `SemaphoreInvariant`, `UnitsStayInBounds` | the inductive invariant; `SemaphoreInv` |
| | `GrantsAreInOrder`, `UnitsAreNotLeftIdle` | `Spec => GrantsInOrder`, `Spec => OnlyTimeoutStrandsUnits` |
| | `FlagInvariant`, `EventsAreNotMissed` | the inductive invariant of `EventFlag`; `NoMissedEvent` |
| | `NobodyIsOvertaken`, `BitsAreConsumedOnce` | `FlagSpec => FirstComeFirstServed`, `FlagSpec => ConsumedOnce` |
| | `WaitsEndOnTime` | `TimeSpec => EndsOnTime` |
| | `PhaseNeverDrifts`, `HandlersAreCalledWhenDue` | `NominalPhase` is an invariant of `Cyclic`; `CycSpec => CalledWhenDue` |
| | `RingsAreInBounds`, `NobodyWaitsWithoutNeed` | `MsgqTypeOK` and `NoNeedlessWait` are invariants |
| | `QueuesAreChannels` | `MessageSpec => ImplementsChannels`: every queue refines `MessageChannel` |
| | `WaitsEndInTurn` | `MessageSpec => WaitsEndInOrder` |
| `Mutex_proofs` | `MutexInvariant`, `NoOrphans`, `InheritanceIsStrict`, `InversionIsBounded` | the inductive invariant; `OwnersAlive`, `StrictInheritance` and `BoundedInversion` are invariants |
| | `OwnershipIsHandedOver`, `TimeOutsGiveNothing` | `Spec => HandsOver`, `Spec => TimeOutGivesNothing` |

* Task queues. For every finite set of TCBs, every set of queues and every history of
  the three operations. `ListInv`: the TCBs of each queue, each once, are linked in
  order up to NULL, each points back to the one before it and the first to the last
  (`LinksUp`), and no two queues share a TCB. The `pre` of the first TCB is what makes an
  append and the removal of the last TCB right, and the one pointer that a step on the
  head must remember to set. What a queue holds is found by a walk along `next`; there is only one
  (`WalksAlike`), so that where TCBs are linked up as a sequence, the walk finds that
  sequence (`WalkedChain`). Each operation then needs only the sequence it leaves
  linked up (`LinkedBehind`, `UnlinkedTop`, `UnlinkedInner`), and that it writes to no
  TCB of another queue (`OthersUntouched`). That the callers keep to the rule of adding
  unlinked TCBs and removing linked ones is `QueuesAreIntact`, about the core above it.
* Times. `EndsOnTime` follows from an invariant (`TimeInv`): what is left of a wait's
  time, plus a period for every tick since it began, is always the time asked for
  plus a period.
* Scheduling. Each move of `Kernel` (a task suspends itself, tasks are made ready,
  the dispatcher switches) is put beside the queues of the abstract scheduler, which
  are the same sequences; that the abstract processor has the right task needs
  `KernelInv`.
* Cyclic handlers. `PhaseIsKept`: what remains of an active handler's time, from where
  it is, leads to its next nominal expiry; a tick that ends several periods at once
  leads over all of them.
* Semaphores. The invariant is `KernelInv` with `SemTypeOK` and `SemaphoreInv`. That the
  kernel core keeps `KernelInv` under its new callers is what `SuspendPreserves`,
  `AwakenPreserves` and `ReleasePreserves` say. `GrantsInOrder` comes down to this: the
  loop of `tk_sig_sem` grants a prefix of the waiters, and no other step ends a wait
  for a semaphore with `E_OK`. `OnlyTimeoutStrandsUnits` adds where the loop stops: at
  a waiter for whom the rest is too few; and what a task asks for when it begins to
  wait was not there.
* Message queues. `NoNeedlessWait` speaks of sequences chosen from `wait_queue`; the
  invariant says the same of sets of tasks (`WaitedFor`), with the shape of the rings
  and that tasks wait only for queues that exist. Receivers are served directly only
  while the queue is empty, and a sender moves up only into the cell that has just
  been read: the arithmetic of `head`, `tail` and `count` modulo the size is in the
  lemmas before the theorem. For the refinement it is joined by `Fifo` (`tail` is
  `count` cells after `head`) and `Offers` (every waiting sender has a message). What
  `PutEffect`, `GetEffect` and `GetPutEffect` say of the cells of one ring makes every call
  a put, a get, or a get with a put that was waiting (`SendIsPut`, `ReceiveIsGet`), and
  every other step a stutter of all channels (`KernelIsRest`). Waits end in order, since
  a call ends at most that of the first waiter, and only a tick ends others.
* Event flags. `Seen` says which pattern each waiter meets when bits are set, from what
  the one before it has left: the proof first shows that the function so defined
  exists (`SeenExists`) and only shrinks along the queue. So a waiter that is passed
  over would not be satisfied by what later ones see, nor by what is left
  (`NoMissedEvent`, `FirstComeFirstServed`), and what one consumes is gone for all after
  it (`ConsumedOnce`).
* Mutexes. `MtxInv` is `KernelInv` with the types, `OwnersAlive`, and `Strict`: no task is
  less urgent than one that waits for an inheriting mutex of it, and its priority is
  its own or that of a task it can be traced to. That the scans bring `Strict` about is
  the heart: as long as they have not, each adds a task to those that are at least as
  urgent as some priority, so they end after as many scans as there are tasks
  (`ScansConverge`, `CalculatedIsStrict`); and from `Strict` follows the minimum of
  `StrictInheritance`, also where tasks are in deadlock. Since a change of priorities
  requeues tasks, every call needs a proof that the ready queues stay linked
  (`RequeuedLinks`), also when the caller itself is moved (`MovePreserves`); the tick ends
  several waits, each with its own recalculation (`RoundsProperties`).
  `BoundedInversion` is then inheritance with `RunsTopTask`.

The modules of the objects also assume what their own `ASSUME` says: sizes and requests
are positive, initial counts within the maximum, every task is once in `tcb_tbl`.

Of the application, for all tasks' priorities (but for the order that is assumed in
`FlashLog` and `Motion`), sizes of the rings, of the LCD and of the log, commands,
inputs and numbers of faults and resets:

| module | theorem | statement |
|---|---|---|
| `I2cBus_proofs` | `TasksExclude` | `Exclusive` is an invariant |
| | `RecoveryHelps`, `DiagnosticsAgree` | `OneFaultFailsNoCall` and `Diagnostics` are invariants |
| `Uart_proofs` | `PrinterLock`, `TextsStayWhole` | the lock on the transmitter is in one of four states; `MessagesStayWhole` is an invariant |
| | `QueueInvariant`, `OutputIsKept` | `Spec => []QueueInv`; `Spec => ImplementsOutput`: the transmit queue refines `OutputQueue` |
| | `LossesAreCounted` | `NoSilentLoss` is an invariant |
| `FlashLog_proofs` | `FlashIsExclusive` | the log task and the console are both in a function of the driver only while one waits for the semaphore |
| | `RecordsAreKept`, `ClearedIsEmpty` | `LogHoldsRecords` and `ClearedLogIsEmpty` are invariants |
| `Motion_proofs` | `EventsAlternate`, `LedFollowsMode`, `LedFollowsMotion` | `MovesAndStopsAlternate`, `LedShowsMode` and `LedShowsMotion` are invariants |

* The bus. `BusInv` ties the mutex to where the tasks are (`Ownership`: a task is in a
  transfer exactly as long as it owns the mutex; the others that are past their lock
  wait for it). On that rest the balance of faults and failures (`Costs`: every failed
  call has cost a fault of its own, with one to spare, since before the retry the
  recovery has freed the bus) and the bookkeeping of the errors (`Records`: what each
  step of a failing call has stored, the latch of TX_ABRT_SOURCE being clear when an
  attempt begins). What the functions do in
  their turn plays no role for these.
* The LCD. For the semaphore it does: every function of `command_table` and of the tasks
  locks what it does not have and unlocks what it has (`Proper`, closed under
  composition: `ProperConcat`, `FunctionsAreProper`), also when a failure cuts it short
  (`AfterFailureProperties`). From it `LcdTurn`: the semaphore is free and no function
  has it, or one has it and the others wait, each once (`LockKeepsTurn`,
  `UnlockKeepsTurn`). It assumes `CommandsAssumption`: the console executes commands of
  the table.
* The transmitter. `LockStates` lists the four states of the semaphore with what the
  two tasks are doing: free; held; held with the other waiting. The waiting task
  stands at its first character, as the model has it, but does not run.
* The transmit queue. `QueueInv` adds to `LockInv` whose turn it is and the ring.
  `QueueTurn`: the semaphore is free and no task is between lock and unlock, or one is,
  and all others there wait, each once, and have not begun (`WaitKeepsTurn`,
  `SignalKeepsTurn`). `Ring`: `head` is `count` cells after `tail`, and what the task
  whose turn it is has found (a free cell, a message) still holds when it moves the
  index (`Alone`). From it every step of a sender or of the transmitting task is an
  entry, a loss, a departure or a stutter of `OutputQueue` (`PushSteps`,
  `CountUpSteps`, `PopSteps`, `CountDownSteps`): a cell that is written before
  `count` moves is not yet in the queue. The sum modulo the size of the ring is reduced to a
  comparison and a difference once (`WrapsSum`).
* The receive ring. `RxInv` has the types of the ring and, next to `NoSilentLoss`, only
  `Found`: a character that the console has read is still at `tail` when it moves the
  index, whatever interrupts came in between. That holds since the handler never
  writes to the cell at `tail`: it keeps one cell free (`PutStores`). By induction over the
  characters of a burst, either a counter of losses has moved, or the content of the
  ring has become what it was with the burst after it (`BurstStores`); the console's step
  takes the first (`AdvanceTakes`).
* The flash. `Discipline` says who may be where: what is left of each script (of a
  command that does not touch the log, only steps that spare its sector; of a
  clearing, a position in its script, `Rest`; of a notification, at most its two
  steps), that the semaphore is free with nobody in a function of the driver, or held by
  one task there, the other waiting (`SemTurn`), and that while the log task scans, it
  is not interrupted in the middle: the console is not in the driver when it reads
  (`ScanTurn`, `Scanned`), so that what it has read is what is there.
* The log. `Recorded` says what is in the sector. `Solid`: every record counted since the
  last clearing began is in its cell, whole, with valid ones before it. `BusyKept`: what
  the chip has yet to do (a task may have given up waiting for it) spares them.
  `Counted`: the counter agrees with both. The hard part is the clearing, which shares
  `flashlog_ready`, the counter and the sector with a log task that may have taken a
  record, and checked `flashlog_ready`, before the clearing began (`ClearingAt`). After
  the erase one of three things holds, at each step of the verification. `Quiet`: the
  sector is erased and the log task has nothing under way. `Dirty`: it has written, or
  is writing, and in a cell that is still to be verified, so that the clearing will
  fail. `HandOver`: it was woken with the semaphore and, being more urgent than the
  console, runs next. So when the clearing has verified the last cell, the log task is
  quiet. The case in which a scan succeeds while the log is being cleared is left out
  of both properties (`overtaken`), and so of the invariant: `FlashInv` is
  `Discipline /\ (overtaken \/ Recorded)`. Assumed of the priorities is that the log task
  goes before the console and the console before the detection, as in `usermain.c`; in
  the opposite order TLC finds `LogHoldsRecords` violated, by an erase that begins
  after a scan has read the last cell and before it uses what it read.
* Motion. What is left of the command is stated as a position in its script (`Rest`),
  for any number of readings (`CommandSteps`, `CommandShape`). `MotionInv` ties the
  position to the rest: before its stop and from its start on a measurement may be
  on, in between it is not; and from the last delay of the calibration to the end of the
  command the detection has nothing left to report, since a delay ends with the
  detection waiting for the sensor (`TimeUpPreserves`). So no report of the old
  detection is left when the new one starts, and the log that was told of motion
  either has a detection in motion behind it, or is about to be told of the end, by the
  detection (`Detection`) or by the command (`Closing`). For the LED, `Display` says
  that a mode which its task has not applied is followed by a notification, pending
  in the flag or due in somebody's script. Assumed of the priorities is that the
  console goes before the detection, as in `usermain.c`; the thresholds may be any.

The first part of `Kernel_proofs` proves what `Entries` and the queue operations do to the
members of a queue, to its order and to the absence of duplicates (`EntriesProperties`,
`RemoveEntryProperties`, `AddEntryProperties`, `RemoveTopProperties`,
`ConcatQueueProperties`, `EntriesOfEntries`, ...), for all queues.

**Recursion.** The library's induction rules take an operator as their parameter, which
the provers cannot instantiate. Where a model recurses over numbers (`Seen`, the scans
of `Calculated`, the loops of `release_mutexes` and of the tick, the drain of the receive
FIFO), it does so by a function, and the proofs go by the least element of a set of numbers (`LeastElement`,
`SetInduction`): the set of those for which the function is defined, or has the
property, holds 0 and every successor, and so all. So is the walk along a
linked list, a function of the number of steps.

Only model-checked is all liveness (`FiniteWaitEnds`, `Settles`, `ConsoleAnswers`, the
fairness in `ImplementsScheduler`), which is beyond the prover. And that `Entries`
is the standard `SelectSeq`, which is recursive, TLC checks for all queues up to four
TCBs; the proofs are about `Entries` itself.

## Findings

* **The LED can stay lit after a failed calibration** (`task_mpuirq.c:66`, `MCMotionDark`).
  The detection judges a sample after it has looked at `motion_enabled` (line 192).
  In between the command task, which has the higher priority, can stop the
  measurement and fail to calibrate, which turns the LED off; then the detection
  goes on, finds motion, sets the LED to lit and logs the motion. The repository's
  README, lines 524 and 528, has the LED dark before a measurement and after a
  calibration that failed. (A calibration that succeeds restarts the detection and
  sets the LED after that: `LedShowsMotion` holds.)

Five more disagreements, stated here without a run of their own (nothing in the
repository meets the first; of the third none of the application's objects is affected,
the fourth is the better choice, and the fifth is in a demonstration that is not modelled):

* A task that an interrupt handler restarts during its exit does not begin anew
  (`dispatch.S:31`). `tk_ext_tsk` leaves the ended task in `cur_task` until
  the dispatcher has run. When a handler calls `tk_sta_tsk` for it in between, which no
  check forbids (`task_mange.c:51-73`; the repository's README, line 1286, forbids
  handlers only the calls that wait), the task gets a fresh frame and becomes READY; then the
  dispatcher saves the stack pointer of the ended thread over the pointer to that
  frame, and resumes the task behind its `tk_ext_tsk`. `NoResurrection` says that this
  is the only way; as an invariant of `MCKernel`, `Executing => pc # "exited"` has a
  counterexample of nine states. No handler of the repository calls `tk_sta_tsk`, and a task cannot
  do it: it executes only when the dispatcher is done.
* The diagnostics of a failed retry mix two attempts (`i2c.c:578`).
  TX_ABRT_SOURCE is taken over after the first attempt only (lines 578 and 619), while
  a retry that fails overwrites the stage. A first attempt that ran into a time-out and
  a retry that the controller aborted are reported by `mpuirq` with the stage of the
  retry and a TX_ABRT_SOURCE of 0. The repository's README, line 400, promises the
  latest of each. `Diagnostics` says what does fit together; that a call which
  has failed has an abort recorded if its attempts met one,
  `pc[t] = "unlock" /\ ~ok[t] => i2c.abort = i2c.current`, TLC refutes in seven states.
* A newcomer overtakes the first waiter of a semaphore (`semaphore.c:52`): `tk_wai_sem`
  takes the units whenever there are enough, also when a task that wants more
  already waits. `include/apidef.h:14` says of `TA_FIRST` that the task at the head of
  the queue has precedence. With binary semaphores a unit is handed to a waiter
  directly, and it makes no difference. Within the queue the order is kept
  (`GrantsInOrder`).
* The I2C0 mutex is not first come, first served (`mutex.c:75`, created at `i2c.c:99`
  with `TA_INHERIT`). Its unlock takes the most urgent waiter; the repository's README,
  lines 376-377, says the first, and `i2c.c:28` calls it a FIFO mutex. (`HandsOver`
  states what the code does.)
* The inheritance test cannot always be repeated (`task_mutexpi.c:96`). Its task LOW sets
  the last of the three events before it calls `tk_ext_tsk`, and the command task, of
  higher priority, preempts it there. If the next `mtxpitest` is in the receive ring by
  then, `tk_sta_tsk` finds LOW not dormant and the test ends with `E_OBJ`. The
  repository's README, line 928, says that the tasks are dormant when the test ends and
  the command can be repeated.

Not disagreements, but worth knowing:

* When the first waiter of a semaphore times out, units that suffice for the next one
  are left beside it until somebody returns some (`OnlyTimeoutStrandsUnits` shows this
  is the only way). A wakeup counted for a task survives its exit and restart
  (`task_mange.c` leaves `wupcnt`).
* `help` sends 39 messages to a queue of 32 whose consumer has the lower priority: what
  does not fit is dropped and counted, so not all commands are listed (compare the
  repository's README, line 1102). `Uart` has such commands, and `ImplementsOutput` the
  count.
* The log has no checksum: a record torn by a reset can look valid with a wrong sample
  count. A scan that failed at first is repeated each second, and may succeed while
  the log is being cleared: it declares the log ready (`task_flashlog.c:258`) before the
  clearing has verified the sector. `LogHoldsRecords` and `ClearedLogIsEmpty` say what
  holds otherwise; the history variable `overtaken` marks that case.
* A bus that a device holds again right after the recovery fails the retry too and
  then costs the next call its first attempt; the recovery does not look at SDA.

## What is not modelled

* Data: what is measured, converted, formatted and displayed; the register accesses
  within a transfer; splitting and comparing of command lines; commands that only
  print.
* The set-up of the sensor interrupt in `task_mpuirq`, after whose failure the task
  function returns without `tk_ext_tsk`: what the processor then does is determined by
  no source.
* The demonstrations (`task_led.c`, `task_msgtest.c`, `task_mutexpi.c`, `task_uartlog.c`): what
  they show of the kernel is checked for any callers in the kernel's modules.
* The width of integers: times, counts and priorities of the models are naturals.
* The contents of stack frames, stack overflows, faults, and interrupts nested by
  changing priorities; `boot/`, the linker script and `usermain.c`, which run before
  there is any concurrency.

## Plan

The kernel comes first, since everything else stands on it, and in it the queues,
the scheduler and the dispatcher; then the drivers and the application in the order
in which data flows through them: `Uart`, `I2cBus`, `FlashLog`, `Motion`. That part is
done. Left are:

1. The arithmetic of `tmout + TIMER_PERIOD` with 32-bit numbers, and the conversions of
   `adt7410.c`, `ina226.c` and `mini_printf.c` against their definitions.
2. The demonstrations, `task_mutexpi.c` first (its result follows from
   `BoundedInversion`).
3. The detection task as a fourth user of `I2cBus`.

Theorems: none is left of the properties that the prover can reach.
