------------------------------- MODULE Motion -------------------------------
(***************************************************************************)
(* Motion detection: the interrupt of the sensor (gpio.c) and the task it  *)
(* notifies (task_mpuirq.c), the LED that shows the state                  *)
(* (task_motionled.c), and the motion command, which calibrates.           *)
(*                                                                         *)
(* As in I2cBus, the calls a function has yet to make are its script; the  *)
(* I2C transfers of that module are one step here, that may fail.  What    *)
(* the log does with an event is in FlashLog.  The counters of samples and *)
(* errors, only displayed, are left out.                                   *)
(***************************************************************************)
EXTENDS TaskCalls

CONSTANTS
  Priority,      \* of the three tasks (usermain.c)
  ActiveSamples, \* MOTION_ACTIVE_SAMPLE_COUNT, 2
  StillSamples,  \* MOTION_STILL_SAMPLE_COUNT, 10
  Samples        \* readings of a calibration, 300

Task == {"rx", "mpuirq", "led"}

ASSUME MotionAssumption ==
  /\ Priority \in [Task -> Nat] /\ Priority["rx"] < Priority["mpuirq"]
  /\ {ActiveSamples, StillSamples} \subseteq Nat \ {0}
  /\ Samples \in Nat \ {0, 1}

Do(op, arg) == <<[op |-> op, arg |-> arg]>>

VARIABLES
  pc, script,  \* of each task
  flg,         \* mpu_flgid ("mpuirq") and motion_led_flgid ("led")
  motion,      \* the statics of task_mpuirq.c
  mode, led,   \* motion_led_mode; applied_mode and the level of GPIO16
  events       \* history: the last two events the log was notified of

ledVars == <<mode, led>>
vars == <<pc, script, flg, motion, ledVars, events>>

Init ==
  /\ pc = [t \in Task |-> "call"]
  /\ script = [t \in Task |-> <<>>]
  /\ flg = [t \in {"mpuirq", "led"} |-> ClearFlg]
  /\ motion = [enabled |-> FALSE, detected |-> FALSE, active |-> 0, still |-> 0]
  /\ mode = "OFF" /\ led = [applied |-> "OFF", lit |-> FALSE]
  /\ events = <<"none", "none">>

Ready == {t \in Task :
            /\ pc[t] # "dly"
            /\ t \in {"mpuirq", "led"} => ~flg[t].wai
            /\ t = "rx" => script["rx"] # <<>>}

Step(t, from, to) ==
  /\ pc[t] = from /\ Runs(t, Ready, Priority)
  /\ pc' = [pc EXCEPT ![t] = to]

Doing(t, ops) == script[t] # <<>> /\ Head(script[t]).op \in ops
Arg(t) == Head(script[t]).arg

(* t does what its script says next, which is one step. *)
Does(t, op) ==
  /\ Doing(t, {op}) /\ Step(t, "call", "call")
  /\ script' = [script EXCEPT ![t] = Tail(@)]

(***************************************************************************)
(* What tasks do to each other: set the mode of the LED, and notify the    *)
(* log.                                                                    *)
(***************************************************************************)
motion_led_set_mode(m) == Do("mode", m) \o Do("flag", m)
task_flashlog_notify(e) == Do("notify", e)

SetMode(t) ==
  /\ \/ Does(t, "mode") /\ mode' = Arg(t) /\ UNCHANGED flg
     \/ Does(t, "flag") /\ flg' = [flg EXCEPT !["led"] = tk_set_flg(@)] /\ UNCHANGED mode
  /\ UNCHANGED <<motion, led, events>>

Notify(t) ==
  /\ Does(t, "notify")
  /\ events' = <<events[2], Arg(t)>>
  /\ UNCHANGED <<flg, motion, ledVars>>

(***************************************************************************)
(* task_mpuirq: each measurement is read and, if motion is to be detected, *)
(* judged.                                                                 *)
(***************************************************************************)
WaitForData ==
  /\ script["mpuirq"] = <<>> /\ Step("mpuirq", "call", "sample")
  /\ flg' = [flg EXCEPT !["mpuirq"] = tk_wai_flg(@)]
  /\ UNCHANGED <<script, motion>>

ReadSample ==
  /\ (Step("mpuirq", "sample", "check") \/ Step("mpuirq", "sample", "call"))
  /\ UNCHANGED <<script, flg, motion>>

IsEnabled ==
  /\ IF motion.enabled THEN Step("mpuirq", "check", "update") ELSE Step("mpuirq", "check", "call")
  /\ UNCHANGED <<script, flg, motion>>

motion_update(active) ==
  LET a == IF active THEN Min({motion.active + 1, ActiveSamples}) ELSE 0
      s == IF active THEN 0 ELSE Min({motion.still + 1, StillSamples})
      moving == IF motion.detected THEN s < StillSamples ELSE a >= ActiveSamples
      event  == IF moving THEN "MOVING" ELSE "STOPPED"
  IN  /\ Step("mpuirq", "update", "call")
      /\ motion' = [motion EXCEPT !.active = a, !.still = s, !.detected = moving]
      /\ script' = [script EXCEPT !["mpuirq"] =
           IF moving = motion.detected THEN <<>>
           ELSE motion_led_set_mode(IF moving THEN "MOVING" ELSE "STILL")
                  \o task_flashlog_notify(event)]
      /\ UNCHANGED flg

task_mpuirq ==
  /\ (WaitForData \/ ReadSample \/ IsEnabled \/ \E active \in BOOLEAN : motion_update(active))
  /\ UNCHANGED <<ledVars, events>>

mpu_data_ready_notify_from_isr ==
  /\ flg' = [flg EXCEPT !["mpuirq"] = tk_set_flg(@)]
  /\ UNCHANGED <<pc, script, motion, ledVars, events>>

(***************************************************************************)
(* task_motionled: applies the mode, and waits for the next; in the modes  *)
(* that blink it waits with a time-out.                                    *)
(***************************************************************************)
Blinks == led.applied \in {"SETTLING", "STILL"}

ApplyMode ==
  /\ Step("led", "call", "await")
  /\ led' = IF mode = led.applied THEN led ELSE [applied |-> mode, lit |-> mode # "OFF"]
  /\ UNCHANGED flg

(* Mutant: a notification that came while the mode was applied is cleared. *)
AwaitChange_clear ==
  /\ Step("led", "await", "call")
  /\ flg' = [flg EXCEPT !["led"] = tk_wai_flg(ClearFlg)]
  /\ UNCHANGED led

AwaitChange ==
  /\ Step("led", "await", "call")
  /\ flg' = [flg EXCEPT !["led"] = tk_wai_flg(@)]
  /\ UNCHANGED led

Toggle ==
  /\ Step("led", "toggle", "call")
  /\ led' = [led EXCEPT !.lit = ~@]
  /\ UNCHANGED flg

task_motionled ==
  /\ (ApplyMode \/ AwaitChange \/ Toggle)
  /\ UNCHANGED <<script, motion, mode, events>>

BlinkTime ==
  /\ flg["led"].wai /\ Blinks
  /\ flg' = [flg EXCEPT !["led"].wai = FALSE]
  /\ pc' = [pc EXCEPT !["led"] = "toggle"]
  /\ UNCHANGED <<script, motion, ledVars, events>>

(***************************************************************************)
(* The motion command.  The calibration, which lasts three seconds, sets up*)
(* the sensor, then reads it with a delay after each reading but the last, *)
(* and ends with the first access that fails.                              *)
(***************************************************************************)
mpu6050_calibrate_motion ==
  [i \in 1..2 * Samples |->
     [op |-> IF i # 1 /\ i % 2 = 1 THEN "dly" ELSE "reading", arg |-> 0]]

(* Mutant: the log is not told that detection starts afresh. *)
cmd_motion_silent ==
  /\ script["rx"] = <<>>
  /\ script' = [script EXCEPT !["rx"] =
       Do("stop", 0) \o motion_led_set_mode("OFF") \o motion_led_set_mode("SETTLING")
         \o mpu6050_calibrate_motion \o Do("start", 0) \o motion_led_set_mode("STILL")]
  /\ UNCHANGED <<pc, flg, motion, ledVars, events>>

cmd_motion ==
  /\ script["rx"] = <<>>
  /\ script' = [script EXCEPT !["rx"] =
       Do("stop", 0) \o motion_led_set_mode("OFF") \o motion_led_set_mode("SETTLING")
         \o mpu6050_calibrate_motion
         \o Do("start", 0) \o motion_led_set_mode("STILL") \o task_flashlog_notify("STOPPED")]
  /\ UNCHANGED <<pc, flg, motion, ledVars, events>>

task_mpuirq_motion_stop ==
  Does("rx", "stop") /\ motion' = [motion EXCEPT !.enabled = FALSE]

(* Mutant: what was detected before is still taken for detected. *)
task_mpuirq_motion_start_kept ==
  /\ Does("rx", "start")
  /\ motion' = [motion EXCEPT !.enabled = TRUE, !.active = 0, !.still = 0]

task_mpuirq_motion_start ==
  /\ Does("rx", "start")
  /\ motion' = [enabled |-> TRUE, detected |-> FALSE, active |-> 0, still |-> 0]

Calibrate ==
  /\ \/ Does("rx", "reading")
     \/ /\ Doing("rx", {"reading"}) /\ Step("rx", "call", "call")
        /\ script' = [script EXCEPT !["rx"] = motion_led_set_mode("OFF")]
  /\ UNCHANGED motion

Commanded ==
  /\ task_mpuirq_motion_stop \/ task_mpuirq_motion_start \/ Calibrate
  /\ UNCHANGED <<flg, ledVars, events>>

StartDelay(t) ==
  /\ Doing(t, {"dly"}) /\ Step(t, "call", "dly")
  /\ UNCHANGED <<script, flg, motion, ledVars, events>>

(* Of the three seconds a calibration sleeps, ten milliseconds at a time,  *)
(* the other tasks need a fraction: when it ends nobody is still ready.    *)
TimeUp(t) ==
  /\ Ready = {}
  /\ pc[t] = "dly" /\ pc' = [pc EXCEPT ![t] = "call"]
  /\ script' = [script EXCEPT ![t] = Tail(@)]
  /\ UNCHANGED <<flg, motion, ledVars, events>>

TaskStep(t) ==
  \/ SetMode(t) \/ Notify(t) \/ StartDelay(t)
  \/ t = "rx" /\ Commanded
  \/ t = "mpuirq" /\ task_mpuirq
  \/ t = "led" /\ task_motionled

Next ==
  \/ \E t \in Task : TaskStep(t) \/ TimeUp(t)
  \/ cmd_motion
  \/ mpu_data_ready_notify_from_isr
  \/ BlinkTime

Spec == Init /\ [][Next]_vars

(***************************************************************************)
(* Properties.                                                             *)
(***************************************************************************)

(* The log is never notified of two beginnings of motion in a row, however *)
(* the command interrupts the detection: every start of a measurement      *)
(* notifies of a stop before the detection, which then starts afresh, can  *)
(* notify of motion (task_mpuirq.c).                                       *)
MovesAndStopsAlternate == events # <<"MOVING", "MOVING">>

(* The task of the LED never waits while a mode is set that it has not     *)
(* applied, except in between the setting and its notification; and the    *)
(* LED is dark when it is off and lit while there is motion, however often *)
(* it blinked before (task_motionled.c).                                   *)
LedShowsMode ==
  flg["led"].wai =>
    /\ mode = led.applied \/ \E t \in Task : Doing(t, {"flag"})
    /\ led.applied = "OFF" => ~led.lit
    /\ led.applied = "MOVING" => led.lit

(* While a measurement is on and nobody is about to change it, the LED     *)
(* shows what the detection has found: the mode is set by the command and  *)
(* by the detection, with other steps of the other in between.             *)
LedShowsMotion ==
  motion.enabled /\ script["rx"] = <<>> /\ script["mpuirq"] = <<>> =>
    mode = IF motion.detected THEN "MOVING" ELSE "STILL"

(* README.md: the LED is dark until a measurement starts, and after the    *)
(* calibration has failed.                                                 *)
DarkWhenOff ==
  ~motion.enabled /\ script["rx"] = <<>> /\ flg["mpuirq"].wai => mode = "OFF"
=============================================================================
