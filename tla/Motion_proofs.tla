--------------------------- MODULE Motion_proofs ---------------------------
(***************************************************************************)
(* Proofs about Motion, for all priorities that put the console before the *)
(* detection, all thresholds and every number of readings above one.       *)
(***************************************************************************)
EXTENDS Motion, SequenceTheorems, TLAPS

Modes  == {"OFF", "SETTLING", "STILL", "MOVING"}
Events == {"MOVING", "STOPPED"}
Steps  == [op : {"mode", "flag", "notify", "stop", "start", "reading", "dly"},
           arg : Modes \cup Events \cup {0}]

(***************************************************************************)
(* The script of the motion command, and what is left of it.               *)
(***************************************************************************)
End == 2 * Samples + 9

MotionCommand ==
  Do("stop", 0) \o motion_led_set_mode("OFF") \o motion_led_set_mode("SETTLING")
    \o mpu6050_calibrate_motion
    \o Do("start", 0) \o motion_led_set_mode("STILL") \o task_flashlog_notify("STOPPED")

(* s is what is left when the k-th step is the next. *)
Rest(s, k) ==
  /\ k \in 1..End + 1
  /\ s \in Seq(Steps) /\ Len(s) = End + 1 - k
  /\ \A i \in 1..Len(s) : s[i] = MotionCommand[k - 1 + i]

LEMMA EndFacts == End \in Nat /\ End >= 13
BY MotionAssumption DEF End

LEMMA Join ==
  \A s, t \in Seq(Steps) :
    /\ s \o t \in Seq(Steps) /\ Len(s \o t) = Len(s) + Len(t)
    /\ \A i \in 1..Len(s) : (s \o t)[i] = s[i]
    /\ \A i \in 1..Len(t) : (s \o t)[Len(s) + i] = t[i]
<1> SUFFICES ASSUME NEW s \in Seq(Steps), NEW t \in Seq(Steps)
             PROVE  /\ s \o t \in Seq(Steps) /\ Len(s \o t) = Len(s) + Len(t)
                    /\ \A i \in 1..Len(s) : (s \o t)[i] = s[i]
                    /\ \A i \in 1..Len(t) : (s \o t)[Len(s) + i] = t[i]
  OBVIOUS
<1> QED BY ConcatProperties, LenProperties

(* What each step of the command is. *)
CommandStep(k) ==
  IF k = 1 THEN [op |-> "stop", arg |-> 0]
  ELSE IF k = 2 THEN [op |-> "mode", arg |-> "OFF"]
  ELSE IF k = 3 THEN [op |-> "flag", arg |-> "OFF"]
  ELSE IF k = 4 THEN [op |-> "mode", arg |-> "SETTLING"]
  ELSE IF k = 5 THEN [op |-> "flag", arg |-> "SETTLING"]
  ELSE IF k <= End - 4 THEN mpu6050_calibrate_motion[k - 5]
  ELSE IF k = End - 3 THEN [op |-> "start", arg |-> 0]
  ELSE IF k = End - 2 THEN [op |-> "mode", arg |-> "STILL"]
  ELSE IF k = End - 1 THEN [op |-> "flag", arg |-> "STILL"]
  ELSE [op |-> "notify", arg |-> "STOPPED"]

LEMMA SingleSteps ==
  /\ \A m \in Modes : /\ motion_led_set_mode(m) \in Seq(Steps)
                      /\ Len(motion_led_set_mode(m)) = 2
                      /\ motion_led_set_mode(m)[1] = [op |-> "mode", arg |-> m]
                      /\ motion_led_set_mode(m)[2] = [op |-> "flag", arg |-> m]
  /\ \A op \in {"stop", "start"} : Do(op, 0) \in Seq(Steps) /\ Len(Do(op, 0)) = 1
  /\ \A e \in Events : /\ task_flashlog_notify(e) \in Seq(Steps)
                       /\ Len(task_flashlog_notify(e)) = 1
<1>1. ASSUME NEW m \in Modes
      PROVE  /\ motion_led_set_mode(m) \in Seq(Steps) /\ Len(motion_led_set_mode(m)) = 2
             /\ motion_led_set_mode(m)[1] = [op |-> "mode", arg |-> m]
             /\ motion_led_set_mode(m)[2] = [op |-> "flag", arg |-> m]
  BY DEF motion_led_set_mode, Do, Steps
<1>2. \A op \in {"stop", "start"} : Do(op, 0) \in Seq(Steps) /\ Len(Do(op, 0)) = 1
  BY DEF Do, Steps
<1>3. \A e \in Events : /\ task_flashlog_notify(e) \in Seq(Steps)
                        /\ Len(task_flashlog_notify(e)) = 1
  BY DEF task_flashlog_notify, Do, Steps
<1> QED BY <1>1, <1>2, <1>3

LEMMA CommandSteps ==
  /\ MotionCommand \in Seq(Steps) /\ Len(MotionCommand) = End
  /\ \A k \in 1..End : MotionCommand[k] = CommandStep(k)
<1> DEFINE n  == 2 * Samples
           a  == Do("stop", 0)
           b  == motion_led_set_mode("OFF")
           c  == motion_led_set_mode("SETTLING")
           d  == mpu6050_calibrate_motion
           e  == Do("start", 0)
           f  == motion_led_set_mode("STILL")
           g  == task_flashlog_notify("STOPPED")
<1>1. /\ a \in Seq(Steps) /\ Len(a) = 1 /\ a[1] = [op |-> "stop", arg |-> 0]
      /\ b \in Seq(Steps) /\ Len(b) = 2
      /\ b[1] = [op |-> "mode", arg |-> "OFF"] /\ b[2] = [op |-> "flag", arg |-> "OFF"]
      /\ c \in Seq(Steps) /\ Len(c) = 2
      /\ c[1] = [op |-> "mode", arg |-> "SETTLING"] /\ c[2] = [op |-> "flag", arg |-> "SETTLING"]
      /\ e \in Seq(Steps) /\ Len(e) = 1 /\ e[1] = [op |-> "start", arg |-> 0]
      /\ f \in Seq(Steps) /\ Len(f) = 2
      /\ f[1] = [op |-> "mode", arg |-> "STILL"] /\ f[2] = [op |-> "flag", arg |-> "STILL"]
      /\ g \in Seq(Steps) /\ Len(g) = 1 /\ g[1] = [op |-> "notify", arg |-> "STOPPED"]
  <2>1. a[1] = [op |-> "stop", arg |-> 0] /\ e[1] = [op |-> "start", arg |-> 0]
        /\ g[1] = [op |-> "notify", arg |-> "STOPPED"]
    BY DEF Do, task_flashlog_notify
  <2> QED BY <2>1, SingleSteps DEF Modes, Events
<1>2. n \in Nat /\ n >= 4 /\ End = n + 9
  BY MotionAssumption DEF End
<1>3. d \in Seq(Steps) /\ Len(d) = n
  <2>1. \A i \in 1..n : d[i] \in Steps
    BY DEF mpu6050_calibrate_motion, Steps
  <2>2. d = [i \in 1..n |-> d[i]]
    BY DEF mpu6050_calibrate_motion
  <2> HIDE DEF d, n
  <2> QED BY <1>2, <2>1, <2>2
<1>4. MotionCommand = ((((((a \o b) \o c) \o d) \o e) \o f) \o g)
  BY DEF MotionCommand
<1>5. \A k \in 1..End : CommandStep(k) =
        IF k = 1 THEN a[1]
        ELSE IF k = 2 THEN b[1] ELSE IF k = 3 THEN b[2]
        ELSE IF k = 4 THEN c[1] ELSE IF k = 5 THEN c[2]
        ELSE IF k <= End - 4 THEN d[k - 5]
        ELSE IF k = End - 3 THEN e[1]
        ELSE IF k = End - 2 THEN f[1] ELSE IF k = End - 1 THEN f[2] ELSE g[1]
  BY <1>1 DEF CommandStep
<1> HIDE DEF a, b, c, d, e, f, g, n
<1> DEFINE s2 == a \o b
<1>6. /\ s2 \in Seq(Steps) /\ Len(s2) = 3
      /\ s2[1] = a[1] /\ s2[2] = b[1] /\ s2[3] = b[2]
  <2>1. /\ s2 \in Seq(Steps) /\ Len(s2) = Len(a) + Len(b)
        /\ \A i \in 1..Len(a) : s2[i] = a[i]
        /\ \A i \in 1..Len(b) : s2[Len(a) + i] = b[i]
    BY <1>1, Join
  <2> HIDE DEF s2
  <2> QED BY <1>1, <2>1
<1> HIDE DEF s2
<1> DEFINE s3 == s2 \o c
<1>7. /\ s3 \in Seq(Steps) /\ Len(s3) = 5
      /\ s3[1] = a[1] /\ s3[2] = b[1] /\ s3[3] = b[2] /\ s3[4] = c[1] /\ s3[5] = c[2]
  <2>1. /\ s3 \in Seq(Steps) /\ Len(s3) = Len(s2) + Len(c)
        /\ \A i \in 1..Len(s2) : s3[i] = s2[i]
        /\ \A i \in 1..Len(c) : s3[Len(s2) + i] = c[i]
    BY <1>1, <1>6, Join
  <2> HIDE DEF s3
  <2> QED BY <1>1, <1>6, <2>1
<1> HIDE DEF s3
<1> DEFINE s4 == s3 \o d
<1>8. /\ s4 \in Seq(Steps) /\ Len(s4) = n + 5
      /\ s4[1] = a[1] /\ s4[2] = b[1] /\ s4[3] = b[2] /\ s4[4] = c[1] /\ s4[5] = c[2]
      /\ \A i \in 1..n : s4[5 + i] = d[i]
  <2>1. /\ s4 \in Seq(Steps) /\ Len(s4) = Len(s3) + Len(d)
        /\ \A i \in 1..Len(s3) : s4[i] = s3[i]
        /\ \A i \in 1..Len(d) : s4[Len(s3) + i] = d[i]
    BY <1>1, <1>3, <1>7, Join
  <2> HIDE DEF s4
  <2> QED BY <1>1, <1>2, <1>3, <1>7, <2>1
<1> HIDE DEF s4
<1> DEFINE s5 == s4 \o e
<1>9. /\ s5 \in Seq(Steps) /\ Len(s5) = n + 6
      /\ \A i \in 1..n + 5 : s5[i] = s4[i]
      /\ s5[n + 6] = e[1]
  <2>1. /\ s5 \in Seq(Steps) /\ Len(s5) = Len(s4) + Len(e)
        /\ \A i \in 1..Len(s4) : s5[i] = s4[i]
        /\ \A i \in 1..Len(e) : s5[Len(s4) + i] = e[i]
    BY <1>1, <1>8, Join
  <2> HIDE DEF s5
  <2> QED BY <1>1, <1>2, <1>8, <2>1
<1> HIDE DEF s5
<1> DEFINE s6 == s5 \o f
<1>10. /\ s6 \in Seq(Steps) /\ Len(s6) = n + 8
       /\ \A i \in 1..n + 6 : s6[i] = s5[i]
       /\ s6[n + 7] = f[1] /\ s6[n + 8] = f[2]
  <2>1. /\ s6 \in Seq(Steps) /\ Len(s6) = Len(s5) + Len(f)
        /\ \A i \in 1..Len(s5) : s6[i] = s5[i]
        /\ \A i \in 1..Len(f) : s6[Len(s5) + i] = f[i]
    BY <1>1, <1>9, Join
  <2> HIDE DEF s6
  <2> QED BY <1>1, <1>2, <1>9, <2>1
<1> HIDE DEF s6
<1> DEFINE s7 == s6 \o g
<1>11. /\ s7 \in Seq(Steps) /\ Len(s7) = n + 9
       /\ \A i \in 1..n + 8 : s7[i] = s6[i]
       /\ s7[n + 9] = g[1]
  <2>1. /\ s7 \in Seq(Steps) /\ Len(s7) = Len(s6) + Len(g)
        /\ \A i \in 1..Len(s6) : s7[i] = s6[i]
        /\ \A i \in 1..Len(g) : s7[Len(s6) + i] = g[i]
    BY <1>1, <1>10, Join
  <2> HIDE DEF s7
  <2> QED BY <1>1, <1>2, <1>10, <2>1
<1> HIDE DEF s7
<1>12. MotionCommand = s7
  BY <1>4 DEF s2, s3, s4, s5, s6, s7
<1>13. ASSUME NEW k \in 1..End PROVE s7[k] = CommandStep(k)
  <2>1. CASE k <= 5
    <3>1. k \in 1..n + 8 /\ k \in 1..n + 6 /\ k \in 1..n + 5
      BY <1>2, <2>1
    <3>2. s7[k] = s4[k]
      BY <1>9, <1>10, <1>11, <3>1
    <3>3. k = 1 \/ k = 2 \/ k = 3 \/ k = 4 \/ k = 5
      BY <2>1
    <3>4. s4[k] = IF k = 1 THEN a[1] ELSE IF k = 2 THEN b[1] ELSE IF k = 3 THEN b[2]
                  ELSE IF k = 4 THEN c[1] ELSE c[2]
      BY <1>8, <3>3
    <3> QED BY <1>5, <3>2, <3>3, <3>4
  <2>2. CASE k > 5 /\ k <= End - 4
    <3>1. k - 5 \in 1..n /\ 5 + (k - 5) = k
      BY <1>2, <2>2
    <3>2. s4[k] = d[k - 5]
      BY <1>8, <3>1
    <3>3. k \in 1..n + 8 /\ k \in 1..n + 6 /\ k \in 1..n + 5
      BY <1>2, <2>2
    <3>4. s7[k] = s4[k]
      BY <1>9, <1>10, <1>11, <3>3
    <3>5. CommandStep(k) = d[k - 5]
      BY <1>2, <1>5, <2>2
    <3> QED BY <3>2, <3>4, <3>5
  <2>3. CASE k > End - 4
    <3>1. k = n + 6 \/ k = n + 7 \/ k = n + 8 \/ k = n + 9
      BY <1>2, <2>3
    <3>2. /\ s7[n + 6] = e[1] /\ s7[n + 7] = f[1] /\ s7[n + 8] = f[2] /\ s7[n + 9] = g[1]
      BY <1>2, <1>9, <1>10, <1>11
    <3>3. /\ k = n + 6 => CommandStep(k) = e[1]
          /\ k = n + 7 => CommandStep(k) = f[1]
          /\ k = n + 8 => CommandStep(k) = f[2]
          /\ k = n + 9 => CommandStep(k) = g[1]
      BY <1>2, <1>5
    <3> QED BY <3>1, <3>2, <3>3
  <2>4. k <= 5 \/ (k > 5 /\ k <= End - 4) \/ k > End - 4
    BY <1>2
  <2> QED BY <2>1, <2>2, <2>3, <2>4
<1> QED BY <1>2, <1>11, <1>12, <1>13

(* Where in the command the steps of each kind are. *)
LEMMA CommandShape ==
  ASSUME NEW k \in 1..End
  PROVE  /\ MotionCommand[k] \in Steps
         /\ MotionCommand[k].op = "stop" <=> k = 1
         /\ MotionCommand[k].op = "start" <=> k = End - 3
         /\ MotionCommand[k].op = "notify" <=> k = End
         /\ MotionCommand[k].op = "mode" <=> k \in {2, 4, End - 2}
         /\ MotionCommand[k].op = "flag" <=> k \in {3, 5, End - 1}
         /\ MotionCommand[k].op \in {"reading", "dly"} <=> k \in 6..End - 4
         /\ k = End - 2 => MotionCommand[k].arg = "STILL"
         /\ k = End => MotionCommand[k].arg = "STOPPED"
         /\ k = End - 4 => MotionCommand[k].op = "reading"
         /\ k = End - 5 => MotionCommand[k].op = "dly"
         /\ k \in {2, 4, End - 2} => MotionCommand[k].arg \in Modes
<1>1. End \in Nat /\ End >= 13
  BY EndFacts
<1>2. MotionCommand[k] = CommandStep(k)
  BY CommandSteps
<1>3. CASE k \in 6..End - 4
  <2>1. k - 5 \in 1..2 * Samples /\ MotionCommand[k] = mpu6050_calibrate_motion[k - 5]
    BY <1>1, <1>2, <1>3, MotionAssumption DEF CommandStep, End
  <2>2. MotionCommand[k] \in [op : {"reading", "dly"}, arg : {0}]
    BY <2>1 DEF mpu6050_calibrate_motion
  <2>3. ASSUME k = End - 4 PROVE MotionCommand[k].op = "reading"
    <3>1. k - 5 = 2 * Samples
      BY <2>3, MotionAssumption DEF End
    <3>2. (2 * Samples) % 2 = 0
      BY MotionAssumption
    <3> QED BY <2>1, <3>1, <3>2 DEF mpu6050_calibrate_motion
  <2>4. ASSUME k = End - 5 PROVE MotionCommand[k].op = "dly"
    <3>1. k - 5 = 2 * Samples - 1 /\ k - 5 # 1
      BY <2>4, MotionAssumption DEF End
    <3>2. (2 * Samples - 1) % 2 = 1
      BY MotionAssumption
    <3> QED BY <2>1, <3>1, <3>2 DEF mpu6050_calibrate_motion
  <2> QED BY <1>1, <1>3, <2>2, <2>3, <2>4 DEF Steps
<1>4. CASE k \notin 6..End - 4
  <2>1. k \in {1, 2, 3, 4, 5, End - 3, End - 2, End - 1, End}
    BY <1>1, <1>4
  <2> QED BY <1>1, <1>2, <2>1 DEF CommandStep, Steps, Modes, Events
<1> QED BY <1>3, <1>4

(* What is left begins with its first step, and after it the rest is left. *)
LEMMA RestFacts ==
  ASSUME NEW s, NEW k, Rest(s, k)
  PROVE  /\ k \in 1..End + 1 /\ s \in Seq(Steps)
         /\ s = <<>> <=> k = End + 1
         /\ s # <<>> => /\ k \in 1..End /\ Head(s) = MotionCommand[k]
                        /\ Rest(Tail(s), k + 1)
<1>1. End \in Nat /\ k \in Nat /\ s \in Seq(Steps) /\ Len(s) = End + 1 - k /\ k \in 1..End + 1
  BY EndFacts DEF Rest
<1>2. s = <<>> <=> k = End + 1
  BY <1>1, EmptySeq
<1>3. ASSUME s # <<>>
      PROVE  k \in 1..End /\ Head(s) = MotionCommand[k] /\ Rest(Tail(s), k + 1)
  <2>1. k \in 1..End /\ k + 1 \in 1..End + 1 /\ 1 \in 1..Len(s) /\ k - 1 + 1 = k
    BY <1>1, <1>2, <1>3
  <2>2. /\ Head(s) = s[1] /\ Tail(s) \in Seq(Steps) /\ Len(Tail(s)) = Len(s) - 1
        /\ \A i \in 1..Len(s) - 1 : Tail(s)[i] = s[i + 1]
    BY <1>1, <1>3, HeadTailProperties
  <2>3. Head(s) = MotionCommand[k]
    BY <2>1, <2>2 DEF Rest
  <2>4. ASSUME NEW i \in 1..Len(s) - 1 PROVE Tail(s)[i] = MotionCommand[(k + 1) - 1 + i]
    <3>1. i + 1 \in 1..Len(s) /\ k - 1 + (i + 1) = (k + 1) - 1 + i
      BY <1>1
    <3>2. s[i + 1] = MotionCommand[k - 1 + (i + 1)]
      BY <3>1 DEF Rest
    <3> QED BY <2>2, <3>1, <3>2
  <2>5. Len(Tail(s)) = End + 1 - (k + 1)
    BY <1>1, <2>2
  <2> QED BY <2>1, <2>2, <2>3, <2>4, <2>5 DEF Rest
<1> QED BY <1>1, <1>2, <1>3

LEMMA CommandRest == Rest(MotionCommand, 1)
BY EndFacts, CommandSteps DEF Rest

LEMMA RestUnique ==
  ASSUME NEW s, NEW k, NEW j, Rest(s, k), Rest(s, j)
  PROVE  k = j
BY EndFacts DEF Rest

(***************************************************************************)
(* The inductive invariant.                                                *)
(***************************************************************************)
Shown(found) == IF found THEN "MOVING" ELSE "STILL"
Told(found)  == IF found THEN "MOVING" ELSE "STOPPED"

(* What the detection has to do when what it finds changes. *)
Report(found)      == motion_led_set_mode(Shown(found)) \o task_flashlog_notify(Told(found))
FlagAndTell(found) == Tail(Report(found))
Tell(found)        == Tail(FlagAndTell(found))

(* What a command has to do whose calibration failed. *)
SwitchOff == motion_led_set_mode("OFF")

MotionTypes ==
  /\ pc = [t \in Task |-> pc[t]] /\ script = [t \in Task |-> script[t]]
  /\ pc["rx"] \in {"call", "dly"} /\ pc["mpuirq"] \in {"call", "sample", "check", "update"}
  /\ pc["led"] \in {"call", "await", "toggle"} /\ script["led"] = <<>>
  /\ flg \in [{"mpuirq", "led"} -> [ptn : BOOLEAN, wai : BOOLEAN]]
  /\ motion \in [enabled : BOOLEAN, detected : BOOLEAN, active : Nat, still : Nat]
  /\ mode \in Modes /\ led \in [applied : Modes, lit : BOOLEAN]

(* The detection goes on when it has reported what it found.               *)
Detection ==
  /\ \/ script["mpuirq"] = <<>>
     \/ /\ pc["mpuirq"] = "call"
        /\ script["mpuirq"] \in {Report(motion.detected), FlagAndTell(motion.detected),
                                 Tell(motion.detected)}
  /\ flg["mpuirq"].wai => script["mpuirq"] = <<>>

(* A command is before its stop, its calibration is in progress, or it is  *)
(* after its start; from the last delay to its end the detection has       *)
(* nothing to report.  Or its calibration has failed.                      *)
CommandLeft ==
  \/ \E k \in 1..End + 1 :
       /\ Rest(script["rx"], k)
       /\ motion.enabled => k = 1 \/ k >= End - 2
       /\ k \in End - 4..End => script["mpuirq"] = <<>>
       /\ k \in End - 2..End => ~motion.detected
       /\ pc["rx"] = "dly" => k \in 1..End /\ MotionCommand[k].op = "dly"
  \/ /\ ~motion.enabled /\ pc["rx"] = "call"
     /\ script["rx"] \in {SwitchOff, Tail(SwitchOff)}

(* A start is about to be told to the log. *)
Closing == \E k \in End - 2..End : Rest(script["rx"], k)

(* The log has been told of motion only if there is, or its end is going   *)
(* to be told.                                                             *)
Alternation ==
  /\ MovesAndStopsAlternate
  /\ events[2] = "MOVING" /\ ~Closing => (motion.detected <=> script["mpuirq"] = <<>>)

FlagDue == \E t \in {"rx", "mpuirq"} : Doing(t, {"flag"})

Display ==
  /\ pc["led"] = "await" \/ flg["led"].wai => mode = led.applied \/ flg["led"].ptn \/ FlagDue
  /\ flg["led"].wai => pc["led"] = "call" /\ ~flg["led"].ptn
  /\ pc["led"] = "toggle" => Blinks
  /\ led.applied = "OFF" => ~led.lit
  /\ led.applied = "MOVING" => led.lit

Shows ==
  motion.enabled /\ ~Doing("rx", {"mode"}) /\ ~Doing("mpuirq", {"mode"})
    => mode = Shown(motion.detected)

MotionInv == MotionTypes /\ Detection /\ CommandLeft /\ Alternation /\ Display /\ Shows

LEMMA HeadAndTail ==
  \A s \in Seq(Steps) : s # <<>> =>
    /\ Head(s) = s[1] /\ Tail(s) \in Seq(Steps) /\ Len(Tail(s)) = Len(s) - 1
    /\ \A i \in 1..Len(s) - 1 : Tail(s)[i] = s[i + 1]
BY HeadTailProperties

LEMMA TailOfThree ==
  ASSUME NEW s \in Seq(Steps), Len(s) = 3
  PROVE  /\ s # <<>> /\ Head(s) = s[1] /\ Tail(s) \in Seq(Steps) /\ Len(Tail(s)) = 2
         /\ Tail(s)[1] = s[2] /\ Tail(s)[2] = s[3]
<1>1. s # <<>>
  BY EmptySeq
<1>2. /\ Head(s) = s[1] /\ Tail(s) \in Seq(Steps) /\ Len(Tail(s)) = Len(s) - 1
      /\ \A i \in 1..Len(s) - 1 : Tail(s)[i] = s[i + 1]
  BY <1>1, HeadAndTail
<1>3. Len(s) - 1 = 2
  OBVIOUS
<1>4. Tail(s)[1] = s[1 + 1] /\ Tail(s)[2] = s[2 + 1]
  BY <1>2, <1>3
<1> QED BY <1>1, <1>2, <1>3, <1>4

LEMMA TailOfTwo ==
  ASSUME NEW s \in Seq(Steps), Len(s) = 2
  PROVE  /\ s # <<>> /\ Head(s) = s[1] /\ Tail(s) \in Seq(Steps) /\ Len(Tail(s)) = 1
         /\ Tail(s)[1] = s[2]
<1>1. s # <<>>
  BY EmptySeq
<1> QED BY <1>1, HeadTailProperties

LEMMA TailOfOne ==
  ASSUME NEW s \in Seq(Steps), Len(s) = 1
  PROVE  s # <<>> /\ Head(s) = s[1] /\ Tail(s) = <<>>
<1>1. s # <<>>
  BY EmptySeq
<1>2. Tail(s) \in Seq(Steps) /\ Len(Tail(s)) = 0
  BY <1>1, HeadTailProperties
<1>3. Tail(s) = <<>>
  <2> DEFINE t == Tail(s)
  <2> HIDE DEF t
  <2>1. t = <<>>
    BY <1>2, EmptySeq DEF t
  <2> QED BY <2>1 DEF t
<1> QED BY <1>1, <1>3

LEMMA ReportFacts ==
  ASSUME NEW d \in BOOLEAN
  PROVE  /\ Report(d) # <<>> /\ Head(Report(d)) = [op |-> "mode", arg |-> Shown(d)]
         /\ FlagAndTell(d) # <<>> /\ Head(FlagAndTell(d)) = [op |-> "flag", arg |-> Shown(d)]
         /\ Tell(d) # <<>> /\ Head(Tell(d)) = [op |-> "notify", arg |-> Told(d)]
         /\ Tail(Tell(d)) = <<>>
<1> DEFINE a == motion_led_set_mode(Shown(d))
           b == task_flashlog_notify(Told(d))
           r == Report(d)
           f == FlagAndTell(d)
           t == Tell(d)
<1>1. Shown(d) \in Modes /\ Told(d) \in Events
  BY DEF Shown, Told, Modes, Events
<1>2. /\ a \in Seq(Steps) /\ Len(a) = 2
      /\ a[1] = [op |-> "mode", arg |-> Shown(d)] /\ a[2] = [op |-> "flag", arg |-> Shown(d)]
      /\ b \in Seq(Steps) /\ Len(b) = 1
  BY <1>1, SingleSteps
<1>3. b[1] = [op |-> "notify", arg |-> Told(d)]
  BY DEF task_flashlog_notify, Do
<1>4. r = a \o b
  BY DEF Report
<1>5. f = Tail(r)
  BY DEF FlagAndTell
<1>6. t = Tail(f)
  BY DEF Tell
<1> HIDE DEF a, b, r, f, t
<1>7. /\ r \in Seq(Steps) /\ Len(r) = 3
      /\ r[1] = [op |-> "mode", arg |-> Shown(d)] /\ r[2] = [op |-> "flag", arg |-> Shown(d)]
      /\ r[3] = [op |-> "notify", arg |-> Told(d)]
  <2>1. /\ r \in Seq(Steps) /\ Len(r) = Len(a) + Len(b)
        /\ \A i \in 1..Len(a) : r[i] = a[i]
        /\ \A i \in 1..Len(b) : r[Len(a) + i] = b[i]
    BY <1>2, <1>4, Join
  <2> QED BY <1>2, <1>3, <2>1
<1>8. /\ r # <<>> /\ Head(r) = r[1]
      /\ f \in Seq(Steps) /\ Len(f) = 2 /\ f[1] = r[2] /\ f[2] = r[3]
  BY <1>5, <1>7, TailOfThree
<1>9. /\ f # <<>> /\ Head(f) = f[1]
      /\ t \in Seq(Steps) /\ Len(t) = 1 /\ t[1] = f[2]
  BY <1>6, <1>8, TailOfTwo
<1>10. t # <<>> /\ Head(t) = t[1] /\ Tail(t) = <<>>
  BY <1>9, TailOfOne
<1> QED BY <1>7, <1>8, <1>9, <1>10 DEF r, f, t

LEMMA SwitchOffFacts ==
  /\ Len(SwitchOff) = 2 /\ Len(Tail(SwitchOff)) = 1
  /\ SwitchOff # <<>> /\ Head(SwitchOff) = [op |-> "mode", arg |-> "OFF"]
  /\ Tail(SwitchOff) # <<>> /\ Head(Tail(SwitchOff)) = [op |-> "flag", arg |-> "OFF"]
  /\ Tail(Tail(SwitchOff)) = <<>>
<1> DEFINE s == SwitchOff
           t == Tail(s)
<1>1. /\ s \in Seq(Steps) /\ Len(s) = 2
      /\ s[1] = [op |-> "mode", arg |-> "OFF"] /\ s[2] = [op |-> "flag", arg |-> "OFF"]
  BY SingleSteps DEF Modes, SwitchOff
<1>2. t = Tail(s)
  OBVIOUS
<1> HIDE DEF s, t
<1>3. /\ s # <<>> /\ Head(s) = s[1]
      /\ t \in Seq(Steps) /\ Len(t) = 1 /\ t[1] = s[2]
  BY <1>1, <1>2, TailOfTwo
<1>4. t # <<>> /\ Head(t) = t[1] /\ Tail(t) = <<>>
  BY <1>3, TailOfOne
<1> QED BY <1>1, <1>3, <1>4 DEF s, t

(***************************************************************************)
(* Who runs.                                                               *)
(***************************************************************************)
(* The step that the console does is of a command, or switches the LED off *)
(* after a calibration that failed.                                        *)
LEMMA ConsoleRuns ==
  ASSUME MotionInv, NEW op, Does("rx", op)
  PROVE  /\ pc["rx"] = "call" /\ pc' = pc /\ script["rx"] # <<>> /\ Head(script["rx"]).op = op
         /\ script' = [script EXCEPT !["rx"] = Tail(@)]
         /\ \/ \E k \in 1..End :
                 /\ Rest(script["rx"], k) /\ Head(script["rx"]) = MotionCommand[k]
                 /\ Rest(script'["rx"], k + 1) /\ (Closing => k \in End - 2..End)
                 /\ motion.enabled => k = 1 \/ k >= End - 2
                 /\ k \in End - 4..End => script["mpuirq"] = <<>>
                 /\ k \in End - 2..End => ~motion.detected
            \/ /\ ~motion.enabled /\ ~Closing
               /\ \/ /\ op = "mode" /\ Arg("rx") = "OFF"
                     /\ script'["rx"] = Tail(SwitchOff)
                  \/ op = "flag" /\ script'["rx"] = <<>>
<1>1. /\ pc["rx"] = "call" /\ pc' = pc /\ script["rx"] # <<>> /\ Head(script["rx"]).op = op
      /\ script' = [script EXCEPT !["rx"] = Tail(@)] /\ script'["rx"] = Tail(script["rx"])
  BY DEF Does, Doing, Step, MotionInv, MotionTypes, Task
<1>2. CASE \E k \in 1..End + 1 :
             /\ Rest(script["rx"], k)
             /\ motion.enabled => k = 1 \/ k >= End - 2
             /\ k \in End - 4..End => script["mpuirq"] = <<>>
             /\ k \in End - 2..End => ~motion.detected
  <2>1. PICK k \in 1..End + 1 :
             /\ Rest(script["rx"], k)
             /\ motion.enabled => k = 1 \/ k >= End - 2
             /\ k \in End - 4..End => script["mpuirq"] = <<>>
             /\ k \in End - 2..End => ~motion.detected
    BY <1>2
  <2>2. /\ k \in 1..End /\ Head(script["rx"]) = MotionCommand[k]
        /\ Rest(Tail(script["rx"]), k + 1)
    <3>1. script["rx"] # <<>> /\ Rest(script["rx"], k)
      BY <1>1, <2>1
    <3> QED BY <3>1, RestFacts
  <2>3. Closing => k \in End - 2..End
    BY <2>1, RestUnique DEF Closing
  <2> QED BY <1>1, <2>1, <2>2, <2>3
<1>3. CASE ~motion.enabled /\ script["rx"] \in {SwitchOff, Tail(SwitchOff)}
  <2>1. ASSUME Closing PROVE FALSE
    <3>1. PICK k \in End - 2..End : Rest(script["rx"], k)
      BY <2>1 DEF Closing
    <3>2. Head(script["rx"]) = MotionCommand[k] /\ k \in 1..End
      BY <1>1, <3>1, RestFacts
    <3>3. Len(script["rx"]) = End + 1 - k
      BY <3>1 DEF Rest
    <3>4. CASE script["rx"] = SwitchOff
      <4>1. k = End - 1
        <5>1. Len(script["rx"]) = 2
          BY <3>4, SwitchOffFacts
        <5>2. End + 1 - k = 2
          BY <3>3, <5>1
        <5>3. k \in Int /\ End \in Int
          BY <3>2, EndFacts
        <5> QED BY <5>2, <5>3
      <4> QED BY <3>2, <3>4, <4>1, SwitchOffFacts, CommandShape
    <3>5. CASE script["rx"] = Tail(SwitchOff)
      <4>1. k = End
        BY <3>2, <3>3, <3>5, SwitchOffFacts, EndFacts
      <4> QED BY <3>2, <3>5, <4>1, SwitchOffFacts, CommandShape
    <3> QED BY <1>3, <3>4, <3>5
  <2>2. CASE script["rx"] = SwitchOff
    BY <1>1, <1>3, <2>1, <2>2, SwitchOffFacts DEF Arg
  <2>3. CASE script["rx"] = Tail(SwitchOff)
    BY <1>1, <1>3, <2>1, <2>3, SwitchOffFacts
  <2> QED BY <1>3, <2>2, <2>3
<1> QED BY <1>2, <1>3 DEF MotionInv, CommandLeft

(* While the detection runs, the console has no command or sleeps in a     *)
(* calibration.                                                            *)
LEMMA DetectionRuns ==
  ASSUME MotionInv, NEW from, NEW to, Step("mpuirq", from, to)
  PROVE  /\ pc["mpuirq"] = from /\ pc' = [pc EXCEPT !["mpuirq"] = to] /\ ~flg["mpuirq"].wai
         /\ \E k \in 1..End + 1 :
              /\ Rest(script["rx"], k) /\ k \notin End - 4..End
              /\ motion.enabled => k = End + 1
              /\ pc["rx"] = "dly" => k \in 1..End /\ MotionCommand[k].op = "dly"
         /\ ~Closing /\ ~Doing("rx", {"mode", "flag"})
         /\ motion.enabled => script["rx"] = <<>>
<1>1. pc["mpuirq"] = from /\ pc' = [pc EXCEPT !["mpuirq"] = to] /\ ~flg["mpuirq"].wai
  BY DEF Step, Runs, Ready
<1>2. "rx" \notin Ready
  <2>1. ASSUME "rx" \in Ready PROVE FALSE
    <3>1. Priority["mpuirq"] <= Priority["rx"]
      BY <2>1 DEF Step, Runs
    <3>2. Priority["mpuirq"] \in Nat /\ Priority["rx"] \in Nat
          /\ Priority["rx"] < Priority["mpuirq"]
      BY MotionAssumption DEF Task
    <3> QED BY <3>1, <3>2
  <2> QED BY <2>1
<1>3. script["rx"] = <<>> \/ pc["rx"] = "dly"
  BY <1>2 DEF Ready, Task, MotionInv, MotionTypes
<1>4. PICK k \in 1..End + 1 :
        /\ Rest(script["rx"], k)
        /\ motion.enabled => k = 1 \/ k >= End - 2
        /\ pc["rx"] = "dly" => k \in 1..End /\ MotionCommand[k].op = "dly"
  BY <1>3, SwitchOffFacts DEF MotionInv, CommandLeft
<1>5. k = End + 1 \/ k \in 6..End - 5
  <2>1. CASE script["rx"] = <<>>
    BY <1>4, <2>1, RestFacts
  <2>2. CASE pc["rx"] = "dly"
    <3>1. k \in 6..End - 4 /\ k # End - 4
      BY <1>4, <2>2, CommandShape
    <3> QED BY <3>1, EndFacts
  <2> QED BY <1>3, <2>1, <2>2
<1>6. k \notin End - 4..End /\ k # 1 /\ (k >= End - 2 => k = End + 1)
  BY <1>5, EndFacts
<1>7. ~Closing
  BY <1>4, <1>6, RestUnique, EndFacts DEF Closing
<1>8. ~Doing("rx", {"mode", "flag"})
  <2>1. ASSUME script["rx"] # <<>> PROVE Head(script["rx"]).op \notin {"mode", "flag"}
    <3>1. pc["rx"] = "dly" /\ k \in 1..End /\ MotionCommand[k].op = "dly"
      BY <1>3, <1>4, <2>1
    <3> QED BY <1>4, <2>1, <3>1, RestFacts
  <2> QED BY <2>1 DEF Doing
<1>9. motion.enabled => script["rx"] = <<>>
  BY <1>4, <1>6, RestFacts
<1> QED BY <1>1, <1>4, <1>6, <1>7, <1>8, <1>9

LEMMA NothingLeft == Rest(<<>>, End + 1)
BY EndFacts DEF Rest

(* Any step of a command but the delays leads to the next. *)
LEMMA ConsoleSteps ==
  ASSUME MotionInv, NEW op, Does("rx", op), op # "dly",
         motion'.enabled => motion.enabled \/ op = "start",
         op = "stop" => ~motion'.enabled,
         motion'.detected => motion.detected, op = "start" => ~motion'.detected
  PROVE  /\ pc["rx"] = "call" /\ pc' = pc /\ script["rx"] # <<>> /\ Head(script["rx"]).op = op
         /\ script' = [script EXCEPT !["rx"] = Tail(@)]
         /\ script'["mpuirq"] = script["mpuirq"] /\ script'["led"] = <<>>
         /\ CommandLeft'
         /\ Closing /\ op # "notify" => Closing'
         /\ op = "start" => Closing' /\ script["mpuirq"] = <<>> /\ Doing("rx", {"mode"})'
         /\ op = "notify" => Arg("rx") = "STOPPED"
<1>1. /\ pc["rx"] = "call" /\ pc' = pc /\ script["rx"] # <<>> /\ Head(script["rx"]).op = op
      /\ script' = [script EXCEPT !["rx"] = Tail(@)]
  BY ConsoleRuns
<1>2. script'["mpuirq"] = script["mpuirq"] /\ script'["led"] = <<>>
  BY <1>1 DEF MotionInv, MotionTypes
<1>3. CASE \E k \in 1..End :
             /\ Rest(script["rx"], k) /\ Head(script["rx"]) = MotionCommand[k]
             /\ Rest(script'["rx"], k + 1) /\ (Closing => k \in End - 2..End)
             /\ motion.enabled => k = 1 \/ k >= End - 2
             /\ k \in End - 4..End => script["mpuirq"] = <<>>
             /\ k \in End - 2..End => ~motion.detected
  <2>1. PICK k \in 1..End :
             /\ Rest(script["rx"], k) /\ Head(script["rx"]) = MotionCommand[k]
             /\ Rest(script'["rx"], k + 1) /\ (Closing => k \in End - 2..End)
             /\ motion.enabled => k = 1 \/ k >= End - 2
             /\ k \in End - 4..End => script["mpuirq"] = <<>>
             /\ k \in End - 2..End => ~motion.detected
    BY <1>3
  <2>2. /\ MotionCommand[k].op = op /\ k # End - 5
        /\ op = "stop" <=> k = 1
        /\ op = "start" <=> k = End - 3
        /\ op = "notify" <=> k = End
        /\ op = "mode" <=> k \in {2, 4, End - 2}
    BY <1>1, <2>1, CommandShape
  <2>3. CommandLeft'
    <3>1. k + 1 \in 1..End + 1 /\ pc'["rx"] # "dly"
      BY <1>1, <2>1, EndFacts
    <3>2. motion'.enabled => k + 1 >= End - 2
      BY <2>1, <2>2, EndFacts
    <3>3. k + 1 \in End - 4..End => script'["mpuirq"] = <<>>
      BY <1>2, <2>1, <2>2, EndFacts
    <3>4. k + 1 \in End - 2..End => ~motion'.detected
      BY <2>1, <2>2, EndFacts
    <3> QED BY <2>1, <3>1, <3>2, <3>3, <3>4 DEF CommandLeft
  <2>4. Closing /\ op # "notify" => Closing'
    <3>1. Closing /\ op # "notify" => k + 1 \in End - 2..End
      BY <2>1, <2>2, EndFacts
    <3> QED BY <2>1, <3>1 DEF Closing
  <2>5. ASSUME op = "start"
        PROVE  Closing' /\ script["mpuirq"] = <<>> /\ Doing("rx", {"mode"})'
    <3>1. /\ k + 1 \in End - 2..End /\ k \in End - 4..End
          /\ k + 1 \in 1..End /\ k + 1 \in {2, 4, End - 2} /\ k + 1 # End + 1
      BY <2>2, <2>5, EndFacts
    <3>2. script'["rx"] # <<>> /\ Head(script'["rx"]) = MotionCommand[k + 1]
      BY <2>1, <3>1, RestFacts
    <3>3. MotionCommand[k + 1].op = "mode"
      BY <3>1, CommandShape
    <3> QED BY <2>1, <3>1, <3>2, <3>3 DEF Closing, Doing
  <2>6. op = "notify" => Arg("rx") = "STOPPED"
    BY <2>1, <2>2, CommandShape DEF Arg
  <2> QED BY <1>1, <1>2, <2>3, <2>4, <2>5, <2>6
<1>4. CASE /\ ~motion.enabled /\ ~Closing
           /\ \/ /\ op = "mode" /\ Arg("rx") = "OFF" /\ script'["rx"] = Tail(SwitchOff)
              \/ op = "flag" /\ script'["rx"] = <<>>
  <2>1. CASE op = "mode" /\ Arg("rx") = "OFF" /\ script'["rx"] = Tail(SwitchOff)
    <3>1. CommandLeft'
      BY <1>1, <1>4, <2>1 DEF CommandLeft
    <3> QED BY <1>1, <1>2, <1>4, <2>1, <3>1
  <2>2. CASE op = "flag" /\ script'["rx"] = <<>>
    <3>1. /\ End + 1 \in 1..End + 1 /\ Rest(script'["rx"], End + 1)
          /\ End + 1 \notin End - 4..End /\ End + 1 \notin End - 2..End
      BY <2>2, NothingLeft, EndFacts
    <3>2. CommandLeft'
      BY <1>1, <1>4, <2>2, <3>1 DEF CommandLeft
    <3> QED BY <1>1, <1>2, <1>4, <2>2, <3>2
  <2> QED BY <1>4, <2>1, <2>2
<1> QED BY <1>3, <1>4, ConsoleRuns

(* A mode that the console sets is going to be notified of; while a        *)
(* measurement is on, it is that of a detection that starts afresh.        *)
LEMMA ConsoleMode ==
  ASSUME MotionInv, Does("rx", "mode")
  PROVE  /\ Arg("rx") \in Modes /\ Doing("rx", {"flag"})'
         /\ motion.enabled => Arg("rx") = "STILL" /\ ~motion.detected
<1>1. \/ \E k \in 1..End :
           /\ Rest(script["rx"], k) /\ Head(script["rx"]) = MotionCommand[k]
           /\ Rest(script'["rx"], k + 1)
           /\ motion.enabled => k = 1 \/ k >= End - 2
           /\ k \in End - 2..End => ~motion.detected
      \/ ~motion.enabled /\ Arg("rx") = "OFF" /\ script'["rx"] = Tail(SwitchOff)
  BY ConsoleRuns
<1>2. Head(script["rx"]).op = "mode"
  BY ConsoleRuns
<1>3. ASSUME NEW k \in 1..End,
             Rest(script["rx"], k) /\ Head(script["rx"]) = MotionCommand[k],
             Rest(script'["rx"], k + 1),
             motion.enabled => k = 1 \/ k >= End - 2,
             k \in End - 2..End => ~motion.detected
      PROVE  /\ Arg("rx") \in Modes /\ Doing("rx", {"flag"})'
             /\ motion.enabled => Arg("rx") = "STILL" /\ ~motion.detected
  <2>1. k \in {2, 4, End - 2}
    BY <1>2, <1>3, CommandShape
  <2>2. k + 1 \in 1..End /\ k + 1 \in {3, 5, End - 1} /\ k + 1 # End + 1
    BY <2>1, EndFacts
  <2>3. Head(script'["rx"]) = MotionCommand[k + 1] /\ script'["rx"] # <<>>
    BY <1>3, <2>2, RestFacts
  <2>4. MotionCommand[k + 1].op = "flag"
    BY <2>2, CommandShape
  <2>5. MotionCommand[k].arg \in Modes /\ (k = End - 2 => MotionCommand[k].arg = "STILL")
    BY <2>1, CommandShape
  <2>6. motion.enabled => k = End - 2 /\ k \in End - 2..End
    BY <1>3, <2>1, EndFacts
  <2> QED BY <1>3, <2>3, <2>4, <2>5, <2>6 DEF Arg, Doing
<1>4. CASE ~motion.enabled /\ Arg("rx") = "OFF" /\ script'["rx"] = Tail(SwitchOff)
  BY <1>4, SwitchOffFacts DEF Doing, Modes
<1> QED BY <1>1, <1>3, <1>4

(***************************************************************************)
(* The steps of the tasks.                                                 *)
(***************************************************************************)
LEMMA DisplayStays ==
  ASSUME MotionInv, UNCHANGED <<mode, led>>, flg'["led"] = flg["led"], pc'["led"] = pc["led"],
         FlagDue => FlagDue'
  PROVE  Display'
BY DEF MotionInv, Display, Blinks

(* What the console does. *)
LEMMA ConsoleModePreserves ==
  ASSUME MotionInv, Does("rx", "mode"), mode' = Arg("rx"),
         UNCHANGED <<flg, motion, led, events>>
  PROVE  MotionInv'
<1>1. /\ pc' = pc /\ script' = [script EXCEPT !["rx"] = Tail(@)]
      /\ script'["mpuirq"] = script["mpuirq"] /\ script'["led"] = <<>>
      /\ CommandLeft' /\ (Closing => Closing')
      /\ Arg("rx") \in Modes /\ Doing("rx", {"flag"})'
      /\ motion.enabled => Arg("rx") = "STILL" /\ ~motion.detected
  <2>1. motion' = motion
    OBVIOUS
  <2> DEFINE op == "mode"
  <2>2. Does("rx", op) /\ op = "mode"
    OBVIOUS
  <2>3. motion'.enabled => motion.enabled
    BY <2>1
  <2>4. motion'.detected => motion.detected
    BY <2>1
  <2>5. op # "dly" /\ op # "stop" /\ op # "start" /\ op # "notify"
    OBVIOUS
  <2> HIDE DEF op
  <2>6. /\ pc' = pc /\ script' = [script EXCEPT !["rx"] = Tail(@)]
        /\ script'["mpuirq"] = script["mpuirq"] /\ script'["led"] = <<>>
        /\ CommandLeft' /\ (Closing => Closing')
    BY <2>2, <2>3, <2>4, <2>5, ConsoleSteps
  <2> QED BY <2>6, ConsoleMode
<1>2. MotionTypes'
  BY <1>1 DEF MotionInv, MotionTypes
<1>3. Detection'
  BY <1>1 DEF MotionInv, Detection
<1>4. Alternation'
  BY <1>1 DEF MotionInv, Alternation, MovesAndStopsAlternate
<1>5. Display'
  BY <1>1 DEF MotionInv, Display, FlagDue, Blinks
<1>6. Shows'
  BY <1>1 DEF MotionInv, Shows, Shown
<1> QED BY <1>1, <1>2, <1>3, <1>4, <1>5, <1>6 DEF MotionInv

LEMMA ConsoleFlagPreserves ==
  ASSUME MotionInv, Does("rx", "flag"), flg' = [flg EXCEPT !["led"] = tk_set_flg(@)],
         UNCHANGED <<mode, motion, led, events>>
  PROVE  MotionInv'
<1>1. /\ pc' = pc /\ script' = [script EXCEPT !["rx"] = Tail(@)]
      /\ script'["mpuirq"] = script["mpuirq"] /\ script'["led"] = <<>>
      /\ script["rx"] # <<>> /\ Head(script["rx"]).op = "flag"
      /\ CommandLeft' /\ (Closing => Closing')
  BY ConsoleSteps
<1>2. /\ flg' \in [{"mpuirq", "led"} -> [ptn : BOOLEAN, wai : BOOLEAN]]
      /\ flg'["mpuirq"] = flg["mpuirq"] /\ ~flg'["led"].wai
      /\ flg["led"].wai \/ flg'["led"].ptn
  BY DEF MotionInv, MotionTypes, tk_set_flg, ClearFlg
<1>3. MotionTypes'
  BY <1>1, <1>2 DEF MotionInv, MotionTypes
<1>4. Detection'
  BY <1>1, <1>2 DEF MotionInv, Detection
<1>5. Alternation'
  BY <1>1 DEF MotionInv, Alternation, MovesAndStopsAlternate
<1>6. Display'
  BY <1>1, <1>2 DEF MotionInv, Display, Blinks
<1>7. Shows'
  BY <1>1 DEF MotionInv, Shows, Doing
<1> QED BY <1>1, <1>3, <1>4, <1>5, <1>6, <1>7 DEF MotionInv

LEMMA ConsoleNotifyPreserves ==
  ASSUME MotionInv, Does("rx", "notify"),
         events' = <<events[2], Arg("rx")>>,
         UNCHANGED <<flg, motion, mode, led>>
  PROVE  MotionInv'
<1>1. /\ pc' = pc /\ script' = [script EXCEPT !["rx"] = Tail(@)]
      /\ script'["mpuirq"] = script["mpuirq"] /\ script'["led"] = <<>>
      /\ script["rx"] # <<>> /\ Head(script["rx"]).op = "notify"
      /\ CommandLeft' /\ Arg("rx") = "STOPPED"
  BY ConsoleSteps
<1>2. MotionTypes'
  BY <1>1 DEF MotionInv, MotionTypes
<1>3. Detection'
  BY <1>1 DEF MotionInv, Detection
<1>4. Alternation'
  BY <1>1 DEF Alternation, MovesAndStopsAlternate
<1>5. Display'
  <2>1. FlagDue => FlagDue'
    BY <1>1 DEF FlagDue, Doing
  <2> QED BY <1>1, <2>1, DisplayStays
<1>6. Shows'
  BY <1>1 DEF MotionInv, Shows, Doing
<1> QED BY <1>1, <1>2, <1>3, <1>4, <1>5, <1>6 DEF MotionInv

LEMMA StopPreserves ==
  ASSUME MotionInv, task_mpuirq_motion_stop, UNCHANGED <<flg, ledVars, events>>
  PROVE  MotionInv'
<1>1. motion' \in [enabled : BOOLEAN, detected : BOOLEAN, active : Nat, still : Nat]
      /\ ~motion'.enabled /\ motion'.detected = motion.detected
  BY DEF task_mpuirq_motion_stop, MotionInv, MotionTypes
<1>2. /\ pc' = pc /\ script' = [script EXCEPT !["rx"] = Tail(@)]
      /\ script'["mpuirq"] = script["mpuirq"] /\ script'["led"] = <<>>
      /\ script["rx"] # <<>> /\ Head(script["rx"]).op = "stop"
      /\ CommandLeft' /\ (Closing => Closing')
  BY <1>1, ConsoleSteps DEF task_mpuirq_motion_stop
<1>3. MotionTypes'
  BY <1>1, <1>2 DEF MotionInv, MotionTypes, ledVars
<1>4. Detection'
  BY <1>1, <1>2 DEF MotionInv, Detection
<1>5. Alternation'
  BY <1>1, <1>2 DEF MotionInv, Alternation, MovesAndStopsAlternate
<1>6. Display'
  <2>1. FlagDue => FlagDue'
    BY <1>2 DEF FlagDue, Doing
  <2> QED BY <1>2, <2>1, DisplayStays DEF ledVars
<1> QED BY <1>1, <1>2, <1>3, <1>4, <1>5, <1>6 DEF MotionInv, Shows

LEMMA StartPreserves ==
  ASSUME MotionInv, task_mpuirq_motion_start, UNCHANGED <<flg, ledVars, events>>
  PROVE  MotionInv'
<1>1. motion' \in [enabled : BOOLEAN, detected : BOOLEAN, active : Nat, still : Nat]
      /\ ~motion'.detected
  BY DEF task_mpuirq_motion_start
<1>2. /\ pc' = pc /\ script' = [script EXCEPT !["rx"] = Tail(@)]
      /\ script'["mpuirq"] = script["mpuirq"] /\ script'["led"] = <<>>
      /\ script["rx"] # <<>> /\ Head(script["rx"]).op = "start"
      /\ CommandLeft' /\ Closing' /\ script["mpuirq"] = <<>> /\ Doing("rx", {"mode"})'
  BY <1>1, ConsoleSteps DEF task_mpuirq_motion_start
<1>3. MotionTypes'
  BY <1>1, <1>2 DEF MotionInv, MotionTypes, ledVars
<1>4. Detection'
  BY <1>2 DEF MotionInv, Detection
<1>5. Alternation'
  BY <1>2 DEF MotionInv, Alternation, MovesAndStopsAlternate
<1>6. Display'
  <2>1. FlagDue => FlagDue'
    BY <1>2 DEF FlagDue, Doing
  <2> QED BY <1>2, <2>1, DisplayStays DEF ledVars
<1>7. Shows'
  BY <1>2 DEF Shows
<1> QED BY <1>2, <1>3, <1>4, <1>5, <1>6, <1>7 DEF MotionInv

LEMMA ReadingPreserves ==
  ASSUME MotionInv, Does("rx", "reading"), UNCHANGED <<motion, flg, ledVars, events>>
  PROVE  MotionInv'
<1>1. /\ pc' = pc /\ script' = [script EXCEPT !["rx"] = Tail(@)]
      /\ script'["mpuirq"] = script["mpuirq"] /\ script'["led"] = <<>>
      /\ script["rx"] # <<>> /\ Head(script["rx"]).op = "reading"
      /\ CommandLeft' /\ (Closing => Closing')
  BY ConsoleSteps
<1>2. MotionTypes'
  BY <1>1 DEF MotionInv, MotionTypes, ledVars
<1>3. Detection'
  BY <1>1 DEF MotionInv, Detection
<1>4. Alternation'
  BY <1>1 DEF MotionInv, Alternation, MovesAndStopsAlternate
<1>5. Display'
  <2>1. FlagDue => FlagDue'
    BY <1>1 DEF FlagDue, Doing
  <2> QED BY <1>1, <2>1, DisplayStays DEF ledVars
<1>6. Shows'
  BY <1>1 DEF MotionInv, Shows, Doing, ledVars
<1> QED BY <1>1, <1>2, <1>3, <1>4, <1>5, <1>6 DEF MotionInv

(* A command that has begun to calibrate has switched the detection off.   *)
LEMMA Calibrating ==
  ASSUME MotionInv, script["rx"] # <<>>, Head(script["rx"]).op \in {"reading", "dly"}
  PROVE  /\ \E k \in 6..End - 4 :
              /\ Rest(script["rx"], k) /\ MotionCommand[k] = Head(script["rx"])
              /\ k = End - 4 => script["mpuirq"] = <<>>
         /\ ~motion.enabled /\ ~Closing
<1>1. script["rx"] \notin {SwitchOff, Tail(SwitchOff)}
  BY SwitchOffFacts
<1>2. PICK k \in 1..End + 1 :
        /\ Rest(script["rx"], k)
        /\ motion.enabled => k = 1 \/ k >= End - 2
        /\ k \in End - 4..End => script["mpuirq"] = <<>>
  BY <1>1 DEF MotionInv, CommandLeft
<1>3. k \in 1..End /\ Head(script["rx"]) = MotionCommand[k]
  BY <1>2, RestFacts
<1>4. k \in 6..End - 4
  BY <1>3, CommandShape
<1>5. /\ k # 1 /\ ~(k >= End - 2) /\ k \notin End - 2..End
      /\ k = End - 4 => k \in End - 4..End
  BY <1>4, EndFacts
<1>6. ~Closing
  BY <1>2, <1>5, RestUnique DEF Closing
<1> QED BY <1>2, <1>3, <1>4, <1>5, <1>6

LEMMA CalibrationFails ==
  ASSUME MotionInv, Doing("rx", {"reading"}), Step("rx", "call", "call"),
         script' = [script EXCEPT !["rx"] = motion_led_set_mode("OFF")],
         UNCHANGED <<motion, flg, ledVars, events>>
  PROVE  MotionInv'
<1>1. script["rx"] # <<>> /\ Head(script["rx"]).op = "reading"
  BY DEF Doing
<1>2. ~motion.enabled /\ ~Closing
  BY <1>1, Calibrating
<1>3. /\ pc' = pc /\ pc["rx"] = "call"
      /\ script' = [script EXCEPT !["rx"] = SwitchOff] /\ script'["rx"] = SwitchOff
      /\ script'["mpuirq"] = script["mpuirq"] /\ script'["led"] = <<>>
  BY DEF Step, SwitchOff, MotionInv, MotionTypes, Task
<1>4. MotionTypes'
  BY <1>3 DEF MotionInv, MotionTypes, ledVars
<1>5. Detection'
  BY <1>3 DEF MotionInv, Detection
<1>6. CommandLeft'
  BY <1>2, <1>3 DEF CommandLeft
<1>7. Alternation'
  BY <1>2, <1>3 DEF MotionInv, Alternation, MovesAndStopsAlternate
<1>8. Display'
  <2>1. FlagDue => FlagDue'
    BY <1>1, <1>3 DEF FlagDue, Doing
  <2> QED BY <1>3, <2>1, DisplayStays DEF ledVars
<1>9. Shows'
  BY <1>2 DEF Shows
<1> QED BY <1>4, <1>5, <1>6, <1>7, <1>8, <1>9 DEF MotionInv

(* Only the console delays. *)
LEMMA OnlyConsoleDelays ==
  ASSUME MotionInv, NEW t \in Task
  PROVE  /\ Doing(t, {"dly"}) => t = "rx"
         /\ pc[t] = "dly" => t = "rx"
<1>1. ~Doing("mpuirq", {"dly"})
  BY ReportFacts DEF MotionInv, MotionTypes, Detection, Doing
<1> QED BY <1>1 DEF MotionInv, MotionTypes, Doing, Task

LEMMA StartDelayPreserves ==
  ASSUME MotionInv, NEW t \in Task, StartDelay(t)
  PROVE  MotionInv'
<1>1. t = "rx"
  BY OnlyConsoleDelays DEF StartDelay
<1>2. /\ pc' = [pc EXCEPT !["rx"] = "dly"] /\ pc'["rx"] = "dly"
      /\ pc'["mpuirq"] = pc["mpuirq"] /\ pc'["led"] = pc["led"]
      /\ UNCHANGED <<script, flg, motion, mode, led, events>>
      /\ script["rx"] # <<>> /\ Head(script["rx"]).op = "dly"
  BY <1>1 DEF StartDelay, Step, Doing, MotionInv, MotionTypes, ledVars, Task
<1>3. PICK k \in 6..End - 4 :
        /\ Rest(script["rx"], k) /\ MotionCommand[k] = Head(script["rx"])
        /\ k = End - 4 => script["mpuirq"] = <<>>
  BY <1>2, Calibrating
<1>4. ~motion.enabled
  BY <1>2, Calibrating
<1>5. /\ k \in 1..End + 1 /\ k \in 1..End /\ k \notin End - 2..End
      /\ k \in End - 4..End => k = End - 4
  BY <1>3, EndFacts
<1>6. CommandLeft'
  BY <1>2, <1>3, <1>4, <1>5 DEF CommandLeft
<1>7. Closing => Closing'
  BY <1>2 DEF Closing
<1>8. Display'
  <2>1. FlagDue => FlagDue'
    BY <1>2 DEF FlagDue, Doing
  <2> QED BY <1>2, <2>1, DisplayStays
<1>9. MotionTypes' /\ Detection'
  BY <1>2 DEF MotionInv, MotionTypes, Detection
<1>10. Alternation'
  BY <1>2, <1>7 DEF MotionInv, Alternation, MovesAndStopsAlternate
<1>11. Shows'
  BY <1>2, <1>4 DEF Shows
<1> QED BY <1>6, <1>8, <1>9, <1>10, <1>11 DEF MotionInv

(* When a delay ends, the detection waits for the sensor.                  *)
LEMMA TimeUpPreserves ==
  ASSUME MotionInv, NEW t \in Task, TimeUp(t)
  PROVE  MotionInv'
<1>1. t = "rx"
  BY OnlyConsoleDelays DEF TimeUp
<1>2. /\ pc["rx"] = "dly" /\ pc' = [pc EXCEPT !["rx"] = "call"] /\ pc'["rx"] = "call"
      /\ pc'["mpuirq"] = pc["mpuirq"] /\ pc'["led"] = pc["led"]
      /\ script' = [script EXCEPT !["rx"] = Tail(@)] /\ script'["rx"] = Tail(script["rx"])
      /\ script'["mpuirq"] = script["mpuirq"] /\ script'["led"] = <<>>
      /\ UNCHANGED <<flg, motion, mode, led, events>>
  BY <1>1 DEF TimeUp, MotionInv, MotionTypes, ledVars, Task
<1>3. script["mpuirq"] = <<>>
  <2>1. "mpuirq" \notin Ready /\ "mpuirq" \in Task /\ pc["mpuirq"] # "dly"
    BY DEF TimeUp, MotionInv, MotionTypes, Task
  <2>2. flg["mpuirq"].wai
    BY <2>1 DEF Ready
  <2> QED BY <2>2 DEF MotionInv, Detection
<1>4. PICK k \in 1..End + 1 :
        /\ Rest(script["rx"], k)
        /\ motion.enabled => k = 1 \/ k >= End - 2
        /\ k \in 1..End /\ MotionCommand[k].op = "dly"
  BY <1>2 DEF MotionInv, CommandLeft
<1>5. k \in 6..End - 4 /\ k # End - 4
  BY <1>4, CommandShape
<1>6. /\ script["rx"] # <<>> /\ Head(script["rx"]) = MotionCommand[k]
      /\ Rest(script'["rx"], k + 1)
  <2>1. k # End + 1
    BY <1>4, EndFacts
  <2> QED BY <1>2, <1>4, <2>1, RestFacts
<1>7. ~motion.enabled /\ k + 1 \in 1..End + 1 /\ k + 1 \notin End - 2..End
  BY <1>4, <1>5, EndFacts
<1>8. CommandLeft'
  BY <1>2, <1>3, <1>6, <1>7 DEF CommandLeft
<1>9. ~Closing
  BY <1>4, <1>6, Calibrating
<1>10. MotionTypes' /\ Detection'
  BY <1>2 DEF MotionInv, MotionTypes, Detection
<1>11. Alternation'
  BY <1>2, <1>9 DEF MotionInv, Alternation, MovesAndStopsAlternate
<1>12. Display'
  <2>1. FlagDue => FlagDue'
    BY <1>2, <1>4, <1>6 DEF FlagDue, Doing
  <2> QED BY <1>2, <2>1, DisplayStays
<1>13. Shows'
  BY <1>2, <1>7 DEF Shows
<1> QED BY <1>8, <1>10, <1>11, <1>12, <1>13 DEF MotionInv

LEMMA CommandPreserves ==
  ASSUME MotionInv, cmd_motion
  PROVE  MotionInv'
<1>1. /\ script["rx"] = <<>> /\ UNCHANGED <<pc, flg, motion, mode, led, events>>
      /\ script' = [script EXCEPT !["rx"] = MotionCommand] /\ script'["rx"] = MotionCommand
      /\ script'["mpuirq"] = script["mpuirq"] /\ script'["led"] = <<>>
  <2>1. /\ script["rx"] = <<>> /\ UNCHANGED <<pc, flg, motion, mode, led, events>>
        /\ script' = [script EXCEPT !["rx"] = MotionCommand]
    BY Zenon DEF cmd_motion, MotionCommand, ledVars
  <2> QED BY <2>1 DEF MotionInv, MotionTypes, Task
<1>2. /\ pc["rx"] # "dly" /\ ~Closing
  <2>1. PICK k \in 1..End + 1 :
          /\ Rest(script["rx"], k)
          /\ pc["rx"] = "dly" => k \in 1..End /\ MotionCommand[k].op = "dly"
    BY <1>1, SwitchOffFacts DEF MotionInv, CommandLeft
  <2>2. k = End + 1
    BY <1>1, <2>1, RestFacts
  <2>3. k \notin 1..End /\ k \notin End - 2..End
    BY <2>2, EndFacts
  <2> QED BY <2>1, <2>3, RestUnique DEF Closing
<1>3. CommandLeft'
  <2>1. 1 \in 1..End + 1 /\ 1 \notin End - 4..End /\ 1 \notin End - 2..End
    BY EndFacts
  <2>2. Rest(script'["rx"], 1) /\ pc'["rx"] # "dly"
    BY <1>1, <1>2, CommandRest
  <2> QED BY <2>1, <2>2 DEF CommandLeft
<1>4. MotionTypes' /\ Detection'
  BY <1>1 DEF MotionInv, MotionTypes, Detection
<1>5. Alternation'
  BY <1>1, <1>2 DEF MotionInv, Alternation, MovesAndStopsAlternate
<1>6. Display'
  <2>1. FlagDue => FlagDue'
    BY <1>1 DEF FlagDue, Doing
  <2> QED BY <1>1, <2>1, DisplayStays
<1>7. Shows'
  BY <1>1 DEF MotionInv, Shows, Doing
<1> QED BY <1>3, <1>4, <1>5, <1>6, <1>7 DEF MotionInv

(* What the detection does.                                                *)

(* A report is done step by step: it sets the mode, then notifies of it,   *)
(* then tells the log.                                                     *)
LEMMA DetectionSteps ==
  ASSUME MotionInv, NEW op, Does("mpuirq", op)
  PROVE  /\ pc["mpuirq"] = "call" /\ pc' = pc /\ ~flg["mpuirq"].wai
         /\ script' = [script EXCEPT !["mpuirq"] = Tail(@)]
         /\ script'["rx"] = script["rx"] /\ script'["led"] = <<>>
         /\ script["mpuirq"] # <<>> /\ Head(script["mpuirq"]).op = op
         /\ op = "mode" => /\ script["mpuirq"] = Report(motion.detected)
                           /\ script'["mpuirq"] = FlagAndTell(motion.detected)
         /\ op = "flag" => /\ script["mpuirq"] = FlagAndTell(motion.detected)
                           /\ script'["mpuirq"] = Tell(motion.detected)
         /\ op = "notify" => /\ script["mpuirq"] = Tell(motion.detected)
                             /\ script'["mpuirq"] = <<>>
<1>1. /\ Step("mpuirq", "call", "call") /\ script["mpuirq"] # <<>> /\ Head(script["mpuirq"]).op = op
      /\ script' = [script EXCEPT !["mpuirq"] = Tail(@)]
  BY DEF Does, Doing
<1>2. /\ pc["mpuirq"] = "call" /\ ~flg["mpuirq"].wai /\ pc' = pc
      /\ script'["mpuirq"] = Tail(script["mpuirq"])
      /\ script'["rx"] = script["rx"] /\ script'["led"] = <<>>
  BY <1>1, DetectionRuns DEF MotionInv, MotionTypes, Task
<1>3. motion.detected \in BOOLEAN
  BY DEF MotionInv, MotionTypes
<1>4. script["mpuirq"] \in {Report(motion.detected), FlagAndTell(motion.detected),
                             Tell(motion.detected)}
  BY <1>1 DEF MotionInv, Detection
<1>5. CASE script["mpuirq"] = Report(motion.detected)
  <2>1. op = "mode"
    BY <1>1, <1>3, <1>5, ReportFacts
  <2> QED BY <1>1, <1>2, <1>5, <2>1 DEF FlagAndTell
<1>6. CASE script["mpuirq"] = FlagAndTell(motion.detected)
  <2>1. op = "flag"
    BY <1>1, <1>3, <1>6, ReportFacts
  <2> QED BY <1>1, <1>2, <1>6, <2>1 DEF Tell
<1>7. CASE script["mpuirq"] = Tell(motion.detected)
  <2>1. op = "notify" /\ Tail(Tell(motion.detected)) = <<>>
    BY <1>1, <1>3, <1>7, ReportFacts
  <2> QED BY <1>1, <1>2, <1>7, <2>1
<1> QED BY <1>4, <1>5, <1>6, <1>7

(* While the detection runs, nothing it does ends the command.             *)
LEMMA CommandWaits ==
  ASSUME MotionInv, NEW from, NEW to, Step("mpuirq", from, to), from # "dly",
         script'["rx"] = script["rx"], motion'.enabled = motion.enabled
  PROVE  CommandLeft' /\ ~Closing /\ ~Closing'
<1>1. PICK k \in 1..End + 1 :
        /\ Rest(script["rx"], k) /\ k \notin End - 4..End
        /\ motion.enabled => k = End + 1
        /\ pc["rx"] = "dly" => k \in 1..End /\ MotionCommand[k].op = "dly"
  BY DetectionRuns
<1>2. pc'["rx"] = pc["rx"]
  <2>1. pc' = [pc EXCEPT !["mpuirq"] = to]
    BY DEF Step
  <2> QED BY <2>1
<1>3. k \notin End - 2..End /\ End + 1 >= End - 2
  BY <1>1, EndFacts
<1>4. CommandLeft'
  BY <1>1, <1>2, <1>3 DEF CommandLeft
<1>5. ~Closing /\ ~Closing'
  BY <1>1, <1>3, RestUnique DEF Closing
<1> QED BY <1>4, <1>5

LEMMA DetectionModePreserves ==
  ASSUME MotionInv, Does("mpuirq", "mode"), mode' = Arg("mpuirq"),
         UNCHANGED <<flg, motion, led, events>>
  PROVE  MotionInv'
<1> DEFINE d == motion.detected
<1>1. /\ pc' = pc /\ pc["mpuirq"] = "call" /\ ~flg["mpuirq"].wai
      /\ script' = [script EXCEPT !["mpuirq"] = Tail(@)]
      /\ script'["rx"] = script["rx"] /\ script'["led"] = <<>>
      /\ script["mpuirq"] = Report(d) /\ script'["mpuirq"] = FlagAndTell(d)
  BY DetectionSteps
<1>2. d \in BOOLEAN /\ d' = d
  BY DEF MotionInv, MotionTypes
<1>3. mode' = Shown(d) /\ Doing("mpuirq", {"flag"})' /\ ~Doing("mpuirq", {"mode"})'
  <2>1. /\ Head(Report(d)) = [op |-> "mode", arg |-> Shown(d)]
        /\ FlagAndTell(d) # <<>> /\ Head(FlagAndTell(d)) = [op |-> "flag", arg |-> Shown(d)]
    BY <1>2, ReportFacts
  <2>2. Arg("mpuirq") = Shown(d)
    BY <1>1, <2>1 DEF Arg
  <2>3. script'["mpuirq"] # <<>> /\ Head(script'["mpuirq"]).op = "flag"
    <3> DEFINE r == FlagAndTell(d)
    <3>1. script'["mpuirq"] = r /\ r # <<>> /\ Head(r) = [op |-> "flag", arg |-> Shown(d)]
      BY <1>1, <2>1
    <3> HIDE DEF r
    <3> QED BY <3>1
  <2> QED BY <2>2, <2>3 DEF Doing
<1>4. CommandLeft' /\ ~Closing
  BY CommandWaits DEF Does
<1>5. MotionTypes'
  BY <1>1, <1>2, <1>3 DEF MotionInv, MotionTypes, Shown, Modes
<1>6. Detection'
  BY <1>1, <1>2 DEF MotionInv, Detection
<1>7. Alternation'
  BY <1>1, <1>2, <1>4, ReportFacts DEF MotionInv, Alternation, MovesAndStopsAlternate
<1>8. Display'
  BY <1>1, <1>3 DEF MotionInv, Display, FlagDue, Blinks
<1>9. Shows'
  BY <1>3 DEF Shows
<1> QED BY <1>4, <1>5, <1>6, <1>7, <1>8, <1>9 DEF MotionInv

LEMMA DetectionFlagPreserves ==
  ASSUME MotionInv, Does("mpuirq", "flag"), flg' = [flg EXCEPT !["led"] = tk_set_flg(@)],
         UNCHANGED <<mode, motion, led, events>>
  PROVE  MotionInv'
<1> DEFINE d == motion.detected
<1>1. /\ pc' = pc /\ pc["mpuirq"] = "call" /\ ~flg["mpuirq"].wai
      /\ script' = [script EXCEPT !["mpuirq"] = Tail(@)]
      /\ script'["rx"] = script["rx"] /\ script'["led"] = <<>>
      /\ script["mpuirq"] = FlagAndTell(d) /\ script'["mpuirq"] = Tell(d)
  BY DetectionSteps
<1>2. d \in BOOLEAN /\ d' = d
  BY DEF MotionInv, MotionTypes
<1>3. /\ flg' \in [{"mpuirq", "led"} -> [ptn : BOOLEAN, wai : BOOLEAN]]
      /\ flg'["mpuirq"] = flg["mpuirq"] /\ ~flg'["led"].wai
      /\ flg["led"].wai \/ flg'["led"].ptn
  BY DEF MotionInv, MotionTypes, tk_set_flg, ClearFlg
<1>4. CommandLeft' /\ ~Closing
  BY CommandWaits DEF Does
<1>5. MotionTypes'
  BY <1>1, <1>3 DEF MotionInv, MotionTypes
<1>6. Detection'
  BY <1>1, <1>2, <1>3 DEF MotionInv, Detection
<1>7. Alternation'
  BY <1>1, <1>2, <1>4, ReportFacts DEF MotionInv, Alternation, MovesAndStopsAlternate
<1>8. Display'
  BY <1>1, <1>3 DEF MotionInv, Display, Blinks
<1>9. Shows'
  <2>1. ~Doing("mpuirq", {"mode"})
    BY <1>1, <1>2, ReportFacts DEF Doing
  <2> QED BY <1>1, <1>2, <2>1 DEF MotionInv, Shows, Doing
<1> QED BY <1>4, <1>5, <1>6, <1>7, <1>8, <1>9 DEF MotionInv

LEMMA DetectionNotifyPreserves ==
  ASSUME MotionInv, Does("mpuirq", "notify"), events' = <<events[2], Arg("mpuirq")>>,
         UNCHANGED <<flg, motion, mode, led>>
  PROVE  MotionInv'
<1> DEFINE d == motion.detected
<1>1. /\ pc' = pc /\ pc["mpuirq"] = "call" /\ ~flg["mpuirq"].wai
      /\ script' = [script EXCEPT !["mpuirq"] = Tail(@)]
      /\ script'["rx"] = script["rx"] /\ script'["led"] = <<>>
      /\ script["mpuirq"] # <<>>
      /\ script["mpuirq"] = Tell(d) /\ script'["mpuirq"] = <<>>
  BY DetectionSteps
<1>2. d \in BOOLEAN /\ d' = d
  BY DEF MotionInv, MotionTypes
<1>3. Arg("mpuirq") = Told(d)
  BY <1>1, <1>2, ReportFacts DEF Arg
<1>4. CommandLeft' /\ ~Closing /\ ~Closing'
  BY CommandWaits DEF Does
<1>5. MotionTypes'
  BY <1>1 DEF MotionInv, MotionTypes
<1>6. Detection'
  BY <1>1 DEF MotionInv, Detection
<1>7. Alternation'
  <2>1. events[2] = "MOVING" => ~d
    BY <1>1, <1>4 DEF MotionInv, Alternation
  <2>2. events' = <<events[2], Told(d)>>
    BY <1>3
  <2>3. MovesAndStopsAlternate'
    BY <1>2, <2>1, <2>2 DEF MovesAndStopsAlternate, Told
  <2>4. events'[2] = Told(d)
    BY <2>2
  <2> QED BY <1>1, <1>2, <2>3, <2>4 DEF Alternation, Told
<1>8. Display'
  <2>1. FlagDue => FlagDue'
    BY <1>1, <1>2, ReportFacts DEF FlagDue, Doing
  <2> QED BY <1>1, <2>1, DisplayStays
<1>9. Shows'
  <2>1. ~Doing("mpuirq", {"mode"})
    BY <1>1, <1>2, ReportFacts DEF Doing
  <2> QED BY <1>1, <2>1 DEF MotionInv, Shows, Doing
<1> QED BY <1>4, <1>5, <1>6, <1>7, <1>8, <1>9 DEF MotionInv

(* The steps of the detection that change neither what it found nor what   *)
(* it reports.                                                             *)
LEMMA DetectionGoesOn ==
  ASSUME MotionInv, NEW from \in {"call", "sample", "check", "update"},
         NEW to \in {"call", "sample", "check", "update"}, Step("mpuirq", from, to),
         script["mpuirq"] = <<>>, UNCHANGED <<script, motion, mode, led, events>>,
         flg' \in [{"mpuirq", "led"} -> [ptn : BOOLEAN, wai : BOOLEAN]],
         flg'["led"] = flg["led"]
  PROVE  MotionInv'
<1>1. /\ pc' = [pc EXCEPT !["mpuirq"] = to] /\ pc'["mpuirq"] = to
      /\ pc'["rx"] = pc["rx"] /\ pc'["led"] = pc["led"]
  BY DetectionRuns DEF MotionInv, MotionTypes, Task
<1>2. CommandLeft' /\ ~Closing
  BY CommandWaits
<1>3. MotionTypes'
  BY <1>1 DEF MotionInv, MotionTypes
<1>4. Detection'
  BY DEF Detection
<1>5. Alternation'
  BY <1>2 DEF MotionInv, Alternation, MovesAndStopsAlternate
<1>6. Display'
  <2>1. FlagDue => FlagDue'
    BY DEF FlagDue, Doing
  <2> QED BY <1>1, <2>1, DisplayStays
<1>7. Shows'
  BY DEF MotionInv, Shows, Doing
<1> QED BY <1>2, <1>3, <1>4, <1>5, <1>6, <1>7 DEF MotionInv

LEMMA UpdatePreserves ==
  ASSUME MotionInv, NEW active \in BOOLEAN, motion_update(active), UNCHANGED <<ledVars, events>>
  PROVE  MotionInv'
<1> DEFINE d == motion.detected
           e == motion'.detected
<1>1. Step("mpuirq", "update", "call")
  BY DEF motion_update
<1>2. /\ pc["mpuirq"] = "update" /\ script["mpuirq"] = <<>>
      /\ pc' = [pc EXCEPT !["mpuirq"] = "call"] /\ pc'["mpuirq"] = "call"
      /\ pc'["rx"] = pc["rx"] /\ pc'["led"] = pc["led"]
      /\ ~flg["mpuirq"].wai /\ ~Doing("rx", {"mode"})
  <2>1. /\ pc["mpuirq"] = "update" /\ ~flg["mpuirq"].wai
        /\ pc' = [pc EXCEPT !["mpuirq"] = "call"] /\ ~Doing("rx", {"mode", "flag"})
    BY <1>1, DetectionRuns
  <2>2. ~Doing("rx", {"mode"})
    BY <2>1 DEF Doing
  <2> QED BY <2>1, <2>2 DEF MotionInv, MotionTypes, Detection, Task
<1>3. motion' \in [enabled : BOOLEAN, detected : BOOLEAN, active : Nat, still : Nat]
      /\ motion'.enabled = motion.enabled
  <2> DEFINE a == IF active THEN Min({motion.active + 1, ActiveSamples}) ELSE 0
             s == IF active THEN 0 ELSE Min({motion.still + 1, StillSamples})
             moving == IF motion.detected THEN s < StillSamples ELSE a >= ActiveSamples
  <2>1. a \in Nat /\ s \in Nat
    <3>1. \A x, y \in Nat : Min({x, y}) \in Nat
      <4>1. ASSUME NEW x \in Nat, NEW y \in Nat PROVE Min({x, y}) \in Nat
        <5>1. \E m \in {x, y} : \A z \in {x, y} : m <= z
          OBVIOUS
        <5> QED BY <5>1 DEF Min
      <4> QED BY <4>1
    <3>2. motion.active + 1 \in Nat /\ motion.still + 1 \in Nat
          /\ ActiveSamples \in Nat /\ StillSamples \in Nat
      BY MotionAssumption DEF MotionInv, MotionTypes
    <3> QED BY <3>1, <3>2
  <2>2. moving \in BOOLEAN
    <3>1. StillSamples \in Nat /\ ActiveSamples \in Nat
      BY MotionAssumption
    <3> HIDE DEF a, s
    <3>2. (s < StillSamples) \in BOOLEAN /\ (a >= ActiveSamples) \in BOOLEAN
      BY <2>1, <3>1
    <3> QED BY <3>2, Zenon
  <2>3. motion' = [motion EXCEPT !.active = a, !.still = s, !.detected = moving]
    BY DEF motion_update
  <2> HIDE DEF a, s, moving
  <2> QED BY <2>1, <2>2, <2>3 DEF MotionInv, MotionTypes
<1>4. /\ script' = [script EXCEPT !["mpuirq"] = IF e = d THEN <<>> ELSE Report(e)]
      /\ UNCHANGED <<flg, mode, led, events>>
  <2> DEFINE a == IF active THEN Min({motion.active + 1, ActiveSamples}) ELSE 0
             s == IF active THEN 0 ELSE Min({motion.still + 1, StillSamples})
             moving == IF motion.detected THEN s < StillSamples ELSE a >= ActiveSamples
  <2>1. /\ motion' = [motion EXCEPT !.active = a, !.still = s, !.detected = moving]
        /\ script' = [script EXCEPT !["mpuirq"] =
             IF moving = motion.detected THEN <<>>
             ELSE motion_led_set_mode(IF moving THEN "MOVING" ELSE "STILL")
                    \o task_flashlog_notify(IF moving THEN "MOVING" ELSE "STOPPED")]
        /\ UNCHANGED <<flg, mode, led, events>>
    BY Zenon DEF motion_update, ledVars
  <2> HIDE DEF a, s, moving
  <2>2. e = moving
    BY <2>1 DEF MotionInv, MotionTypes
  <2>3. Report(moving) = motion_led_set_mode(IF moving THEN "MOVING" ELSE "STILL")
                           \o task_flashlog_notify(IF moving THEN "MOVING" ELSE "STOPPED")
    BY DEF Report, Shown, Told
  <2> HIDE DEF e
  <2> QED BY <2>1, <2>2, <2>3
<1>5. /\ script'["mpuirq"] = IF e = d THEN <<>> ELSE Report(e)
      /\ script'["rx"] = script["rx"] /\ script'["led"] = <<>>
      /\ script' = [t \in Task |-> script'[t]]
  BY <1>4 DEF MotionInv, MotionTypes, Task
<1>6. d \in BOOLEAN /\ e \in BOOLEAN
  BY <1>3 DEF MotionInv, MotionTypes
<1>7. CommandLeft' /\ ~Closing
  BY <1>1, <1>3, <1>5, CommandWaits
<1>8. MotionTypes'
  BY <1>2, <1>3, <1>4, <1>5 DEF MotionInv, MotionTypes
<1>9. Detection'
  BY <1>2, <1>4, <1>5 DEF Detection
<1>10. Alternation'
  <2>1. e # d => script'["mpuirq"] # <<>>
    BY <1>5, <1>6, ReportFacts
  <2>2. events[2] = "MOVING" => d
    BY <1>2, <1>7 DEF MotionInv, Alternation
  <2> QED BY <1>4, <1>5, <1>6, <2>1, <2>2 DEF MotionInv, Alternation, MovesAndStopsAlternate
<1>11. Display'
  <2>1. FlagDue => FlagDue'
    BY <1>2, <1>5 DEF FlagDue, Doing
  <2> QED BY <1>2, <1>4, <2>1, DisplayStays
<1>12. Shows'
  <2>1. CASE e = d
    BY <1>2, <1>3, <1>4, <1>5, <2>1 DEF MotionInv, Shows, Doing
  <2>2. CASE e # d
    <3>1. script'["mpuirq"] # <<>> /\ Head(script'["mpuirq"]).op = "mode"
      BY <1>5, <1>6, <2>2, ReportFacts
    <3> QED BY <3>1 DEF Shows, Doing
  <2> QED BY <2>1, <2>2
<1> QED BY <1>7, <1>8, <1>9, <1>10, <1>11, <1>12 DEF MotionInv

LEMMA task_mpuirqPreserves ==
  ASSUME MotionInv, task_mpuirq
  PROVE  MotionInv'
<1>1. UNCHANGED <<mode, led, events>>
  BY DEF task_mpuirq, ledVars
<1>2. CASE WaitForData
  <2>1. /\ Step("mpuirq", "call", "sample") /\ script["mpuirq"] = <<>>
        /\ UNCHANGED <<script, motion>>
    BY <1>2 DEF WaitForData
  <2>2. flg' \in [{"mpuirq", "led"} -> [ptn : BOOLEAN, wai : BOOLEAN]]
        /\ flg'["led"] = flg["led"]
    BY <1>2 DEF WaitForData, tk_wai_flg, ClearFlg, MotionInv, MotionTypes
  <2> QED BY <1>1, <2>1, <2>2, DetectionGoesOn
<1>3. ASSUME NEW from \in {"sample", "check"}, NEW to \in {"call", "check", "update"},
             Step("mpuirq", from, to), UNCHANGED <<script, flg, motion>>
      PROVE  MotionInv'
  <2>1. script["mpuirq"] = <<>>
    BY <1>3 DEF MotionInv, Detection, Step
  <2>2. flg' \in [{"mpuirq", "led"} -> [ptn : BOOLEAN, wai : BOOLEAN]]
    BY <1>3 DEF MotionInv, MotionTypes
  <2> QED BY <1>1, <1>3, <2>1, <2>2, DetectionGoesOn
<1>4. CASE ReadSample
  BY <1>3, <1>4 DEF ReadSample
<1>5. CASE IsEnabled
  BY <1>3, <1>5 DEF IsEnabled
<1>6. CASE \E active \in BOOLEAN : motion_update(active)
  BY <1>6, UpdatePreserves DEF task_mpuirq
<1> QED BY <1>2, <1>4, <1>5, <1>6 DEF task_mpuirq

LEMMA InterruptPreserves ==
  ASSUME MotionInv, mpu_data_ready_notify_from_isr
  PROVE  MotionInv'
<1>1. /\ flg' \in [{"mpuirq", "led"} -> [ptn : BOOLEAN, wai : BOOLEAN]]
      /\ flg'["led"] = flg["led"] /\ ~flg'["mpuirq"].wai
      /\ UNCHANGED <<pc, script, motion, mode, led, events>>
  BY DEF mpu_data_ready_notify_from_isr, tk_set_flg, ClearFlg, MotionInv, MotionTypes, ledVars
<1>2. MotionTypes' /\ Detection'
  BY <1>1 DEF MotionInv, MotionTypes, Detection
<1>3. CommandLeft'
  BY <1>1 DEF MotionInv, CommandLeft
<1>4. Alternation'
  BY <1>1 DEF MotionInv, Alternation, MovesAndStopsAlternate, Closing
<1>5. Display'
  BY <1>1, DisplayStays DEF FlagDue, Doing
<1>6. Shows'
  BY <1>1 DEF MotionInv, Shows, Doing
<1> QED BY <1>2, <1>3, <1>4, <1>5, <1>6 DEF MotionInv

(* What the LED does concerns nobody else.                                 *)
LEMMA LedAlone ==
  ASSUME MotionInv, UNCHANGED <<script, motion, mode, events>>,
         NEW to \in {"call", "await", "toggle"}, pc' = [pc EXCEPT !["led"] = to],
         flg'["mpuirq"] = flg["mpuirq"],
         flg' \in [{"mpuirq", "led"} -> [ptn : BOOLEAN, wai : BOOLEAN]],
         led' \in [applied : Modes, lit : BOOLEAN], Display'
  PROVE  MotionInv'
<1>1. pc'["rx"] = pc["rx"] /\ pc'["mpuirq"] = pc["mpuirq"]
  OBVIOUS
<1>2. MotionTypes'
  BY DEF MotionInv, MotionTypes, Task
<1>3. Detection' /\ CommandLeft'
  BY <1>1 DEF MotionInv, Detection, CommandLeft
<1>4. Alternation'
  BY DEF MotionInv, Alternation, MovesAndStopsAlternate, Closing
<1>5. Shows'
  BY DEF MotionInv, Shows, Doing
<1> QED BY <1>2, <1>3, <1>4, <1>5 DEF MotionInv

LEMMA task_motionledPreserves ==
  ASSUME MotionInv, task_motionled \/ BlinkTime
  PROVE  MotionInv'
<1>1. UNCHANGED <<script, motion, mode, events>> /\ (FlagDue => FlagDue')
  BY DEF task_motionled, BlinkTime, ledVars, FlagDue, Doing
<1>2. /\ pc = [t \in Task |-> pc[t]] /\ "led" \in Task
      /\ flg \in [{"mpuirq", "led"} -> [ptn : BOOLEAN, wai : BOOLEAN]]
      /\ led \in [applied : Modes, lit : BOOLEAN] /\ mode \in Modes
  BY DEF MotionInv, MotionTypes, Task
<1>3. CASE ApplyMode
  <2>1. /\ pc' = [pc EXCEPT !["led"] = "await"] /\ pc'["led"] = "await" /\ ~flg["led"].wai
        /\ led' = IF mode = led.applied THEN led ELSE [applied |-> mode, lit |-> mode # "OFF"]
        /\ flg' = flg
    BY <1>2, <1>3 DEF ApplyMode, Step, Runs, Ready
  <2>2. led' \in [applied : Modes, lit : BOOLEAN]
    BY <1>2, <2>1
  <2>3. Display'
    BY <1>1, <1>2, <2>1 DEF MotionInv, Display
  <2> QED BY <1>1, <1>2, <2>1, <2>2, <2>3, LedAlone
<1>4. CASE AwaitChange
  <2>1. /\ pc["led"] = "await" /\ pc' = [pc EXCEPT !["led"] = "call"] /\ pc'["led"] = "call"
        /\ flg' = [flg EXCEPT !["led"] = tk_wai_flg(@)] /\ led' = led
    BY <1>2, <1>4 DEF AwaitChange, Step
  <2>2. /\ flg' \in [{"mpuirq", "led"} -> [ptn : BOOLEAN, wai : BOOLEAN]]
        /\ flg'["mpuirq"] = flg["mpuirq"]
        /\ flg'["led"].wai => ~flg["led"].ptn /\ ~flg'["led"].ptn
    BY <1>2, <2>1 DEF tk_wai_flg, ClearFlg
  <2>3. Display'
    BY <1>1, <2>1, <2>2 DEF MotionInv, Display
  <2> QED BY <1>1, <1>2, <2>1, <2>2, <2>3, LedAlone
<1>5. CASE Toggle
  <2>1. /\ pc["led"] = "toggle" /\ pc' = [pc EXCEPT !["led"] = "call"] /\ pc'["led"] = "call"
        /\ led' = [led EXCEPT !.lit = ~@] /\ flg' = flg /\ ~flg["led"].wai
    BY <1>2, <1>5 DEF Toggle, Step, Runs, Ready
  <2>2. led' \in [applied : Modes, lit : BOOLEAN] /\ led'.applied = led.applied
    BY <1>2, <2>1
  <2>3. Display'
    BY <1>1, <2>1, <2>2 DEF MotionInv, Display, Blinks
  <2> QED BY <1>1, <1>2, <2>1, <2>2, <2>3, LedAlone
<1>6. CASE BlinkTime
  <2>1. /\ Blinks /\ pc' = [pc EXCEPT !["led"] = "toggle"] /\ pc'["led"] = "toggle"
        /\ flg' = [flg EXCEPT !["led"].wai = FALSE] /\ led' = led
    BY <1>2, <1>6 DEF BlinkTime, ledVars
  <2>2. /\ flg' \in [{"mpuirq", "led"} -> [ptn : BOOLEAN, wai : BOOLEAN]]
        /\ flg'["mpuirq"] = flg["mpuirq"] /\ ~flg'["led"].wai
    BY <1>2, <2>1
  <2>3. Display'
    BY <1>1, <2>1, <2>2 DEF MotionInv, Display, Blinks
  <2> QED BY <1>1, <1>2, <2>1, <2>2, <2>3, LedAlone
<1> QED BY <1>3, <1>4, <1>5, <1>6 DEF task_motionled

(* The LED has no script.                                                  *)
LEMMA SetModePreserves ==
  ASSUME MotionInv, NEW t \in Task, SetMode(t)
  PROVE  MotionInv'
<1>1. UNCHANGED <<motion, led, events>>
  BY DEF SetMode
<1>2. t # "led"
  BY DEF SetMode, Does, Doing, MotionInv, MotionTypes
<1>3. CASE Does(t, "mode") /\ mode' = Arg(t) /\ UNCHANGED flg
  BY <1>1, <1>2, <1>3, ConsoleModePreserves, DetectionModePreserves DEF Task
<1>4. CASE Does(t, "flag") /\ flg' = [flg EXCEPT !["led"] = tk_set_flg(@)] /\ UNCHANGED mode
  BY <1>1, <1>2, <1>4, ConsoleFlagPreserves, DetectionFlagPreserves DEF Task
<1> QED BY <1>3, <1>4 DEF SetMode

LEMMA NotifyPreserves ==
  ASSUME MotionInv, NEW t \in Task, Notify(t)
  PROVE  MotionInv'
<1>1. /\ Does(t, "notify") /\ events' = <<events[2], Arg(t)>>
      /\ UNCHANGED <<flg, motion, mode, led>>
  BY DEF Notify, ledVars
<1>2. t # "led"
  BY DEF Notify, Does, Doing, MotionInv, MotionTypes
<1> QED BY <1>1, <1>2, ConsoleNotifyPreserves, DetectionNotifyPreserves DEF Task

LEMMA CommandedPreserves ==
  ASSUME MotionInv, Commanded
  PROVE  MotionInv'
<1>1. CASE Calibrate
  BY <1>1, ReadingPreserves, CalibrationFails DEF Calibrate, Commanded
<1> QED BY <1>1, StopPreserves, StartPreserves DEF Commanded

LEMMA InitiallyMotion == Init => MotionInv
<1> SUFFICES ASSUME Init PROVE MotionInv
  OBVIOUS
<1>1. script["rx"] = <<>> /\ script["mpuirq"] = <<>> /\ script["led"] = <<>>
  BY DEF Init, Task
<1>2. MotionTypes /\ Detection
  BY <1>1 DEF Init, MotionTypes, Detection, Task, ClearFlg, Modes
<1>3. CommandLeft
  <2>1. /\ End + 1 \in 1..End + 1 /\ Rest(script["rx"], End + 1)
        /\ End + 1 \notin End - 4..End /\ End + 1 \notin End - 2..End
    BY <1>1, NothingLeft, EndFacts
  <2>2. ~motion.enabled /\ pc["rx"] = "call"
    BY DEF Init, Task
  <2> QED BY <2>1, <2>2 DEF CommandLeft
<1>4. Alternation /\ Display /\ Shows
  BY DEF Init, Alternation, MovesAndStopsAlternate, Display, Shows, Blinks, Task, ClearFlg
<1> QED BY <1>2, <1>3, <1>4 DEF MotionInv

LEMMA MotionStep ==
  ASSUME MotionInv, [Next]_vars
  PROVE  MotionInv'
<1>1. ASSUME NEW t \in Task, TaskStep(t) PROVE MotionInv'
  BY <1>1, SetModePreserves, NotifyPreserves, StartDelayPreserves, CommandedPreserves,
     task_mpuirqPreserves, task_motionledPreserves DEF TaskStep
<1>2. ASSUME NEW t \in Task, TimeUp(t) PROVE MotionInv'
  BY <1>2, TimeUpPreserves
<1>3. CASE cmd_motion \/ mpu_data_ready_notify_from_isr \/ BlinkTime
  BY <1>3, CommandPreserves, InterruptPreserves, task_motionledPreserves
<1>4. CASE UNCHANGED vars
  <2>1. UNCHANGED <<pc, script, flg, motion, mode, led, events>>
    BY <1>4 DEF vars, ledVars
  <2>2. MotionTypes' /\ Detection' /\ CommandLeft'
    BY <2>1 DEF MotionInv, MotionTypes, Detection, CommandLeft
  <2>3. Alternation'
    BY <2>1 DEF MotionInv, Alternation, MovesAndStopsAlternate, Closing
  <2>4. Display' /\ Shows'
    BY <2>1 DEF MotionInv, Display, Shows, FlagDue, Doing, Blinks
  <2> QED BY <2>2, <2>3, <2>4 DEF MotionInv
<1> QED BY <1>1, <1>2, <1>3, <1>4 DEF Next

LEMMA MotionInductive == Spec => []MotionInv
<1>1. MotionInv /\ [Next]_vars => MotionInv'
  BY MotionStep
<1> QED BY InitiallyMotion, <1>1, PTL DEF Spec

(* However a command interrupts the detection, and wherever its            *)
(* calibration fails, the log is not told twice in a row that motion       *)
(* began.                                                                  *)
THEOREM EventsAlternate == Spec => []MovesAndStopsAlternate
<1>1. MotionInv => MovesAndStopsAlternate
  BY DEF MotionInv, Alternation
<1> QED BY MotionInductive, <1>1, PTL

(* A task of the LED that waits has applied the mode, or is about to be    *)
(* notified; the LED is dark when off and lit while there is motion.       *)
THEOREM LedFollowsMode == Spec => []LedShowsMode
<1>1. MotionInv => LedShowsMode
  <2>1. FlagDue => \E t \in Task : Doing(t, {"flag"})
    BY DEF FlagDue, Task
  <2> QED BY <2>1 DEF MotionInv, Display, LedShowsMode
<1> QED BY MotionInductive, <1>1, PTL

(* While a measurement is on and nobody is about to change it, the mode of *)
(* the LED is what the detection has found.                                *)
THEOREM LedFollowsMotion == Spec => []LedShowsMotion
<1>1. MotionInv => LedShowsMotion
  BY DEF MotionInv, Shows, LedShowsMotion, Doing, Shown
<1> QED BY MotionInductive, <1>1, PTL
=============================================================================
