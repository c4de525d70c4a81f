--------------------------- MODULE I2cBus_proofs ---------------------------
(***************************************************************************)
(* Proofs about I2cBus, for any priorities, commands, lengths of pages and *)
(* calibrations, and numbers of faults.  The mutex admits one transfer at  *)
(* a time, and on that rest the effect of the recovery and the             *)
(* diagnostics; what the functions of the drivers do in their turn does    *)
(* not matter for it.  The semaphore admits one function on the LCD: that  *)
(* comes from how each of them uses it.                                    *)
(***************************************************************************)
EXTENDS I2cBus, TLAPS

Failing == {"record", "recover", "retry", "count", "unlock"}
Busy    == Failing \cup {"attempt"}

(* A task is in a transfer as long as it owns the mutex, or waits for it. *)
Ownership ==
  /\ mtx = [owner |-> mtx.owner, wai |-> mtx.wai]
  /\ mtx.owner \in Task \cup {"none"} /\ mtx.wai \in SUBSET Task
  /\ \A t \in mtx.wai : pc[t] = "attempt" /\ mtx.owner \notin {t, "none"}
  /\ \A t \in Task : InTransfer(t) <=> mtx.owner = t
  /\ \A t \in Task : pc[t] \in Busy => Op(t)

(* Each failed call has cost a fault of its own, and one more was there    *)
(* before: the first, what holds the bus now, what this attempt met, or    *)
(* what came between the recovery and the retry.                           *)
Costs ==
  /\ failed > 0 \/ stuck \/ (\E t \in Task : pc[t] \in {"record", "recover", "retry"})
       => faults >= failed + 1
  /\ stuck /\ (\E t \in Task : pc[t] = "retry") => faults >= failed + 2
  /\ (\E t \in Task : pc[t] = "count") => faults >= failed + 2

(* What each step of a failing call has stored.  The latch is clear when   *)
(* an attempt begins.                                                      *)
Records ==
  /\ i2c.errors = i2c.recoveries + failed
                    + IF \E t \in Task : pc[t] = "recover" THEN 1 ELSE 0
  /\ \A t \in Task : pc[t] = "record" =>
       /\ i2c.stage = "rx" => Head(script[t]).op = "write_read"
       /\ i2c.current => i2c.stage # "enable"
  /\ \A t \in Task : pc[t] \in {"recover", "retry", "count"} =>
       /\ i2c.op = Head(script[t]).op /\ i2c.dev = Head(script[t]).dev
       /\ pc[t] # "count" /\ i2c.abort => i2c.stage # "enable"
  /\ i2c.stage = "rx" => i2c.op = "write_read" \/ \E t \in Task : pc[t] = "record"
  /\ i2c.current => \E t \in Task : pc[t] \in Failing

Diagnosis(d) ==
  /\ d = [errors |-> d.errors, recoveries |-> d.recoveries, dev |-> d.dev, op |-> d.op,
          stage |-> d.stage, abort |-> d.abort, current |-> d.current]
  /\ d.errors \in Nat /\ d.recoveries \in Nat
  /\ d.abort \in BOOLEAN /\ d.current \in BOOLEAN

Types ==
  /\ pc \in [Task -> Busy \cup {"call", "dly"}]
  /\ script = [t \in Task |-> script[t]]
  /\ stuck \in BOOLEAN /\ faults \in Nat /\ failed \in Nat
  /\ Diagnosis(i2c)

BusInv == Types /\ Ownership /\ Costs /\ Records

(* A task that makes a step does not wait for the mutex. *)
LEMMA StepFacts ==
  ASSUME NEW t, NEW from, NEW to, Step(t, from, to)
  PROVE  t \in Task /\ t \notin mtx.wai /\ pc[t] = from /\ pc' = [pc EXCEPT ![t] = to]
BY DEF Step, Runs, Ready

(* The unlocking gives the mutex to one of those that wait for it. *)
LEMMA UnlockFacts ==
  ASSUME Types, Ownership
  PROVE  /\ mtx.wai = {} => tk_unl_mtx(mtx, Priority) = FreeMtx
         /\ mtx.wai # {} => \E u \in mtx.wai :
              tk_unl_mtx(mtx, Priority) = [owner |-> u, wai |-> mtx.wai \ {u}]
<1>1. mtx.wai # {} => \E t \in mtx.wai : \A u \in mtx.wai : Priority[t] <= Priority[u]
  BY I2cAssumption DEF Ownership, Task
<1> QED BY <1>1 DEF tk_unl_mtx

(* What a task does between its transfers: its calls and delays.           *)
LEMMA OutsidePreserves ==
  ASSUME BusInv, NEW t \in Task, pc[t] \in {"call", "dly"}, UNCHANGED busVars,
         \E p \in {"call", "dly"} : pc' = [pc EXCEPT ![t] = p],
         \E s : script' = [script EXCEPT ![t] = s]
  PROVE  BusInv'
<1>1. \A u \in Task : u # t => pc'[u] = pc[u] /\ script'[u] = script[u]
  BY DEF BusInv, Types
<1>2. pc'[t] \notin Busy
  BY DEF BusInv, Types, Busy, Failing
<1>3. Types'
  BY DEF BusInv, Types, busVars
<1>4. Ownership'
  BY <1>1, <1>2 DEF BusInv, Types, Ownership, Busy, InTransfer, Op, busVars
<1>5. Costs'
  BY <1>1, <1>2 DEF BusInv, Types, Costs, Busy, busVars
<1>6. Records'
  BY <1>1, <1>2 DEF BusInv, Types, Records, Busy, Failing, busVars
<1> QED BY <1>3, <1>4, <1>5, <1>6 DEF BusInv

LEMMA LockPreserves ==
  ASSUME BusInv, NEW t \in Task, Lock(t)
  PROVE  BusInv'
<1>1. /\ t \notin mtx.wai /\ pc[t] = "call" /\ pc' = [pc EXCEPT ![t] = "attempt"]
      /\ mtx' = tk_loc_mtx(mtx, t) /\ Op(t)
      /\ UNCHANGED <<script, stuck, faults, failed, i2c>>
  BY StepFacts DEF Lock
<1>2. Types'
  BY <1>1 DEF BusInv, Types, Busy
<1>3. Ownership'
  <2>1. /\ mtx = [owner |-> mtx.owner, wai |-> mtx.wai]
        /\ mtx.owner \in Task \cup {"none"} /\ mtx.wai \in SUBSET Task
        /\ \A u \in Task : InTransfer(u) <=> mtx.owner = u
    BY DEF BusInv, Ownership
  <2>2. \A u \in Task : Op(u)' <=> Op(u)
    BY <1>1 DEF Op
  <2>3. \A u \in Task : pc'[u] = IF u = t THEN "attempt" ELSE pc[u]
    BY <1>1 DEF BusInv, Types
  <2>4. \A u \in Task : pc'[u] \in Busy => Op(u)'
    BY <1>1, <2>2, <2>3 DEF BusInv, Ownership
  <2>5. t \in Task /\ t # "none"
    BY DEF Task
  <2>6. CASE mtx.owner = "none"
    <3>1. mtx' = [owner |-> t, wai |-> mtx.wai] /\ mtx.wai = {}
      BY <1>1, <2>1, <2>6 DEF BusInv, Ownership, tk_loc_mtx, FreeMtx
    <3>2. \A u \in Task : InTransfer(u)' <=> u = t
      BY <1>1, <2>1, <2>3, <2>5, <2>6, <3>1 DEF InTransfer, Task
    <3> QED BY <2>3, <2>4, <2>5, <3>1, <3>2 DEF Ownership
  <2>7. CASE mtx.owner # "none"
    <3>1. mtx' = [owner |-> mtx.owner, wai |-> mtx.wai \cup {t}]
      BY <1>1, <2>1, <2>7 DEF tk_loc_mtx, FreeMtx
    <3>2. mtx.owner # t
      BY <1>1, <2>1, <2>5 DEF InTransfer
    <3>3. \A u \in Task : InTransfer(u)' <=> InTransfer(u)
      BY <1>1, <2>3, <3>1 DEF InTransfer
    <3>4. \A u \in mtx'.wai : pc'[u] = "attempt" /\ mtx'.owner \notin {u, "none"}
      BY <2>1, <2>3, <2>7, <3>1, <3>2 DEF BusInv, Ownership
    <3> QED BY <2>1, <2>4, <3>1, <3>3, <3>4 DEF Ownership
  <2> QED BY <2>6, <2>7
<1>4. Costs' /\ Records'
  <2>1. pc'[t] = "attempt" /\ \A u \in Task : u # t => pc'[u] = pc[u]
    BY <1>1 DEF BusInv, Types
  <2>2. Costs'
    BY <1>1, <2>1 DEF BusInv, Costs
  <2>3. Records'
    BY <1>1, <2>1 DEF BusInv, Records, Failing
  <2> QED BY <2>2, <2>3
<1> QED BY <1>2, <1>3, <1>4 DEF BusInv

(* What a task does in its turn on the bus. *)
LEMMA InsidePreserves ==
  ASSUME BusInv, NEW t \in Task, NEW p \in Busy,
         t \notin mtx.wai, pc[t] \in Busy, pc' = [pc EXCEPT ![t] = p],
         UNCHANGED <<script, mtx>>
  PROVE  Ownership' /\ \A u \in Task : u # t => pc[u] \notin Failing /\ pc'[u] = pc[u]
BY DEF BusInv, Types, Ownership, Busy, Failing, InTransfer, Op

LEMMA DiagnosisUpdate ==
  ASSUME NEW d, Diagnosis(d), NEW dev, NEW op, NEW stage, NEW abort \in BOOLEAN,
         NEW current \in BOOLEAN, NEW e \in Nat, NEW n \in Nat,
         NEW x, x = [errors |-> e, recoveries |-> n, dev |-> dev, op |-> op,
                     stage |-> stage, abort |-> abort, current |-> current]
  PROVE  /\ Diagnosis(x)
         /\ x.errors = e /\ x.recoveries = n /\ x.dev = dev /\ x.op = op
         /\ x.stage = stage /\ x.abort = abort /\ x.current = current
BY DEF Diagnosis

(* What a failing attempt stores. *)
LEMMA FailsAtStores ==
  ASSUME Types, NEW t \in Task, FailsAt(t)
  PROVE  /\ Diagnosis(i2c')
         /\ i2c'.errors = i2c.errors /\ i2c'.recoveries = i2c.recoveries
         /\ i2c'.op = i2c.op /\ i2c'.dev = i2c.dev /\ i2c'.abort = i2c.abort
         /\ i2c'.stage = "rx" => Head(script[t]).op = "write_read"
         /\ ~i2c.current /\ i2c'.current => i2c'.stage # "enable"
<1>1. PICK f \in Failures :
        /\ f.stage = "rx" => Doing(t, "write_read")
        /\ i2c' = [i2c EXCEPT !.stage = f.stage, !.current = @ \/ f.aborted]
  BY DEF FailsAt
<1>2. f.aborted \in BOOLEAN /\ (f.aborted => f.stage # "enable")
  BY FailuresAssumption
<1>3. PICK c \in BOOLEAN : c = (i2c.current \/ f.aborted)
  OBVIOUS
<1>4. i2c' = [errors |-> i2c.errors, recoveries |-> i2c.recoveries, dev |-> i2c.dev,
              op |-> i2c.op, stage |-> f.stage, abort |-> i2c.abort, current |-> c]
  BY <1>1, <1>3 DEF Types, Diagnosis
<1>5. /\ Diagnosis(i2c')
      /\ i2c'.errors = i2c.errors /\ i2c'.recoveries = i2c.recoveries
      /\ i2c'.op = i2c.op /\ i2c'.dev = i2c.dev /\ i2c'.abort = i2c.abort
      /\ i2c'.stage = f.stage /\ i2c'.current = c
  <2>1. i2c.errors \in Nat /\ i2c.recoveries \in Nat /\ i2c.abort \in BOOLEAN
    BY DEF Types, Diagnosis
  <2> QED BY <1>4, <2>1, DiagnosisUpdate DEF Types
<1>6. ~i2c.current /\ c => f.aborted
  BY <1>2, <1>3
<1>7. f.stage = "rx" => Head(script[t]).op = "write_read"
  BY <1>1 DEF Doing
<1> QED BY <1>2, <1>5, <1>6, <1>7

LEMMA TransferPreserves ==
  ASSUME BusInv, NEW t \in Task, Transfer(t)
  PROVE  BusInv'
<1> USE DEF Failing
<1>1. CASE Lock(t)
  BY <1>1, LockPreserves
<1>2. CASE Succeeds(t, "attempt") \/ Succeeds(t, "retry") \/ Probe(t)
  <2>1. /\ t \notin mtx.wai /\ pc[t] \in {"attempt", "retry"}
        /\ pc' = [pc EXCEPT ![t] = "unlock"]
        /\ UNCHANGED <<script, mtx, stuck, failed, i2c>>
        /\ pc[t] = "retry" => ~stuck
        /\ faults' \in Nat /\ faults' >= faults
    BY <1>2, StepFacts DEF Succeeds, Probe, Fails, busVars, BusInv, Types
  <2>2. Ownership' /\ \A u \in Task : u # t => pc[u] \notin Failing /\ pc'[u] = pc[u]
    BY <2>1, InsidePreserves DEF Busy
  <2>3. Types'
    BY <2>1 DEF BusInv, Types, Busy
  <2>4. pc'[t] = "unlock"
    BY <2>1 DEF BusInv, Types
  <2>5. Costs'
    BY <2>1, <2>2, <2>4 DEF BusInv, Types, Costs
  <2>6. Records'
    BY <2>1, <2>2, <2>4 DEF BusInv, Types, Diagnosis, Records
  <2> QED BY <2>2, <2>3, <2>5, <2>6 DEF BusInv
<1>3. CASE Attempt(t)
  <2>1. /\ t \notin mtx.wai /\ pc[t] = "attempt" /\ Fails /\ FailsAt(t)
        /\ pc' = [pc EXCEPT ![t] = "record"]
        /\ UNCHANGED <<script, mtx, stuck, failed>>
    BY <1>3, StepFacts DEF Attempt
  <2>2. Ownership' /\ \A u \in Task : u # t => pc[u] \notin Failing /\ pc'[u] = pc[u]
    BY <2>1, InsidePreserves DEF Busy
  <2>3. ~i2c.current
    BY <2>1, <2>2 DEF BusInv, Records
  <2>4. Types'
    BY <2>1, FailsAtStores DEF BusInv, Types, Busy, Fails
  <2>5. pc'[t] = "record"
    BY <2>1 DEF BusInv, Types
  <2>6. Costs'
    BY <2>1, <2>2, <2>5 DEF BusInv, Types, Costs, Fails
  <2>7. Records'
    BY <2>1, <2>2, <2>3, <2>5, FailsAtStores DEF BusInv, Records
  <2> QED BY <2>2, <2>4, <2>6, <2>7 DEF BusInv
<1>4. CASE Record(t)
  <2>1. /\ t \notin mtx.wai /\ pc[t] = "record"
        /\ pc' = [pc EXCEPT ![t] = "recover"]
        /\ i2c' = [i2c EXCEPT !.dev = Head(script[t]).dev, !.op = Head(script[t]).op,
                             !.abort = i2c.current, !.errors = @ + 1]
        /\ UNCHANGED <<script, mtx, stuck, faults, failed>>
    BY <1>4, StepFacts DEF Record
  <2>2. Ownership' /\ \A u \in Task : u # t => pc[u] \notin Failing /\ pc'[u] = pc[u]
    BY <2>1, InsidePreserves DEF Busy
  <2>3. /\ i2c' = [errors |-> i2c.errors + 1, recoveries |-> i2c.recoveries,
                   dev |-> Head(script[t]).dev, op |-> Head(script[t]).op,
                   stage |-> i2c.stage, abort |-> i2c.current, current |-> i2c.current]
        /\ i2c.errors + 1 \in Nat /\ i2c.recoveries \in Nat /\ i2c.current \in BOOLEAN
    <3>1. PICK e, n, d, o, g, a, c :
            /\ i2c = [errors |-> e, recoveries |-> n, dev |-> d, op |-> o,
                      stage |-> g, abort |-> a, current |-> c]
            /\ e \in Nat /\ n \in Nat /\ c \in BOOLEAN
      BY DEF BusInv, Types, Diagnosis
    <3>2. i2c.errors = e /\ i2c.recoveries = n /\ i2c.stage = g /\ i2c.current = c
      BY <3>1
    <3>3. i2c' = [errors |-> e + 1, recoveries |-> n, dev |-> Head(script[t]).dev,
                  op |-> Head(script[t]).op, stage |-> g, abort |-> c, current |-> c]
      BY <2>1, <3>1, <3>2
    <3> QED BY <3>1, <3>2, <3>3
  <2>4. /\ Diagnosis(i2c')
        /\ i2c'.errors = i2c.errors + 1 /\ i2c'.recoveries = i2c.recoveries
        /\ i2c'.op = Head(script[t]).op /\ i2c'.dev = Head(script[t]).dev
        /\ i2c'.stage = i2c.stage /\ i2c'.abort = i2c.current /\ i2c'.current = i2c.current
    BY <2>3, DiagnosisUpdate DEF BusInv, Types
  <2>5. Types'
    BY <2>1, <2>4 DEF BusInv, Types, Busy
  <2>6. pc'[t] = "recover"
    BY <2>1 DEF BusInv, Types
  <2>7. Costs'
    BY <2>1, <2>2, <2>6 DEF BusInv, Types, Costs
  <2>8. Records'
    BY <2>1, <2>2, <2>4, <2>6 DEF BusInv, Types, Diagnosis, Records
  <2> QED BY <2>2, <2>5, <2>7, <2>8 DEF BusInv
<1>5. CASE i2c0_bus_recover(t)
  <2>1. /\ t \notin mtx.wai /\ pc[t] = "recover"
        /\ pc' = [pc EXCEPT ![t] = "retry"] /\ stuck' = FALSE
        /\ i2c' = [i2c EXCEPT !.recoveries = @ + 1]
        /\ UNCHANGED <<script, mtx, faults, failed>>
    BY <1>5, StepFacts DEF i2c0_bus_recover
  <2>2. Ownership' /\ \A u \in Task : u # t => pc[u] \notin Failing /\ pc'[u] = pc[u]
    BY <2>1, InsidePreserves DEF Busy
  <2>3. /\ i2c'.errors = i2c.errors /\ i2c'.recoveries = i2c.recoveries + 1
        /\ i2c'.op = i2c.op /\ i2c'.dev = i2c.dev /\ i2c'.stage = i2c.stage
        /\ i2c'.abort = i2c.abort /\ i2c'.current = i2c.current /\ Diagnosis(i2c')
    BY <2>1 DEF BusInv, Types, Diagnosis
  <2>4. Types'
    BY <2>1, <2>3 DEF BusInv, Types, Busy
  <2>5. pc'[t] = "retry"
    BY <2>1 DEF BusInv, Types
  <2>6. Costs'
    BY <2>1, <2>2, <2>5 DEF BusInv, Types, Costs
  <2>7. Records'
    BY <2>1, <2>2, <2>3, <2>5 DEF BusInv, Types, Diagnosis, Records
  <2> QED BY <2>2, <2>4, <2>6, <2>7 DEF BusInv
<1>6. CASE Retry(t)
  <2>1. /\ t \notin mtx.wai /\ pc[t] = "retry" /\ Fails /\ FailsAt(t)
        /\ pc' = [pc EXCEPT ![t] = "count"]
        /\ UNCHANGED <<script, mtx, stuck, failed>>
    BY <1>6, StepFacts DEF Retry
  <2>2. Ownership' /\ \A u \in Task : u # t => pc[u] \notin Failing /\ pc'[u] = pc[u]
    BY <2>1, InsidePreserves DEF Busy
  <2>3. Types'
    BY <2>1, FailsAtStores DEF BusInv, Types, Busy, Fails
  <2>4. pc'[t] = "count"
    BY <2>1 DEF BusInv, Types
  <2>5. Costs'
    BY <2>1, <2>2, <2>4 DEF BusInv, Types, Costs, Fails
  <2>6. Records'
    BY <2>1, <2>2, <2>4, FailsAtStores DEF BusInv, Records
  <2> QED BY <2>2, <2>3, <2>5, <2>6 DEF BusInv
<1>7. CASE RetryFailed(t)
  <2>1. /\ t \notin mtx.wai /\ pc[t] = "count"
        /\ pc' = [pc EXCEPT ![t] = "unlock"] /\ failed' = failed + 1
        /\ i2c' = [i2c EXCEPT !.errors = @ + 1]
        /\ UNCHANGED <<script, mtx, stuck, faults>>
    BY <1>7, StepFacts DEF RetryFailed
  <2>2. Ownership' /\ \A u \in Task : u # t => pc[u] \notin Failing /\ pc'[u] = pc[u]
    BY <2>1, InsidePreserves DEF Busy
  <2>3. /\ i2c'.errors = i2c.errors + 1 /\ i2c'.recoveries = i2c.recoveries
        /\ i2c'.op = i2c.op /\ i2c'.dev = i2c.dev /\ i2c'.stage = i2c.stage
        /\ i2c'.abort = i2c.abort /\ i2c'.current = i2c.current /\ Diagnosis(i2c')
    BY <2>1 DEF BusInv, Types, Diagnosis
  <2>4. Types'
    BY <2>1, <2>3 DEF BusInv, Types, Busy
  <2>5. pc'[t] = "unlock"
    BY <2>1 DEF BusInv, Types
  <2>6. Costs'
    BY <2>1, <2>2, <2>5 DEF BusInv, Types, Costs
  <2>7. Records'
    BY <2>1, <2>2, <2>3, <2>5 DEF BusInv, Types, Diagnosis, Records
  <2> QED BY <2>2, <2>4, <2>6, <2>7 DEF BusInv
<1>8. CASE Unlock(t)
  <2>1. /\ t \notin mtx.wai /\ pc[t] = "unlock" /\ pc' = [pc EXCEPT ![t] = "call"]
        /\ mtx' = tk_unl_mtx(mtx, Priority)
        /\ script' = [script EXCEPT ![t] = IF ok[t] THEN Tail(@) ELSE AfterFailure(@)]
        /\ i2c' = [i2c EXCEPT !.current = FALSE]
        /\ UNCHANGED <<stuck, faults, failed>>
    BY <1>8, StepFacts DEF Unlock
  <2>2. mtx.owner = t
    BY <2>1 DEF BusInv, Ownership, InTransfer
  <2>3. \/ mtx' = FreeMtx /\ mtx.wai = {}
        \/ \E u \in mtx.wai : mtx' = [owner |-> u, wai |-> mtx.wai \ {u}]
    BY <2>1, UnlockFacts DEF BusInv
  <2>4. \A u \in Task : u # t => pc'[u] = pc[u] /\ script'[u] = script[u]
    BY <2>1 DEF BusInv, Types
  <2>5. /\ i2c'.errors = i2c.errors /\ i2c'.recoveries = i2c.recoveries
        /\ i2c'.op = i2c.op /\ i2c'.dev = i2c.dev /\ i2c'.stage = i2c.stage
        /\ i2c'.abort = i2c.abort /\ i2c'.current = FALSE /\ Diagnosis(i2c')
    BY <2>1 DEF BusInv, Types, Diagnosis
  <2>6. pc'[t] = "call"
    BY <2>1 DEF BusInv, Types
  <2>7. Types'
    BY <2>1, <2>5 DEF BusInv, Types
  <2>8. Ownership'
    BY <2>1, <2>2, <2>3, <2>4
    DEF BusInv, Types, Ownership, Busy, InTransfer, Op, FreeMtx, Task
  <2>9. Costs'
    BY <2>1, <2>4, <2>6 DEF BusInv, Types, Costs
  <2>10. Records'
    BY <2>1, <2>4, <2>5, <2>6 DEF BusInv, Types, Diagnosis, Records
  <2> QED BY <2>7, <2>8, <2>9, <2>10 DEF BusInv
<1> QED BY <1>1, <1>2, <1>3, <1>4, <1>5, <1>6, <1>7, <1>8 DEF Transfer

LEMMA StepPreserves ==
  ASSUME BusInv, Next
  PROVE  BusInv'
<1>1. ASSUME NEW t \in Task, Transfer(t) PROVE BusInv'
  BY <1>1, TransferPreserves
<1>2. ASSUME NEW t \in Task, SemaphoreCall(t) PROVE BusInv'
  <2>1. /\ pc[t] = "call" /\ pc' = [pc EXCEPT ![t] = "call"] /\ UNCHANGED busVars
        /\ script' = [script EXCEPT ![t] = Tail(script[t])]
    BY <1>2, StepFacts DEF SemaphoreCall
  <2> QED BY <2>1, OutsidePreserves
<1>3. ASSUME NEW t \in Task, StartDelay(t) PROVE BusInv'
  <2>1. /\ pc[t] = "call" /\ pc' = [pc EXCEPT ![t] = "dly"] /\ UNCHANGED busVars
        /\ script' = script
    BY <1>3, StepFacts DEF StartDelay
  <2>2. script' = [script EXCEPT ![t] = script[t]]
    BY <2>1 DEF BusInv, Types
  <2> QED BY <2>1, <2>2, OutsidePreserves
<1>4. ASSUME NEW t \in Task, TimeUp(t) PROVE BusInv'
  <2>1. /\ pc[t] = "dly" /\ pc' = [pc EXCEPT ![t] = "call"] /\ UNCHANGED busVars
        /\ script' = [script EXCEPT ![t] = Tail(script[t])]
    BY <1>4 DEF TimeUp
  <2> QED BY <2>1, OutsidePreserves
<1>5. ASSUME NEW t \in Task, NEW s, Begin(t, s), Step(t, "call", "call") PROVE BusInv'
  <2>1. /\ pc[t] = "call" /\ pc' = [pc EXCEPT ![t] = "call"] /\ UNCHANGED busVars
        /\ script' = [script EXCEPT ![t] = s]
    BY <1>5, StepFacts DEF Begin
  <2> QED BY <2>1, OutsidePreserves
<1>6. ASSUME task_inapower PROVE BusInv'
  BY <1>6, <1>5 DEF task_inapower, Task
<1>7. ASSUME task_lcdtemp PROVE BusInv'
  <2>1. Step("lcdtemp", "call", "call") /\ \E s : Begin("lcdtemp", s)
    BY <1>7 DEF task_lcdtemp
  <2> QED BY <1>5, <2>1 DEF Task
<1>8. ASSUME NEW c \in Commands, Command(c) PROVE BusInv'
  <2>1. /\ script["rx"] = <<>> /\ script' = [script EXCEPT !["rx"] = command_table[c]]
        /\ UNCHANGED <<pc, busVars>>
    BY <1>8 DEF Command, Begin
  <2>2. pc["rx"] \in {"call", "dly"} /\ pc' = [pc EXCEPT !["rx"] = pc["rx"]]
    BY <2>1 DEF BusInv, Types, Ownership, Busy, Op, Task
  <2> QED
    <3>1. "rx" \in Task
      BY DEF Task
    <3> QED BY <2>1, <2>2, <3>1, OutsidePreserves
<1>9. ASSUME HoldSda PROVE BusInv'
  <2>1. /\ ~stuck /\ stuck' = TRUE /\ faults' = faults + 1
        /\ UNCHANGED <<pc, script, mtx, failed, i2c>>
    BY <1>9 DEF HoldSda
  <2>2. Types' /\ Costs'
    BY <2>1 DEF BusInv, Types, Costs
  <2>3. Ownership' /\ Records'
    BY <2>1 DEF BusInv, Ownership, Records, InTransfer, Op
  <2> QED BY <2>2, <2>3 DEF BusInv
<1> QED BY <1>1, <1>2, <1>3, <1>4, <1>6, <1>7, <1>8, <1>9 DEF Next, TaskStep

LEMMA BusInit == Init => BusInv
<1> SUFFICES ASSUME Init PROVE BusInv
  OBVIOUS
<1>1. Types
  BY DEF Init, Types, Diagnosis, Task
<1>2. Ownership
  BY DEF Init, Ownership, FreeMtx, InTransfer, Busy, Failing, Task
<1>3. Costs /\ Records
  BY DEF Init, Costs, Records
<1> QED BY <1>1, <1>2, <1>3 DEF BusInv

(* The mutex, the costs of failures and the diagnostics (i2c.c:565-639)    *)
(* are as the invariant says, whoever calls what and whatever goes wrong.  *)
THEOREM BusInvariant == Spec => []BusInv
<1>1. Init => BusInv
  BY BusInit
<1>2. BusInv /\ [Next]_vars => BusInv'
  <2>1. ASSUME BusInv, UNCHANGED vars PROVE BusInv'
    <3>1. UNCHANGED <<pc, script, mtx, stuck, faults, failed, i2c>>
      BY <2>1 DEF vars, busVars
    <3> QED BY <2>1, <3>1 DEF BusInv, Types, Ownership, Costs, Records, InTransfer, Op
  <2> QED BY <2>1, StepPreserves
<1> QED BY <1>1, <1>2, PTL DEF Spec

(* A call fails only if at least two things went wrong: the recovery frees *)
(* the bus before the retry (i2c.c:60-91, 565-592).                        *)
THEOREM RecoveryHelps == Spec => []OneFaultFailsNoCall
<1>1. BusInv => OneFaultFailsNoCall
  BY DEF BusInv, Types, Costs, OneFaultFailsNoCall
<1> QED BY <1>1, BusInvariant, PTL

(* What the mpuirq command (command.c:804-831) may find at any moment of a *)
(* transfer and between them, as it is stored by attempt, record, recovery *)
(* and retry (i2c.c:565-639).                                              *)
THEOREM DiagnosticsAgree == Spec => []Diagnostics
<1>1. BusInv => Diagnostics
  BY DEF BusInv, Records, Diagnostics
<1> QED BY <1>1, BusInvariant, PTL

(***************************************************************************)
(* The functions, as far as the semaphore of the LCD is concerned.         *)
(***************************************************************************)
Operations == [op : {"write", "write_read", "probe", "dly", "lock", "unlock"},
               dev : {"adt", "ina", "mpu", "lcd", "rgb", "none"}]

(* From its n-th operation on, a function has the semaphore. *)
HoldsFrom(s, n) ==
  \E i \in n..Len(s) : s[i].op = "unlock" /\ \A j \in n..i - 1 : s[j].op # "lock"

(* It locks what it does not have, and unlocks what it has. *)
Alternates(s) ==
  /\ s \in Seq(Operations)
  /\ \A i \in 1..Len(s) : /\ s[i].op = "lock" => HoldsFrom(s, i + 1)
                          /\ s[i].op = "unlock" => ~HoldsFrom(s, i + 1)

(* It begins and ends without; or never takes it at all. *)
Proper(s) == Alternates(s) /\ ~Holds(s)

Plain(s) == s \in Seq(Operations) /\ \A i \in 1..Len(s) : s[i].op \notin {"lock", "unlock"}

LEMMA PlainOperations ==
  /\ \A dev \in {"adt", "ina", "mpu", "lcd", "rgb"} :
       Plain(i2c0_write(dev)) /\ Plain(i2c0_write_read(dev)) /\ Plain(i2c0_probe(dev))
  /\ Plain(Delay) /\ Plain(<<>>)
<1>1. ASSUME NEW o \in Operations, o.op \notin {"lock", "unlock"} PROVE Plain(<<o>>)
  BY <1>1 DEF Plain
<1>2. Plain(<<>>)
  BY DEF Plain
<1> QED BY <1>1, <1>2 DEF Operations, i2c0_write, i2c0_write_read, i2c0_probe, Delay

LEMMA PlainConcat ==
  ASSUME NEW r, NEW s, Plain(r), Plain(s)
  PROVE  Plain(r \o s)
<1>1. /\ r \o s \in Seq(Operations) /\ Len(r \o s) = Len(r) + Len(s)
      /\ Len(r) \in Nat /\ Len(s) \in Nat
      /\ \A i \in 1..Len(r) : (r \o s)[i] = r[i]
      /\ \A i \in Len(r) + 1..Len(r) + Len(s) : (r \o s)[i] = s[i - Len(r)]
  BY DEF Plain
<1> QED BY <1>1 DEF Plain

LEMMA PlainTimes ==
  ASSUME NEW n \in Nat, NEW s, Plain(s)
  PROVE  Plain(Times(n, s))
<1>1. Len(s) \in Nat /\ \A i \in 1..Len(s) : s[i] \in Operations
  BY DEF Plain
<1>2. \A a, b \in Nat : a * b \in Nat /\ (a * b > 0 => b > 0)
  <2>1. \A a \in Nat : a * 0 = 0
    OBVIOUS
  <2> QED BY <2>1
<1>3. n * Len(s) \in Nat
  BY <1>1, <1>2
<1>4. \A i \in 1..n * Len(s) : ((i - 1) % Len(s)) + 1 \in 1..Len(s)
  <2>1. \A a, b \in Nat : b > 0 => a % b \in 0..b - 1
    OBVIOUS
  <2> SUFFICES ASSUME NEW i \in 1..n * Len(s) PROVE ((i - 1) % Len(s)) + 1 \in 1..Len(s)
    OBVIOUS
  <2>2. Len(s) > 0 /\ i - 1 \in Nat
    BY <1>1, <1>2, <1>3
  <2>3. (i - 1) % Len(s) \in 0..Len(s) - 1
    BY <1>1, <2>1, <2>2
  <2> QED BY <1>1, <2>3
<1> DEFINE m == n * Len(s)
           f(i) == s[((i - 1) % Len(s)) + 1]
<1>5. \A i \in 1..m : f(i) \in Operations /\ f(i).op \notin {"lock", "unlock"}
  BY <1>1, <1>4 DEF Plain
<1>6. Times(n, s) = [i \in 1..m |-> f(i)] /\ m \in Nat
  BY <1>3 DEF Times
<1> HIDE DEF m, f
<1>7. Times(n, s) \in Seq(Operations) /\ Len(Times(n, s)) = m
  BY <1>5, <1>6
<1> QED BY <1>5, <1>6, <1>7 DEF Plain

LEMMA PlainIsProper ==
  ASSUME NEW s, Plain(s)
  PROVE  Proper(s)
BY DEF Plain, Proper, Alternates, Holds

LEMMA LockedIsProper ==
  ASSUME NEW s, Plain(s)
  PROVE  Proper(Locked(s))
<1> DEFINE l == Locked(s)
           n == Len(s)
<1>1. /\ Call("lock") \in Seq(Operations) /\ Call("unlock") \in Seq(Operations)
      /\ s \in Seq(Operations)
  BY DEF Call, Operations, Plain
<1>2. /\ l \in Seq(Operations) /\ Len(l) = n + 2 /\ n \in Nat
      /\ l[1].op = "lock" /\ l[n + 2].op = "unlock"
      /\ \A i \in 2..n + 1 : l[i] = s[i - 1]
  BY <1>1 DEF Locked, Call
<1>3. \A i \in 2..n + 1 : l[i].op \notin {"lock", "unlock"}
  BY <1>2 DEF Plain
<1> HIDE DEF l, n
<1>4. ~Holds(l) /\ HoldsFrom(l, 2) /\ ~HoldsFrom(l, n + 3)
  BY <1>2, <1>3 DEF Holds, HoldsFrom
<1>5. \A i \in 1..Len(l) : /\ l[i].op = "lock" => i = 1
                           /\ l[i].op = "unlock" => i = n + 2
  BY <1>2, <1>3
<1>6. Alternates(l)
  BY <1>2, <1>4, <1>5 DEF Alternates
<1> QED BY <1>4, <1>6 DEF Proper, l

LEMMA ProperConcat ==
  ASSUME NEW r, NEW s, Proper(r), Proper(s)
  PROVE  Proper(r \o s)
<1> DEFINE c == r \o s
           m == Len(r)
           n == Len(s)
<1>1. r \in Seq(Operations) /\ s \in Seq(Operations)
  BY DEF Proper, Alternates
<1>2. /\ c \in Seq(Operations) /\ Len(c) = m + n /\ m \in Nat /\ n \in Nat
      /\ \A i \in 1..m : c[i] = r[i]
      /\ \A i \in m + 1..m + n : c[i] = s[i - m]
  BY <1>1
<1>3. /\ ~\E i \in 1..m : r[i].op = "unlock" /\ \A j \in 1..i - 1 : r[j].op # "lock"
      /\ ~\E i \in 1..n : s[i].op = "unlock" /\ \A j \in 1..i - 1 : s[j].op # "lock"
  BY DEF Proper, Holds
<1> HIDE DEF c, m, n
<1>4. ASSUME NEW k \in 1..m + 1, HoldsFrom(c, k) PROVE HoldsFrom(r, k)
  <2>1. PICK i \in k..m + n : c[i].op = "unlock" /\ \A j \in k..i - 1 : c[j].op # "lock"
    BY <1>2, <1>4 DEF HoldsFrom
  <2>2. i <= m
    <3> SUFFICES ASSUME i > m PROVE FALSE
      BY <1>2, <2>1
    <3>1. i - m \in 1..n /\ s[i - m].op = "unlock"
      BY <1>2, <2>1
    <3>2. PICK j \in 1..(i - m) - 1 : s[j].op = "lock"
      BY <1>3, <3>1
    <3>3. m + j \in k..i - 1 /\ m + j \in m + 1..m + n /\ (m + j) - m = j
      BY <1>2, <3>1, <3>2
    <3>4. c[m + j].op = "lock"
      BY <1>2, <3>2, <3>3
    <3> QED BY <2>1, <3>3, <3>4
  <2>3. i \in k..m /\ r[i].op = "unlock" /\ \A j \in k..i - 1 : r[j].op # "lock"
    BY <1>2, <2>1, <2>2
  <2> QED BY <2>3 DEF HoldsFrom, m
<1>5. ASSUME NEW k \in 1..m + 1, HoldsFrom(r, k) PROVE HoldsFrom(c, k)
  <2>1. PICK i \in k..m : r[i].op = "unlock" /\ \A j \in k..i - 1 : r[j].op # "lock"
    BY <1>5 DEF HoldsFrom, m
  <2>2. i \in k..m + n /\ c[i].op = "unlock" /\ \A j \in k..i - 1 : c[j].op # "lock"
    BY <1>2, <2>1
  <2> QED BY <1>2, <2>2 DEF HoldsFrom
<1>6. ASSUME NEW k \in 1..n + 1, HoldsFrom(c, m + k) PROVE HoldsFrom(s, k)
  <2>1. PICK i \in m + k..m + n : c[i].op = "unlock" /\ \A j \in m + k..i - 1 : c[j].op # "lock"
    BY <1>2, <1>6 DEF HoldsFrom
  <2>2. i - m \in k..n /\ s[i - m].op = "unlock"
    BY <1>2, <2>1
  <2>3. ASSUME NEW j \in k..(i - m) - 1 PROVE s[j].op # "lock"
    <3>1. m + j \in m + k..i - 1 /\ m + j \in m + 1..m + n /\ (m + j) - m = j
      BY <1>2, <2>2
    <3> QED BY <1>2, <2>1, <3>1
  <2> QED BY <2>2, <2>3 DEF HoldsFrom, n
<1>7. ASSUME NEW k \in 1..n + 1, HoldsFrom(s, k) PROVE HoldsFrom(c, m + k)
  <2>1. PICK i \in k..n : s[i].op = "unlock" /\ \A j \in k..i - 1 : s[j].op # "lock"
    BY <1>7 DEF HoldsFrom, n
  <2>2. m + i \in m + k..m + n /\ c[m + i].op = "unlock"
    BY <1>2, <2>1
  <2>3. ASSUME NEW j \in m + k..(m + i) - 1 PROVE c[j].op # "lock"
    <3>1. j - m \in k..i - 1 /\ j \in m + 1..m + n
      BY <1>2, <2>1
    <3> QED BY <1>2, <2>1, <3>1
  <2> QED BY <1>2, <2>2, <2>3 DEF HoldsFrom
<1>8. ~Holds(c)
  <2>1. ~HoldsFrom(r, 1)
    BY DEF Proper, Holds, HoldsFrom
  <2>2. ~HoldsFrom(c, 1)
    BY <1>2, <1>4, <2>1
  <2> QED BY <2>2 DEF Holds, HoldsFrom
<1>9. ASSUME NEW i \in 1..Len(c)
      PROVE  /\ c[i].op = "lock" => HoldsFrom(c, i + 1)
             /\ c[i].op = "unlock" => ~HoldsFrom(c, i + 1)
  <2>1. CASE i \in 1..m
    <3>1. /\ r[i].op = "lock" => HoldsFrom(r, i + 1)
          /\ r[i].op = "unlock" => ~HoldsFrom(r, i + 1)
      BY <2>1 DEF Proper, Alternates, m
    <3>2. i + 1 \in 1..m + 1 /\ c[i] = r[i]
      BY <1>2, <2>1
    <3> QED BY <1>4, <1>5, <3>1, <3>2
  <2>2. CASE i \in m + 1..m + n
    <3>1. i - m \in 1..n /\ (i - m) + 1 \in 1..n + 1 /\ m + ((i - m) + 1) = i + 1
          /\ c[i] = s[i - m]
      BY <1>2, <2>2
    <3>2. /\ s[i - m].op = "lock" => HoldsFrom(s, (i - m) + 1)
          /\ s[i - m].op = "unlock" => ~HoldsFrom(s, (i - m) + 1)
      BY <3>1 DEF Proper, Alternates, n
    <3>3. HoldsFrom(c, i + 1) <=> HoldsFrom(s, (i - m) + 1)
      BY <1>6, <1>7, <3>1
    <3> QED BY <3>1, <3>2, <3>3
  <2> QED BY <1>2, <2>1, <2>2
<1>10. Alternates(c)
  BY <1>2, <1>9 DEF Alternates
<1> QED BY <1>8, <1>10 DEF Proper, c

(* All that the commands and the tasks begin. *)
LEMMA FunctionsAreProper ==
  /\ \A c \in Commands : Proper(command_table[c])
  /\ Proper(Delay \o ina226_read_bus_voltage \o ina226_read_shunt)
  /\ Proper(ina226_read_bus_voltage \o ina226_read_shunt)
  /\ Proper(grove_lcd_init) /\ Proper(Delay \o grove_lcd_init)
  /\ Proper(adt7410_read_temperature) /\ Proper(read_mpu_values)
  /\ Proper(grove_lcd_update_lines) /\ Proper(Delay)
<1>1. 1 \in Nat /\ 2 \in Nat /\ 3 \in Nat /\ 4 \in Nat /\ Samples - 1 \in Nat /\ Columns \in Nat
  BY I2cAssumption
<1>2. /\ Plain(Delay)
      /\ Plain(adt7410_read_register) /\ Plain(adt7410_write_register)
      /\ Plain(i2c0_write_read("adt")) /\ Plain(ina226_read_register)
      /\ Plain(mpu6050_init) /\ Plain(mpu6050_read_raw) /\ Plain(mpu6050_read_who_am_i)
      /\ Plain(grove_lcd_command) /\ Plain(grove_rgb_write) /\ Plain(i2c0_write("lcd"))
      /\ Plain(i2c0_probe("adt")) /\ Plain(i2c0_probe("lcd"))
  BY PlainOperations
  DEF adt7410_read_register, adt7410_write_register, ina226_read_register, mpu6050_init,
      mpu6050_read_raw, mpu6050_read_who_am_i, grove_lcd_command, grove_rgb_write
<1>3. /\ Plain(adt7410_set_resolution) /\ Plain(adt7410_read_device_info)
      /\ Plain(adt7410_read_raw_temperature)
      /\ Plain(adt7410_read_temperature)
  BY <1>1, <1>2, PlainConcat, PlainTimes
  DEF adt7410_set_resolution, adt7410_read_device_info, adt7410_read_raw_temperature,
      adt7410_read_temperature
<1>4. /\ Plain(ina226_read_ids) /\ Plain(ina226_read_bus_voltage) /\ Plain(ina226_read_shunt)
      /\ Plain(read_mpu_values)
  BY <1>1, <1>2, PlainConcat, PlainTimes
  DEF ina226_read_ids, ina226_read_bus_voltage, ina226_read_shunt, read_mpu_values
<1>5. Plain(mpu6050_calibrate_gyro)
  <2>1. Plain(mpu6050_read_raw \o Delay)
    BY <1>2, PlainConcat
  <2>2. Plain(Times(Samples - 1, mpu6050_read_raw \o Delay))
    BY <1>1, <2>1, PlainTimes
  <2> QED BY <1>2, <2>2, PlainConcat DEF mpu6050_calibrate_gyro
<1>6. Plain(grove_lcd_set_rgb_unlocked)
  <2>1. Plain(Times(4, grove_rgb_write))
    BY <1>1, <1>2, PlainTimes
  <2> QED BY <1>2, <2>1, PlainConcat DEF grove_lcd_set_rgb_unlocked
<1>7. Plain(grove_lcd_init_unlocked)
  <2>1. Plain(grove_lcd_command \o Delay)
    BY <1>2, PlainConcat
  <2>2. Plain(Times(2, grove_lcd_command \o Delay)) /\ Plain(Times(3, grove_lcd_command))
    BY <1>1, <1>2, <2>1, PlainTimes
  <2>3. Plain(grove_lcd_clear)
    BY <2>1 DEF grove_lcd_clear
  <2>4. /\ Plain(Delay \o Times(2, grove_lcd_command \o Delay))
        /\ Plain(Delay \o Times(2, grove_lcd_command \o Delay) \o Times(3, grove_lcd_command))
    BY <1>2, <2>2, PlainConcat
  <2> QED BY <1>2, <1>6, <2>3, <2>4, PlainConcat DEF grove_lcd_init_unlocked
<1>8. Proper(grove_lcd_update_lines)
  <2>1. Plain(grove_lcd_write_text(Columns))
    BY <1>1, <1>2, PlainTimes DEF grove_lcd_write_text
  <2>2. Plain(grove_lcd_command \o grove_lcd_write_text(Columns))
    BY <1>2, <2>1, PlainConcat
  <2>3. Plain(Times(2, grove_lcd_command \o grove_lcd_write_text(Columns)))
    BY <1>1, <2>2, PlainTimes
  <2> QED BY <2>3, LockedIsProper DEF grove_lcd_update_lines
<1>9. Proper(grove_lcd_init) /\ Proper(grove_lcd_set_rgb)
  BY <1>6, <1>7, LockedIsProper DEF grove_lcd_init, grove_lcd_set_rgb
<1>10. Proper(adt7410_read_temperature) /\ Proper(read_mpu_values) /\ Proper(Delay)
  BY <1>2, <1>3, <1>4, PlainIsProper
<1>11. /\ Proper(cmd_lcdtest) /\ Proper(cmd_lcdtemp) /\ Proper(cmd_lcdcolor)
       /\ Proper(Delay \o grove_lcd_init)
  BY <1>8, <1>9, <1>10, ProperConcat DEF cmd_lcdtest, cmd_lcdtemp, cmd_lcdcolor
<1>12. /\ Proper(cmd_i2cscan) /\ Proper(cmd_temperature) /\ Proper(cmd_adtinfo)
       /\ Proper(cmd_adtconfig) /\ Proper(cmd_adtraw)
  BY <1>2, <1>3, PlainConcat, PlainIsProper
  DEF cmd_i2cscan, cmd_temperature, cmd_adtinfo, cmd_adtconfig, cmd_adtraw
<1>13. /\ Proper(cmd_inaid) /\ Proper(cmd_inabus) /\ Proper(cmd_inashunt) /\ Proper(cmd_mpuid)
       /\ Proper(ina226_read_bus_voltage \o ina226_read_shunt)
       /\ Proper(Delay \o ina226_read_bus_voltage \o ina226_read_shunt)
  BY <1>2, <1>4, PlainConcat, PlainIsProper DEF cmd_inaid, cmd_inabus, cmd_inashunt, cmd_mpuid
<1>14. Proper(cmd_mpuraw) /\ Proper(cmd_mpu) /\ Proper(cmd_mpucal)
  BY <1>2, <1>5, PlainConcat, PlainIsProper DEF cmd_mpuraw, cmd_mpu, cmd_mpucal
<1>15. ASSUME NEW c \in Commands PROVE Proper(command_table[c])
  <2>1. c \in {"i2cscan", "temperature", "adtinfo", "adtconfig", "adtraw", "inaid", "inabus",
               "inashunt", "mpuid", "mpuraw", "mpu", "mpucal", "lcdtest", "lcdtemp", "lcdcolor"}
    BY CommandsAssumption DEF command_table
  <2> QED BY <1>11, <1>12, <1>13, <1>14, <2>1 DEF command_table
<1> QED BY <1>8, <1>9, <1>10, <1>11, <1>13, <1>15

(***************************************************************************)
(* Whose turn it is on the LCD.                                            *)
(***************************************************************************)
Waits(t) == \E i \in 1..Len(lcd_sem.wai) : lcd_sem.wai[i] = t

Scripts ==
  \A t \in Task : Alternates(script[t]) /\ (pc[t] = "dly" => Doing(t, "dly"))

(* The semaphore is free, and no function has it; or one has it, and all   *)
(* others that were called in the meantime wait in the queue, each once.   *)
LcdTurn ==
  /\ lcd_sem = [cnt |-> lcd_sem.cnt, wai |-> lcd_sem.wai]
  /\ lcd_sem.wai \in Seq(Task)
  /\ \A i, j \in 1..Len(lcd_sem.wai) : lcd_sem.wai[i] = lcd_sem.wai[j] => i = j
  /\ \A t \in Task : Waits(t) => pc[t] = "call" /\ Holds(script[t])
  /\ \/ /\ lcd_sem.cnt = 1 /\ lcd_sem.wai = <<>>
        /\ \A t \in Task : ~Holds(script[t])
     \/ /\ lcd_sem.cnt = 0
        /\ \E o \in Task : /\ Holds(script[o]) /\ ~Waits(o)
                           /\ \A t \in Task : Holds(script[t]) => t = o \/ Waits(t)

LcdInv == BusInv /\ Scripts /\ LcdTurn

(* What the first operation of a function is to the semaphore. *)
LEMMA FirstOperation ==
  ASSUME NEW s, Alternates(s), s # <<>>
  PROVE  /\ Alternates(Tail(s))
         /\ Head(s).op = "lock" => ~Holds(s) /\ Holds(Tail(s))
         /\ Head(s).op = "unlock" => Holds(s) /\ ~Holds(Tail(s))
         /\ Head(s).op \notin {"lock", "unlock"} => (Holds(Tail(s)) <=> Holds(s))
<1> DEFINE r == Tail(s)
<1>1. /\ s \in Seq(Operations) /\ Len(s) \in Nat \ {0} /\ Head(s) = s[1]
      /\ r \in Seq(Operations) /\ Len(r) = Len(s) - 1
      /\ \A i \in 1..Len(s) - 1 : r[i] = s[i + 1]
  BY DEF Alternates
<1> HIDE DEF r
<1>2. ASSUME NEW k \in 1..Len(s) PROVE HoldsFrom(r, k) <=> HoldsFrom(s, k + 1)
  <2>1. ASSUME HoldsFrom(r, k) PROVE HoldsFrom(s, k + 1)
    <3>1. PICK i \in k..Len(r) : r[i].op = "unlock" /\ \A j \in k..i - 1 : r[j].op # "lock"
      BY <2>1 DEF HoldsFrom
    <3>2. i + 1 \in k + 1..Len(s) /\ s[i + 1].op = "unlock"
      BY <1>1, <3>1
    <3>3. ASSUME NEW j \in k + 1..(i + 1) - 1 PROVE s[j].op # "lock"
      <4>1. j - 1 \in k..i - 1 /\ j - 1 \in 1..Len(s) - 1 /\ (j - 1) + 1 = j
        BY <1>1, <3>1
      <4> QED BY <1>1, <3>1, <4>1
    <3> QED BY <3>2, <3>3 DEF HoldsFrom
  <2>2. ASSUME HoldsFrom(s, k + 1) PROVE HoldsFrom(r, k)
    <3>1. PICK i \in k + 1..Len(s) :
            s[i].op = "unlock" /\ \A j \in k + 1..i - 1 : s[j].op # "lock"
      BY <2>2 DEF HoldsFrom
    <3>2. i - 1 \in k..Len(r) /\ r[i - 1].op = "unlock"
      <4>1. i - 1 \in k..Len(r) /\ i - 1 \in 1..Len(s) - 1 /\ (i - 1) + 1 = i
        BY <1>1, <3>1
      <4> QED BY <1>1, <3>1, <4>1
    <3>3. ASSUME NEW j \in k..(i - 1) - 1 PROVE r[j].op # "lock"
      <4>1. j + 1 \in k + 1..i - 1 /\ j \in 1..Len(s) - 1
        BY <1>1, <3>1
      <4> QED BY <1>1, <3>1, <4>1
    <3> QED BY <3>2, <3>3 DEF HoldsFrom
  <2> QED BY <2>1, <2>2
<1>3. Alternates(r)
  <2>1. ASSUME NEW i \in 1..Len(r)
        PROVE  /\ r[i].op = "lock" => HoldsFrom(r, i + 1)
               /\ r[i].op = "unlock" => ~HoldsFrom(r, i + 1)
    <3>1. i + 1 \in 1..Len(s) /\ r[i] = s[i + 1]
      BY <1>1
    <3>2. HoldsFrom(r, i + 1) <=> HoldsFrom(s, (i + 1) + 1)
      BY <1>2, <3>1
    <3> QED BY <3>1, <3>2 DEF Alternates
  <2> QED BY <1>1, <2>1 DEF Alternates
<1>4. /\ Holds(r) <=> HoldsFrom(s, 2)
      /\ s[1].op = "lock" => HoldsFrom(s, 2)
      /\ s[1].op = "unlock" => ~HoldsFrom(s, 2)
  <2>1. Holds(r) <=> HoldsFrom(r, 1)
    BY DEF Holds, HoldsFrom
  <2>2. 1 \in 1..Len(s) /\ 1 + 1 = 2
    BY <1>1
  <2>3. HoldsFrom(r, 1) <=> HoldsFrom(s, 2)
    BY <1>2, <2>2
  <2> QED BY <2>1, <2>2, <2>3 DEF Alternates
<1>5. /\ s[1].op = "lock" => ~Holds(s)
      /\ s[1].op = "unlock" => Holds(s)
      /\ s[1].op \notin {"lock", "unlock"} => (Holds(s) <=> HoldsFrom(s, 2))
  <2>1. s[1].op = "lock" => ~Holds(s)
    BY <1>1 DEF Holds
  <2>2. s[1].op = "unlock" => Holds(s)
    BY <1>1 DEF Holds
  <2>3. ASSUME s[1].op \notin {"lock", "unlock"} PROVE Holds(s) <=> HoldsFrom(s, 2)
    <3>1. ASSUME Holds(s) PROVE HoldsFrom(s, 2)
      <4>1. PICK i \in 1..Len(s) : s[i].op = "unlock" /\ \A j \in 1..i - 1 : s[j].op # "lock"
        BY <3>1 DEF Holds
      <4>2. i \in 2..Len(s) /\ \A j \in 2..i - 1 : j \in 1..i - 1
        BY <1>1, <2>3, <4>1
      <4> QED BY <4>1, <4>2 DEF HoldsFrom
    <3>2. ASSUME HoldsFrom(s, 2) PROVE Holds(s)
      <4>1. PICK i \in 2..Len(s) : s[i].op = "unlock" /\ \A j \in 2..i - 1 : s[j].op # "lock"
        BY <3>2 DEF HoldsFrom
      <4>2. i \in 1..Len(s) /\ \A j \in 1..i - 1 : j = 1 \/ j \in 2..i - 1
        BY <1>1, <4>1
      <4> QED BY <2>3, <4>1, <4>2 DEF Holds
    <3> QED BY <3>1, <3>2
  <2> QED BY <2>1, <2>2, <2>3
<1> QED BY <1>1, <1>3, <1>4, <1>5 DEF r

LEMMA AfterFailureProperties ==
  ASSUME NEW s
  PROVE  Alternates(AfterFailure(s)) /\ (Holds(AfterFailure(s)) <=> Holds(s))
<1>1. ASSUME NEW o \in Operations
      PROVE  <<o>> \in Seq(Operations) /\ Len(<<o>>) = 1 /\ <<o>>[1] = o
  OBVIOUS
<1>2. /\ Call("unlock") \in Seq(Operations) /\ Len(Call("unlock")) = 1
      /\ Call("unlock")[1].op = "unlock"
  <2>1. [op |-> "unlock", dev |-> "lcd"] \in Operations
    BY DEF Operations
  <2> QED BY <1>1, <2>1 DEF Call
<1>3. Alternates(Call("unlock")) /\ Holds(Call("unlock"))
  BY <1>2 DEF Alternates, Holds, HoldsFrom
<1>4. Alternates(<<>>) /\ ~Holds(<<>>)
  BY DEF Alternates, Holds
<1> QED BY <1>3, <1>4 DEF AfterFailure

(* Who executes does not wait. *)
LEMMA RunsItself ==
  ASSUME LcdInv, NEW t, NEW from, NEW to, Step(t, from, to)
  PROVE  t \in Task /\ ~Waits(t)
<1>1. t \in Task /\ t \notin ToSet(lcd_sem.wai)
  BY DEF Step, Runs, Ready
<1> QED BY <1>1 DEF Waits, ToSet, LcdInv, LcdTurn

(* A step that is none on the semaphore. *)
LEMMA OtherKeepsTurn ==
  ASSUME LcdInv, BusInv', NEW t \in Task, ~Waits(t),
         NEW p, pc' = [pc EXCEPT ![t] = p],
         NEW s, script' = [script EXCEPT ![t] = s], Alternates(s),
         Holds(s) <=> Holds(script[t]),
         p # "dly" \/ (s # <<>> /\ Head(s).op = "dly"),
         lcd_sem' = lcd_sem
  PROVE  LcdInv'
<1>1. /\ pc'[t] = p /\ script'[t] = s
      /\ \A u \in Task : u # t => pc'[u] = pc[u] /\ script'[u] = script[u]
  BY DEF LcdInv, BusInv, Types
<1>2. \A u \in Task : Holds(script'[u]) <=> Holds(script[u])
  BY <1>1
<1>3. \A u : Waits(u)' <=> Waits(u)
  BY DEF Waits
<1>4. Scripts'
  <2> SUFFICES ASSUME NEW u \in Task
               PROVE  Alternates(script'[u]) /\ (pc'[u] = "dly" => Doing(u, "dly")')
    BY DEF Scripts
  <2>1. CASE u = t
    BY <1>1, <2>1 DEF Doing
  <2>2. CASE u # t
    BY <1>1, <2>2 DEF Doing, LcdInv, Scripts
  <2> QED BY <2>1, <2>2
<1>5. \A u \in Task : Waits(u)' => pc'[u] = "call" /\ Holds(script'[u])
  BY <1>1, <1>2, <1>3 DEF LcdInv, LcdTurn
<1>6. LcdTurn'
  BY <1>2, <1>3, <1>5 DEF LcdInv, LcdTurn
<1> QED BY <1>4, <1>6 DEF LcdInv

(* The turn is taken, or waited for; it is given back, or passed on. *)
LEMMA LockKeepsTurn ==
  ASSUME LcdInv, NEW t \in Task, ~Waits(t), pc[t] = "call", ~Holds(script[t]),
         pc' = pc, NEW s, script' = [script EXCEPT ![t] = s], Holds(s),
         lcd_sem' = tk_wai_sem(lcd_sem, t)
  PROVE  LcdTurn'
<1> DEFINE w == lcd_sem.wai
<1>1. script'[t] = s /\ \A u \in Task : u # t => script'[u] = script[u]
  BY DEF LcdInv, BusInv, Types
<1>2. CASE lcd_sem.cnt = 1
  <2>1. lcd_sem' = [cnt |-> 0, wai |-> <<>>]
    BY <1>2 DEF tk_wai_sem, LcdInv, LcdTurn
  <2>2. \A u : ~Waits(u)'
    BY <2>1 DEF Waits
  <2>3. \A u \in Task : Holds(script'[u]) => u = t
    BY <1>1, <1>2 DEF LcdInv, LcdTurn
  <2> QED BY <1>1, <2>1, <2>2, <2>3 DEF LcdTurn
<1>3. CASE lcd_sem.cnt = 0
  <2>1. lcd_sem' = [cnt |-> 0, wai |-> Append(w, t)] /\ w \in Seq(Task)
    <3>1. lcd_sem = [cnt |-> lcd_sem.cnt, wai |-> w] /\ w \in Seq(Task)
      BY DEF LcdInv, LcdTurn
    <3>2. lcd_sem' = [lcd_sem EXCEPT !.wai = Append(w, t)]
      BY <1>3 DEF tk_wai_sem
    <3>3. \A c, x, y : [[cnt |-> c, wai |-> x] EXCEPT !.wai = y] = [cnt |-> c, wai |-> y]
      OBVIOUS
    <3> QED BY <1>3, <3>1, <3>2, <3>3
  <2>2. /\ Append(w, t) \in Seq(Task) /\ Len(Append(w, t)) = Len(w) + 1
        /\ \A i \in 1..Len(w) : Append(w, t)[i] = w[i]
        /\ Append(w, t)[Len(w) + 1] = t
        /\ Len(w) \in Nat
    BY <2>1
  <2>3. \A u : Waits(u)' <=> Waits(u) \/ u = t
    BY <2>1, <2>2 DEF Waits
  <2>4. \A i, j \in 1..Len(Append(w, t)) : Append(w, t)[i] = Append(w, t)[j] => i = j
    BY <2>2 DEF Waits, LcdInv, LcdTurn
  <2>5. PICK o \in Task : /\ Holds(script[o]) /\ ~Waits(o)
                          /\ \A u \in Task : Holds(script[u]) => u = o \/ Waits(u)
    BY <1>3 DEF LcdInv, LcdTurn
  <2>6. \E u \in Task : /\ Holds(script'[u]) /\ ~Waits(u)'
                        /\ \A v \in Task : Holds(script'[v]) => v = u \/ Waits(v)'
    BY <1>1, <2>3, <2>5
  <2>7. \A u \in Task : Waits(u)' => pc'[u] = "call" /\ Holds(script'[u])
    BY <1>1, <2>3 DEF LcdInv, LcdTurn
  <2>8. /\ lcd_sem'.cnt = 0 /\ lcd_sem'.wai = Append(w, t)
        /\ lcd_sem' = [cnt |-> lcd_sem'.cnt, wai |-> lcd_sem'.wai]
    BY <2>1
  <2> HIDE DEF w
  <2> QED BY <2>2, <2>4, <2>6, <2>7, <2>8 DEF LcdTurn
<1> QED BY <1>2, <1>3 DEF LcdInv, LcdTurn

LEMMA UnlockKeepsTurn ==
  ASSUME LcdInv, NEW t \in Task, ~Waits(t), Holds(script[t]),
         pc' = pc, NEW s, script' = [script EXCEPT ![t] = s], ~Holds(s),
         lcd_sem' = tk_sig_sem(lcd_sem)
  PROVE  LcdTurn'
<1> DEFINE w == lcd_sem.wai
<1>1. script'[t] = s /\ \A u \in Task : u # t => script'[u] = script[u]
  BY DEF LcdInv, BusInv, Types
<1>2. /\ lcd_sem.cnt = 0 /\ lcd_sem = [cnt |-> lcd_sem.cnt, wai |-> w] /\ w \in Seq(Task)
      /\ \A u \in Task : Holds(script[u]) => u = t \/ Waits(u)
  BY DEF LcdInv, LcdTurn
<1>3. CASE w = <<>>
  <2>1. lcd_sem' = [cnt |-> 1, wai |-> <<>>]
    BY <1>2, <1>3 DEF tk_sig_sem
  <2>2. \A u : ~Waits(u) /\ ~Waits(u)'
    BY <1>3, <2>1 DEF Waits
  <2> QED BY <1>1, <1>2, <2>1, <2>2 DEF LcdTurn
<1>4. CASE w # <<>>
  <2>1. lcd_sem' = [cnt |-> 0, wai |-> Tail(w)]
    BY <1>2, <1>4 DEF tk_sig_sem
  <2>2. /\ Tail(w) \in Seq(Task) /\ Len(Tail(w)) = Len(w) - 1
        /\ \A i \in 1..Len(w) - 1 : Tail(w)[i] = w[i + 1]
        /\ Len(w) \in Nat \ {0} /\ w[1] \in Task
    BY <1>2, <1>4
  <2>3. \A i, j \in 1..Len(w) : w[i] = w[j] => i = j
    BY DEF LcdInv, LcdTurn
  <2>4. ASSUME NEW i \in 1..Len(Tail(w)), NEW j \in 1..Len(Tail(w)), Tail(w)[i] = Tail(w)[j]
        PROVE  i = j
    <3>1. i + 1 \in 1..Len(w) /\ j + 1 \in 1..Len(w)
      BY <2>2
    <3>2. w[i + 1] = w[j + 1]
      BY <2>2, <2>4
    <3>3. i + 1 = j + 1
      BY <2>3, <3>1, <3>2
    <3> QED BY <3>3
  <2>5. \A u : Waits(u)' <=> Waits(u) /\ u # w[1]
    <3>1. ASSUME NEW u, Waits(u)' PROVE Waits(u) /\ u # w[1]
      <4>1. PICK i \in 1..Len(w) - 1 : w[i + 1] = u
        BY <2>1, <2>2, <3>1 DEF Waits
      <4>2. i + 1 \in 1..Len(w) /\ 1 \in 1..Len(w) /\ i + 1 # 1
        BY <2>2
      <4> QED BY <2>3, <4>1, <4>2 DEF Waits
    <3>2. ASSUME NEW u, Waits(u), u # w[1] PROVE Waits(u)'
      <4>1. PICK i \in 1..Len(w) : w[i] = u
        BY <3>2 DEF Waits
      <4>2. i - 1 \in 1..Len(w) - 1 /\ (i - 1) + 1 = i
        BY <2>2, <3>2, <4>1
      <4>3. Tail(w)[i - 1] = u
        BY <2>2, <4>1, <4>2
      <4>4. lcd_sem'.wai = Tail(w)
        BY <2>1
      <4>5. i - 1 \in 1..Len(Tail(w))
        BY <2>2, <4>2
      <4> QED BY <4>3, <4>4, <4>5 DEF Waits
    <3> QED BY <3>1, <3>2
  <2>6. Waits(w[1]) /\ w[1] # t /\ Holds(script[w[1]])
    <3>1. Waits(w[1])
      BY <2>2 DEF Waits
    <3> QED BY <2>2, <3>1 DEF LcdInv, LcdTurn
  <2>7. \E u \in Task : /\ Holds(script'[u]) /\ ~Waits(u)'
                        /\ \A v \in Task : Holds(script'[v]) => v = u \/ Waits(v)'
    <3>1. PICK h \in Task : h = w[1]
      BY <2>2
    <3>2. Holds(script'[h]) /\ ~Waits(h)'
      BY <1>1, <2>5, <2>6, <3>1
    <3>3. \A v \in Task : Holds(script'[v]) => v = h \/ Waits(v)'
      BY <1>1, <1>2, <2>5, <3>1
    <3> QED BY <3>2, <3>3
  <2>8. \A u \in Task : Waits(u)' => pc'[u] = "call" /\ Holds(script'[u])
    BY <1>1, <2>5 DEF LcdInv, LcdTurn
  <2>9. /\ lcd_sem'.cnt = 0 /\ lcd_sem'.wai = Tail(w)
        /\ lcd_sem' = [cnt |-> lcd_sem'.cnt, wai |-> lcd_sem'.wai]
    BY <2>1
  <2> HIDE DEF w
  <2> QED BY <2>2, <2>4, <2>7, <2>8, <2>9 DEF LcdTurn
<1> QED BY <1>3, <1>4

LEMMA SemaphoreCallKeepsTurn ==
  ASSUME LcdInv, BusInv', NEW t \in Task, SemaphoreCall(t)
  PROVE  LcdInv'
<1>1. /\ pc[t] = "call" /\ pc' = [pc EXCEPT ![t] = "call"]
      /\ script' = [script EXCEPT ![t] = Tail(script[t])] /\ script[t] # <<>> /\ ~Waits(t)
  BY StepFacts, RunsItself DEF SemaphoreCall, Doing
<1>2. pc' = pc
  BY <1>1 DEF LcdInv, BusInv, Types
<1>3. Alternates(script[t])
  BY DEF LcdInv, Scripts
<1>4. /\ Alternates(Tail(script[t]))
      /\ Doing(t, "lock") => ~Holds(script[t]) /\ Holds(Tail(script[t]))
      /\ Doing(t, "unlock") => Holds(script[t]) /\ ~Holds(Tail(script[t]))
  BY <1>1, <1>3, FirstOperation DEF Doing
<1>5. LcdTurn'
  <2>1. CASE Doing(t, "lock") /\ lcd_sem' = tk_wai_sem(lcd_sem, t)
    BY <1>1, <1>2, <1>4, <2>1, LockKeepsTurn
  <2>2. CASE Doing(t, "unlock") /\ lcd_sem' = tk_sig_sem(lcd_sem)
    BY <1>1, <1>2, <1>4, <2>2, UnlockKeepsTurn
  <2> QED BY <2>1, <2>2 DEF SemaphoreCall
<1>6. Scripts'
  <2> SUFFICES ASSUME NEW u \in Task
               PROVE  Alternates(script'[u]) /\ (pc'[u] = "dly" => Doing(u, "dly")')
    BY DEF Scripts
  <2>1. CASE u = t
    BY <1>1, <1>2, <1>4, <2>1 DEF LcdInv, BusInv, Types
  <2>2. CASE u # t
    <3>1. script'[u] = script[u]
      BY <1>1, <2>2 DEF LcdInv, BusInv, Types
    <3> QED BY <1>2, <3>1 DEF Doing, LcdInv, Scripts
  <2> QED BY <2>1, <2>2
<1> QED BY <1>5, <1>6 DEF LcdInv

LEMMA TransferKeepsTurn ==
  ASSUME LcdInv, BusInv', NEW t \in Task, Transfer(t)
  PROVE  LcdInv'
<1>1. ASSUME NEW from, NEW to, to # "dly", Step(t, from, to), UNCHANGED <<script, lcd_sem>>
      PROVE  LcdInv'
  <2>1. pc' = [pc EXCEPT ![t] = to] /\ ~Waits(t)
    BY <1>1, StepFacts, RunsItself
  <2>2. script' = [script EXCEPT ![t] = script[t]] /\ Alternates(script[t])
    BY <1>1 DEF LcdInv, BusInv, Types, Scripts
  <2> QED BY <1>1, <2>1, <2>2, OtherKeepsTurn
<1>2. CASE Unlock(t)
  <2>1. /\ pc' = [pc EXCEPT ![t] = "call"] /\ ~Waits(t) /\ pc[t] = "unlock"
        /\ script' = [script EXCEPT ![t] = IF ok[t] THEN Tail(script[t])
                                           ELSE AfterFailure(script[t])]
        /\ lcd_sem' = lcd_sem
    BY <1>2, StepFacts, RunsItself DEF Unlock
  <2>2. /\ script[t] # <<>> /\ Head(script[t]).op \notin {"lock", "unlock"}
        /\ Alternates(script[t])
    BY <2>1 DEF LcdInv, BusInv, Ownership, Busy, Failing, Op, Scripts
  <2>3. Alternates(Tail(script[t])) /\ (Holds(Tail(script[t])) <=> Holds(script[t]))
    BY <2>2, FirstOperation
  <2>4. PICK s : /\ script' = [script EXCEPT ![t] = s] /\ Alternates(s)
                 /\ Holds(s) <=> Holds(script[t])
    BY <2>1, <2>3, AfterFailureProperties
  <2>5. PICK p \in {"call", "dly"} : pc' = [pc EXCEPT ![t] = p] /\ p # "dly"
    BY <2>1
  <2> QED BY <2>1, <2>4, <2>5, OtherKeepsTurn
<1>3. CASE \/ Lock(t) \/ Succeeds(t, "attempt") \/ Attempt(t) \/ Probe(t)
           \/ Record(t) \/ i2c0_bus_recover(t)
           \/ Succeeds(t, "retry") \/ Retry(t) \/ RetryFailed(t)
  BY <1>1, <1>3
  DEF Lock, Succeeds, Attempt, Probe, Record, i2c0_bus_recover, Retry, RetryFailed
<1> QED BY <1>2, <1>3 DEF Transfer

LEMMA LcdNext ==
  ASSUME LcdInv, Next, BusInv'
  PROVE  LcdInv'
<1>1. ASSUME NEW t \in Task, Transfer(t) PROVE LcdInv'
  BY <1>1, TransferKeepsTurn
<1>2. ASSUME NEW t \in Task, SemaphoreCall(t) PROVE LcdInv'
  BY <1>2, SemaphoreCallKeepsTurn
<1>3. ASSUME NEW t \in Task, StartDelay(t) PROVE LcdInv'
  <2>1. /\ pc' = [pc EXCEPT ![t] = "dly"] /\ ~Waits(t) /\ script' = script
        /\ lcd_sem' = lcd_sem /\ script[t] # <<>> /\ Head(script[t]).op = "dly"
    BY <1>3, StepFacts, RunsItself DEF StartDelay, Doing
  <2>2. script' = [script EXCEPT ![t] = script[t]] /\ Alternates(script[t])
    BY <2>1 DEF LcdInv, BusInv, Types, Scripts
  <2> QED BY <2>1, <2>2, OtherKeepsTurn
<1>4. ASSUME NEW t \in Task, TimeUp(t) PROVE LcdInv'
  <2>1. /\ pc[t] = "dly" /\ pc' = [pc EXCEPT ![t] = "call"] /\ lcd_sem' = lcd_sem
        /\ script' = [script EXCEPT ![t] = Tail(script[t])]
    BY <1>4 DEF TimeUp
  <2>2. /\ ~Waits(t) /\ script[t] # <<>> /\ Head(script[t]).op = "dly"
        /\ Alternates(script[t])
    BY <2>1 DEF LcdInv, LcdTurn, Scripts, Doing
  <2>3. Alternates(Tail(script[t])) /\ (Holds(Tail(script[t])) <=> Holds(script[t]))
    BY <2>2, FirstOperation
  <2>4. PICK p \in {"call", "dly"} : pc' = [pc EXCEPT ![t] = p] /\ p # "dly"
    BY <2>1
  <2> QED BY <2>1, <2>2, <2>3, <2>4, OtherKeepsTurn
<1>5. ASSUME NEW t \in Task, NEW s, Begin(t, s), pc' = [pc EXCEPT ![t] = "call"] \/ pc' = pc,
             Proper(s)
      PROVE  LcdInv'
  <2>1. /\ script[t] = <<>> /\ script' = [script EXCEPT ![t] = s] /\ lcd_sem' = lcd_sem
        /\ ~Holds(script[t]) /\ ~Holds(s) /\ Alternates(s)
    BY <1>5 DEF Begin, Proper, Holds
  <2>2. ~Waits(t) /\ pc[t] # "dly"
    BY <2>1 DEF LcdInv, LcdTurn, Scripts, Doing
  <2>3. PICK p : pc' = [pc EXCEPT ![t] = p] /\ p # "dly"
    <3>1. pc = [pc EXCEPT ![t] = pc[t]]
      BY DEF LcdInv, BusInv, Types
    <3> QED BY <1>5, <2>2, <3>1
  <2> QED BY <2>1, <2>2, <2>3, OtherKeepsTurn
<1>6. CASE task_inapower
  BY <1>5, <1>6, FunctionsAreProper DEF task_inapower, Step, Task
<1>7. CASE task_lcdtemp
  <2>1. pc' = [pc EXCEPT !["lcdtemp"] = "call"] /\ "lcdtemp" \in Task
    BY <1>7 DEF task_lcdtemp, Step, Task
  <2>2. \E s : Begin("lcdtemp", s) /\ Proper(s)
    BY <1>7, FunctionsAreProper DEF task_lcdtemp
  <2> QED BY <1>5, <2>1, <2>2
<1>8. ASSUME NEW c \in Commands, Command(c) PROVE LcdInv'
  <2>1. Begin("rx", command_table[c]) /\ pc' = pc /\ "rx" \in Task
    BY <1>8 DEF Command, Task
  <2> QED BY <1>5, <2>1, FunctionsAreProper
<1>9. CASE HoldSda
  <2>1. UNCHANGED <<pc, script, lcd_sem>>
    BY <1>9 DEF HoldSda
  <2> QED BY <2>1 DEF LcdInv, Scripts, LcdTurn, Doing, Waits
<1> QED BY <1>1, <1>2, <1>3, <1>4, <1>6, <1>7, <1>8, <1>9 DEF Next, TaskStep

(* One function on the LCD at a time: its semaphore is given back on every *)
(* path, and by no one who does not have it (grove_lcd.c:33-44, 204-290).   *)
THEOREM LcdInvariant == Spec => []LcdInv
<1>1. Init => LcdInv
  <2> SUFFICES ASSUME Init PROVE LcdInv
    OBVIOUS
  <2>1. BusInv
    BY BusInit
  <2>2. \A t \in Task : Proper(script[t]) /\ pc[t] = "call"
    <3>1. Proper(<<>>)
      BY PlainOperations, PlainIsProper
    <3>2. /\ script["rx"] = <<>> /\ script["lcdtemp"] = grove_lcd_init
          /\ script["inapower"] = ina226_read_bus_voltage \o ina226_read_shunt
          /\ \A t \in Task : pc[t] = "call"
      BY DEF Init
    <3> QED BY <3>1, <3>2, FunctionsAreProper DEF Task
  <2>3. Scripts
    BY <2>2 DEF Scripts, Proper
  <2>4. LcdTurn
    <3>1. lcd_sem = [cnt |-> 1, wai |-> <<>>] /\ lcd_sem.wai = <<>> /\ lcd_sem.cnt = 1
      BY DEF Init, FreeSem
    <3>2. \A t \in Task : ~Holds(script[t]) /\ ~Waits(t)
      BY <2>2, <3>1 DEF Waits, Proper
    <3> QED BY <3>1, <3>2 DEF LcdTurn
  <2> QED BY <2>1, <2>3, <2>4 DEF LcdInv
<1>2. LcdInv /\ [Next]_vars => LcdInv'
  <2>1. ASSUME LcdInv, UNCHANGED vars PROVE LcdInv'
    <3>1. UNCHANGED <<pc, script, lcd_sem, mtx, stuck, faults, failed, i2c>>
      BY <2>1 DEF vars, busVars
    <3>2. BusInv'
      BY <2>1, <3>1
      DEF LcdInv, BusInv, Types, Ownership, Costs, Records, InTransfer, Op
    <3>3. Scripts' /\ LcdTurn'
      BY <2>1, <3>1 DEF LcdInv, Scripts, LcdTurn, Doing, Waits
    <3> QED BY <3>2, <3>3 DEF LcdInv
  <2>2. ASSUME LcdInv, Next PROVE LcdInv'
    BY <2>2, StepPreserves, LcdNext DEF LcdInv
  <2> QED BY <2>1, <2>2
<1> QED BY <1>1, <1>2, PTL DEF Spec

(* One transfer at a time, with its recovery and its retry, and one        *)
(* function on the LCD at a time, with all its delays: what the mutex      *)
(* (i2c.c:147-158) and the semaphore (grove_lcd.c:33-44) are for.          *)
THEOREM TasksExclude == Spec => []Exclusive
<1>1. LcdInv => Exclusive
  <2> SUFFICES ASSUME LcdInv, NEW t \in Task, NEW u \in Task, t # u
               PROVE  ~(InTransfer(t) /\ InTransfer(u)) /\ ~(InLcd(t) /\ InLcd(u))
    BY DEF Exclusive
  <2>1. ~(InTransfer(t) /\ InTransfer(u))
    BY DEF LcdInv, BusInv, Ownership
  <2>2. \A v \in Task : InLcd(v) => Holds(script[v]) /\ ~Waits(v)
    BY DEF InLcd, Waits, ToSet, LcdInv, LcdTurn
  <2> QED BY <2>1, <2>2 DEF LcdInv, LcdTurn
<1> QED BY <1>1, LcdInvariant, PTL
=============================================================================
