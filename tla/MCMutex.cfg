SPECIFICATION Spec
CONSTANTS
  t1 = t1  t2 = t2  t3 = t3
  Task <- MCTask
  MaxPri = 3
  BasePri <- MCBasePri
  NONE = NONE
  TimerPeriod = 1
  Delays <- MCDelays
  SleepTimes = {}
  WaitFactor = {"MTX"}
  MaxWup = 0
  tcb_tbl <- MCTable
  NumMtx = 2
  Attrs <- MCAttrs
  MtxWaits <- MCMtxWaits
INVARIANTS
  StrictInheritance
  OwnersAlive
  BoundedInversion
PROPERTIES
  HandsOver
  TimeOutGivesNothing
