SPECIFICATION TimeFairSpec
CONSTANTS
  t1 = t1  t2 = t2  t3 = t3
  Task <- MCTask
  MaxPri = 2
  BasePri <- MCBasePri
  NONE = NONE
  TimerPeriod = 2
  Delays <- MCDelays
  SleepTimes <- MCSleepTimes
  WaitFactor = {}
  MaxWup = 1
INVARIANTS
  TypeOK
  QueueIntegrity
  RunsTopTask
  NoLostDispatch
  NoSleepOnCountedWakeup
PROPERTIES
  NoResurrection
  EndsOnTime
  FiniteWaitEnds
  ImplementsScheduler
