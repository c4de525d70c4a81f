SPECIFICATION Spec
CONSTANTS
  t1 = t1  t2 = t2  t3 = t3  s1 = s1  s2 = s2
  Task <- MCTask
  MaxPri = 2
  BasePri <- MCBasePri
  NONE = NONE
  TimerPeriod = 1
  Delays = {}
  SleepTimes = {}
  WaitFactor = {"SEM"}
  MaxWup = 0
  Sem <- MCSem
  InitSem <- MCInitSem
  MaxSem <- MCMaxSem
  Counts <- MCCounts
  SemWaits <- MCTimes
INVARIANT SemaphoreInv
PROPERTIES
  OnlyTimeoutStrandsUnits
  GrantsInOrder
