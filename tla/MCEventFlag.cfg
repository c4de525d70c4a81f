SPECIFICATION FlagSpec
CONSTANTS
  t1 = t1  t2 = t2  t3 = t3  f1 = f1  b1 = b1  b2 = b2
  Task <- MCTask
  MaxPri = 2
  BasePri <- MCBasePri
  NONE = NONE
  TimerPeriod = 1
  Delays = {}
  SleepTimes = {}
  WaitFactor = {"FLG"}
  MaxWup = 0
  Flg <- MCFlg
  InitPtn <- MCInitPtn
  Bit <- MCBit
  Modes <- MCModes
  FlgWaits <- MCFlgWaits
SYMMETRY MCSymmetry
INVARIANT NoMissedEvent
PROPERTIES
  FirstComeFirstServed
  ConsumedOnce
