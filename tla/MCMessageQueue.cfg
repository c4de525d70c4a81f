SPECIFICATION MessageSpec
CONSTANTS
  t1 = t1  t2 = t2  t3 = t3  q1 = q1
  Task <- MCTask
  MaxPri = 2
  BasePri <- MCBasePri
  NONE = NONE
  TimerPeriod = 1
  Delays = {}
  SleepTimes = {}
  WaitFactor = {"SND_MSGQ", "RCV_MSGQ"}
  MaxWup = 0
  Msgq <- One
  maxmsg <- OneSize
  Msg = {m1, m2}
  NOMSG = NOMSG
  MsgWaits <- MCTimes
INVARIANTS
  MsgqTypeOK
  NoNeedlessWait
PROPERTIES
  WaitsEndInOrder
  ImplementsChannels
