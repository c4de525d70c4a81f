SPECIFICATION CycSpec
CONSTANTS
  NumCyc = 2
  Config <- MCConfig
  TimerPeriod = 4
  MaxTime = 48
INVARIANT NominalPhase
PROPERTY CalledWhenDue
