SPECIFICATION FairSpec
CONSTANTS
  Priority <- MCPriority
  Commands = {"i2cscan", "lcdcolor"}
  Columns = 1
  Samples = 2
  Failures <- MCFailures
  MaxFaults = 2
INVARIANTS
  Exclusive
  OneFaultFailsNoCall
  Diagnostics
PROPERTY
  ConsoleAnswers
