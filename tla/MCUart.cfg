SPECIFICATION FairSpec
CONSTANTS
  Sender = {"hi", "lo"}
  Priority <- MCPriority
  QueueSize = 2
  BufSize = 2
  LineSize = 2
  FifoSize = 1
  OutputLines = {1}
  Char = {"x", "BS", "CR"}
  MaxTyped = 2
  MaxSent = 2
INVARIANTS
  MessagesStayWhole
  NoSilentLoss
PROPERTIES
  ImplementsOutput
  Settles
CHECK_DEADLOCK FALSE
