SPECIFICATION Spec
CONSTANTS
  Priority <- MCPriority
  Commands = {"motion", "flashlogclear", "flashlog"}
  QueueDepth = 1
  MaxRecords = 2
  MaxFaults = 1
  MaxResets = 1
INVARIANTS
  LogHoldsRecords
  ClearedLogIsEmpty
