SPECIFICATION Spec
CONSTANTS
  Priority <- MCPriority
  ActiveSamples = 2
  StillSamples = 3
  Samples = 2
INVARIANT DarkWhenOff
