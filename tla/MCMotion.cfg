SPECIFICATION Spec
CONSTANTS
  Priority <- MCPriority
  ActiveSamples = 2
  StillSamples = 10
  Samples = 2
INVARIANTS
  MovesAndStopsAlternate
  LedShowsMode
  LedShowsMotion
