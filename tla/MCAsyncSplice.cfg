\* Both directions at once, with resets and a cancellation at any point.
CONSTANTS
  Source <- MCSource
  HighWater = 2
  LowWater = 1
  Chunk = 2
SPECIFICATION Spec
INVARIANT TypeOK
PROPERTIES IsTwoPipes EndsTogether
\* The relay ends.
CHECK_DEADLOCK FALSE
