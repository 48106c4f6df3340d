\* Both directions at once, with resets and timeouts at any point.
CONSTANTS
  Source <- MCSource
  Window = 1
  Chunk = 2
SPECIFICATION Spec
INVARIANTS TypeOK ErrorHasCause
PROPERTIES IsTwoPipes IdleTimeoutReturns CompleteWhenUndisturbed
\* The relay ends.
CHECK_DEADLOCK FALSE
